---------------------------- MODULE Attestations ----------------------------
(***************************************************************************)
(* The attestations that accounts obtain, revoke and show to a fund        *)
(* (backend/app/modules/attestations and the tool                          *)
(* generate_credit_certificate), and what the purge of an account does to  *)
(* them (backend/app/modules/me/purge.py).                                 *)
(*                                                                         *)
(* A request reads and decides when it starts and writes when it commits.  *)
(* The scores an attestation states, its PDF and its signature are left    *)
(* out: they are computed once, before the insertion, and never written    *)
(* again.                                                                  *)
(***************************************************************************)
EXTENDS Naturals, FiniteSets

CONSTANTS
    Holders,      \* accounts
    AttIds,       \* identifiers for the rows of attestations
    AttRequests,  \* slots for the requests in flight
    LastYear      \* bound of the model: the years are 1..LastYear

ASSUME LastYearAssumption == LastYear \in Nat \ {0}
\* A table has finitely many rows: they can be counted.
ASSUME AttIdsAssumption == IsFiniteSet(AttIds)

VARIABLES
    attOverlap,   \* whether requests may overlap; it never changes
    year,         \* the current year
    ready,        \* the accounts that have what their attestation states
    attestation,  \* attestations
    attReq,       \* the requests in flight
    due,          \* the accounts whose deletion is due
    purged        \* the accounts that were purged

attVars == <<attOverlap, year, ready, attestation, attReq, due, purged>>

Revokers == {"pme", "admin"}
Numbers == 1..(Cardinality(AttIds) + 1)

\* late: valid_until has passed.  A row that was deleted keeps its place here,
\* so that its identifier is not used again.
NoAttestation == [st |-> "unused"]
NoAttRequest == [op |-> "none"]

AttTypeOK ==
    /\ attOverlap \in BOOLEAN
    /\ year \in 1..LastYear
    /\ ready \subseteq Holders
    /\ attestation \in [AttIds ->
            [st : {"valid", "revoked", "deleted"}, of : Holders, year : 1..LastYear,
             num : Numbers, late : BOOLEAN, by : Revokers \cup {"nobody"}]
            \cup {NoAttestation}]
    /\ attReq \in [AttRequests ->
            [op : {"issue"}, of : Holders, year : 1..LastYear, num : Numbers]
            \cup [op : {"revoke"}, on : AttIds, by : Revokers]
            \cup {NoAttRequest}]
    /\ due \subseteq Holders
    /\ purged \subseteq Holders

InitAttestations ==
    /\ attOverlap \in BOOLEAN
    /\ year = 1
    /\ ready = {}
    /\ attestation = [x \in AttIds |-> NoAttestation]
    /\ attReq = [r \in AttRequests |-> NoAttRequest]
    /\ due = {}
    /\ purged = {}

BeginAtt(r, what) ==
    /\ attReq[r] = NoAttRequest
    /\ attOverlap \/ \A q \in AttRequests : attReq[q] = NoAttRequest
    /\ attReq' = [attReq EXCEPT ![r] = what]
    /\ UNCHANGED <<attOverlap, year, ready, attestation, due, purged>>

EndAtt(r, op) ==
    /\ attReq[r].op = op
    /\ attReq' = [attReq EXCEPT ![r] = NoAttRequest]
    /\ UNCHANGED <<attOverlap, year, ready, due, purged>>

-----------------------------------------------------------------------------
(* The table *)

UnusedIds == {x \in AttIds : attestation[x] = NoAttestation}
RowsOfYear(y) ==
    {x \in AttIds : attestation[x].st \in {"valid", "revoked"} /\ attestation[x].year = y}

\* The credit score that a "credit_score" or "combined" attestation needs is
\* calculated, or the evaluation of an "esg_assessment" one finalised.
GetsReady(h) ==
    /\ h \notin ready \cup purged
    /\ ready' = ready \cup {h}
    /\ UNCHANGED <<attOverlap, year, attestation, attReq, due, purged>>

\* Mutation of NextNumber: the rows of the account are counted, as
\* specs/026-attestation-verifiable-ed25519/research.md has it.
NextNumberOf(h, y) == Cardinality({x \in RowsOfYear(y) : attestation[x].of = h}) + 1

\* _compute_display_id: the rows of the year, of every account, plus one.
NextNumber(h, y) == Cardinality(RowsOfYear(y)) + 1

-----------------------------------------------------------------------------
(* Issuing and revoking *)

StartIssue(r, h) ==
    /\ h \in ready
    /\ BeginAtt(r, [op |-> "issue", of |-> h, year |-> year, num |-> NextNumber(h, year)])

\* uq_attestations_display_id, and the foreign key to the account's user.
Insertable(q) ==
    /\ q.of \notin purged
    /\ \A x \in RowsOfYear(q.year) : attestation[x].num # q.num

FinishIssue(r) ==
    LET q == attReq[r] IN
    /\ EndAtt(r, "issue")
    /\ Insertable(q)
    /\ UnusedIds # {}
    /\ attestation' = [attestation EXCEPT ![CHOOSE x \in UnusedIds : TRUE] =
          [st |-> "valid", of |-> q.of, year |-> q.year, num |-> q.num,
           late |-> FALSE, by |-> "nobody"]]

\* The insertion fails and is not tried again; or it fails for want of an
\* identifier, which is a bound of the model.
IssueFails(r) ==
    /\ EndAtt(r, "issue")
    /\ ~ Insertable(attReq[r]) \/ UnusedIds = {}
    /\ UNCHANGED attestation

\* The holder revokes its own attestations, an administrator any.
StartRevokeAtt(r, x, by) ==
    /\ attestation[x].st = "valid"
    /\ BeginAtt(r, [op |-> "revoke", on |-> x, by |-> by])

\* UPDATE ... WHERE id: the row may have been revoked, or deleted, meanwhile.
FinishRevokeAtt(r) ==
    LET x == attReq[r].on IN
    /\ EndAtt(r, "revoke")
    /\ attestation' = IF attestation[x].st = "deleted" THEN attestation
                      ELSE [attestation EXCEPT ![x].st = "revoked", ![x].by = attReq[r].by]

-----------------------------------------------------------------------------
(* Time, and the purge *)

NewYear ==
    /\ year < LastYear
    /\ year' = year + 1
    /\ UNCHANGED <<attOverlap, ready, attestation, attReq, due, purged>>

\* An attestation is valid for 365 days: it runs out the year after.
RunsOut(x) ==
    /\ attestation[x].st \in {"valid", "revoked"} /\ attestation[x].year < year
    /\ ~ attestation[x].late
    /\ attestation' = [attestation EXCEPT ![x].late = TRUE]
    /\ UNCHANGED <<attOverlap, year, ready, attReq, due, purged>>

\* The deletion of the account was asked for thirty days ago.
BecomesDue(h) ==
    /\ h \notin due \cup purged
    /\ due' = due \cup {h}
    /\ UNCHANGED <<attOverlap, year, ready, attestation, attReq, purged>>

StillValid(h) == {x \in AttIds : attestation[x].st = "valid" /\ attestation[x].of = h}

\* _revoke_active_attestations writes revoked_at and revoked_reason, but no
\* revoked_by_user_id: revoked_consistency_chk refuses the rows, if any, and
\* the purge of the account fails, today and every day.
PurgeHolder(h) ==
    /\ h \in due
    /\ StillValid(h) = {}
    /\ due' = due \ {h}
    /\ purged' = purged \cup {h}
    /\ attestation' = [x \in AttIds |->
          IF attestation[x].st # "unused" /\ attestation[x].of = h
          THEN [attestation[x] EXCEPT !.st = "deleted"] ELSE attestation[x]]
    /\ ready' = ready \ {h}
    /\ UNCHANGED <<attOverlap, year, attReq>>

NextAttestations ==
    \/ \E r \in AttRequests :
        \/ \E h \in Holders : StartIssue(r, h)
        \/ FinishIssue(r) \/ IssueFails(r)
        \/ \E x \in AttIds, by \in Revokers : StartRevokeAtt(r, x, by)
        \/ FinishRevokeAtt(r)
    \/ NewYear
    \/ \E x \in AttIds : RunsOut(x)
    \/ \E h \in Holders : GetsReady(h) \/ BecomesDue(h) \/ PurgeHolder(h)

SpecAttestations == InitAttestations /\ [][NextAttestations]_attVars

\* The job is run every day, and reaches every account that is due.
FairAttestations == SpecAttestations /\ \A h \in Holders : WF_attVars(PurgeHolder(h))

-----------------------------------------------------------------------------
(* Verification *)

\* Mutation of Verified: the expiry is looked at first.
VerifiedExpiryFirst(a) ==
    IF a.st \notin {"valid", "revoked"} THEN "invalid"
    ELSE IF a.late THEN "expired"
    ELSE IF a.st = "revoked" THEN "revoked"
    ELSE "authentic"

\* verify_attestation: revoked, then expired, then authentic.
Verified(a) ==
    IF a.st \notin {"valid", "revoked"} THEN "invalid"
    ELSE IF a.st = "revoked" THEN "revoked"
    ELSE IF a.late THEN "expired"
    ELSE "authentic"

Worse(status) ==
    CASE status = "authentic" -> {"authentic", "expired", "revoked", "invalid"}
      [] status = "expired"   -> {"expired", "revoked", "invalid"}
      [] status = "revoked"   -> {"revoked", "invalid"}
      [] status = "invalid"   -> {"invalid"}

\* What a fund reads of an attestation only gets worse: an attestation that was
\* revoked is never shown as expired or authentic later, whatever overlaps;
\* and when requests do not overlap, it keeps the one who revoked it.
StatusOnlyWorsens ==
    [][\A x \in AttIds : attestation[x] # NoAttestation =>
        /\ Verified(attestation'[x]) \in Worse(Verified(attestation[x]))
        /\ (~ attOverlap /\ attestation[x].st = "revoked") =>
              attestation'[x].by = attestation[x].by]_attVars

\* When requests do not overlap, an attestation is refused its number only
\* because one of its year was deleted, with its account: the number that the
\* count gives is then the number of a later one.
NumberFreeUntilPurge ==
    \A r \in AttRequests :
        (~ attOverlap /\ attReq[r].op = "issue" /\ ~ Insertable(attReq[r])) =>
            \/ attReq[r].of \in purged
            \/ \E x \in AttIds : attestation[x].st = "deleted" /\ attestation[x].year = attReq[r].year

\* "Revoquer une eventuelle attestation credit active", then delete the rows
\* (purge.py:11-15): an account that is due is purged, whatever it holds.
DueHoldersArePurged == \A h \in Holders : (h \in due) ~> (h \in purged)
=============================================================================
