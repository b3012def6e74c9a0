------------------------------ MODULE Accounts ------------------------------
(***************************************************************************)
(* Accounts, their members and invitations, and the deletion of an         *)
(* account: backend/app/modules/account/service.py, the registration of    *)
(* backend/app/api/auth.py, backend/app/modules/admin/users_service.py,    *)
(* backend/app/modules/me/service.py and purge.py, and the job             *)
(* backend/scripts/purge_scheduled_deletions.py.                           *)
(*                                                                         *)
(* A request reads and decides when it starts (Start...), and writes and   *)
(* commits when it finishes (Finish...); in between, other requests and    *)
(* the job go on.  A request that is refused, or that fails, changes       *)
(* nothing: it is not a step, except where its failure is of interest.     *)
(* That includes the invitation found too old at registration: it is       *)
(* marked expired, and the exception raised next rolls the mark back       *)
(* (auth.py:166-172), so that it stays pending.                            *)
(***************************************************************************)
EXTENDS Naturals, FiniteSets

CONSTANTS
    AccountIds,  \* identifiers for the rows of accounts
    Emails,      \* e-mail addresses; a user is known by the address
    Invites,     \* identifiers for the rows of account_invitations
    Requests,    \* slots for the requests in flight
    None

ASSUME NoneIsNothing == None \notin AccountIds \cup Emails \cup Invites

VARIABLES
    accountOverlap,   \* whether requests may overlap; it never changes
    user,      \* users, by address.  "removed" and "suspended" are both
               \* is_active = false: by a member, or by an administrator
    account,   \* accounts: is_active is st = "open"
    invite,    \* account_invitations; late: expires_at has passed
    essential, \* the accounts with an active essential consent
    logged,    \* the accounts with rows in tool_call_logs
    accountReq,       \* the requests in flight
    cron,      \* the accounts the purge job has listed and not reached yet
    joined     \* history: how many users registered with an invitation

accountVars == <<accountOverlap, user, account, invite, essential, logged, accountReq, cron, joined>>

NoUser == [st |-> "absent", acct |-> None]
NoRequest == [op |-> "none", who |-> None, on |-> None]
NoInvite == [st |-> "unused", acct |-> None, email |-> None, late |-> FALSE]

Ops == {"register", "remove", "revoke", "invite", "schedule", "cancel"}

AccountTypeOK ==
    /\ accountOverlap \in BOOLEAN
    /\ user \in [Emails -> [st : {"active", "removed", "suspended"}, acct : AccountIds]
                           \cup {NoUser}]
    /\ account \in [AccountIds -> [st : {"unused", "open", "closed"},
                                   deletion : {"no", "waiting", "due"}]]
    /\ invite \in [Invites -> [st : {"pending", "accepted", "revoked"},
                               acct : AccountIds, email : Emails, late : BOOLEAN]
                              \cup {NoInvite}]
    /\ essential \subseteq AccountIds
    /\ logged \subseteq AccountIds
    /\ accountReq \in [Requests -> [op : Ops, who : Emails \cup {None},
                             on : AccountIds \cup Emails \cup Invites \cup {None}]
                            \cup {NoRequest}]
    /\ cron \subseteq AccountIds
    /\ joined \in [Invites -> Nat]

InitAccounts ==
    /\ accountOverlap \in BOOLEAN
    /\ user = [e \in Emails |-> NoUser]
    /\ account = [a \in AccountIds |-> [st |-> "unused", deletion |-> "no"]]
    /\ invite = [i \in Invites |-> NoInvite]
    /\ essential = {}
    /\ logged = {}
    /\ accountReq = [r \in Requests |-> NoRequest]
    /\ cron = {}
    /\ joined = [i \in Invites |-> 0]

-----------------------------------------------------------------------------
(* Requests *)

Open(a) == account[a].st = "open"
Exists(e) == user[e].st # "absent"

\* get_current_user: an active user of an active account.
SignedIn(e) == user[e].st = "active" /\ Open(user[e].acct)

ActiveMembers(a) == {e \in Emails : user[e] = [st |-> "active", acct |-> a]}

Free(r) == accountReq[r] = NoRequest /\ (accountOverlap \/ \A q \in Requests : accountReq[q] = NoRequest)

BeginAccount(r, op, who, on) ==
    /\ Free(r)
    /\ accountReq' = [accountReq EXCEPT ![r] = [op |-> op, who |-> who, on |-> on]]
    /\ UNCHANGED <<accountOverlap, user, account, invite, essential, logged, cron, joined>>

EndAccount(r, op) ==
    /\ accountReq[r].op = op
    /\ accountReq' = [accountReq EXCEPT ![r] = NoRequest]
    /\ UNCHANGED <<accountOverlap, logged, cron>>

-----------------------------------------------------------------------------
(* Registration *)

\* An invitation that a registration with address e accepts.
Usable(i, e) == invite[i].st = "pending" /\ ~invite[i].late /\ invite[i].email = e

StartRegister(r, e, i) ==
    /\ ~Exists(e)
    /\ i # None => Usable(i, e)
    /\ BeginAccount(r, "register", e, i)

\* Mutation of AddressTaken: users.email is not unique.
NoAddressIsTaken(r) == FALSE

\* users.email is unique: the INSERT of the later of two registrations fails.
AddressTaken(r) == Exists(accountReq[r].who)

FinishStandard(r, a) ==
    LET e == accountReq[r].who IN
    /\ EndAccount(r, "register")
    /\ accountReq[r].on = None
    /\ ~AddressTaken(r)
    /\ account[a].st = "unused"
    /\ account' = [account EXCEPT ![a].st = "open"]
    /\ user' = [user EXCEPT ![e] = [st |-> "active", acct |-> a]]
    /\ essential' = essential \cup {a}
    /\ UNCHANGED <<invite, joined>>

\* uq_consents_one_active allows one active consent of a type per account:
\* the flush fails, register() catches that, and the commit of get_db fails because the session was rolled back.
ConsentClash(r) == accountReq[r].on # None /\ invite[accountReq[r].on].acct \in essential

\* The user, the invitation and the three essential consents of the account
\* are one transaction.
FinishInvited(r) ==
    LET e == accountReq[r].who
        i == accountReq[r].on
        a == invite[i].acct
    IN
    /\ EndAccount(r, "register")
    /\ i # None
    /\ ~AddressTaken(r)
    /\ ~ConsentClash(r)
    /\ user' = [user EXCEPT ![e] = [st |-> "active", acct |-> a]]
    /\ invite' = [invite EXCEPT ![i].st = "accepted"]
    /\ essential' = essential \cup {a}
    /\ joined' = [joined EXCEPT ![i] = @ + 1]
    /\ UNCHANGED account

RegisterFails(r) ==
    /\ EndAccount(r, "register")
    /\ AddressTaken(r) \/ ConsentClash(r)
    /\ UNCHANGED <<user, account, invite, essential, joined>>

-----------------------------------------------------------------------------
(* The team *)

StartInvite(r, e, x) ==
    /\ SignedIn(e)
    /\ \A i \in Invites : ~(invite[i].acct = user[e].acct /\ invite[i].email = x
                            /\ invite[i].st = "pending")
    /\ \E i \in Invites : invite[i] = NoInvite
    /\ BeginAccount(r, "invite", e, x)

\* invited_by_user_id refers to the user, who may have been purged since.
FinishInvite(r, i) ==
    LET e == accountReq[r].who IN
    /\ EndAccount(r, "invite")
    /\ invite[i] = NoInvite
    /\ Exists(e)
    /\ invite' = [invite EXCEPT ![i] = [st |-> "pending", acct |-> user[e].acct,
                                        email |-> accountReq[r].on, late |-> FALSE]]
    /\ UNCHANGED <<user, account, essential, joined>>

StartRevoke(r, e, i) ==
    /\ SignedIn(e)
    /\ invite[i].acct = user[e].acct
    /\ invite[i].st = "pending"
    /\ BeginAccount(r, "revoke", e, i)

\* Mutation of FinishRevoke: a status the table does not have.
FinishRevokeAsDeleted(r) ==
    /\ EndAccount(r, "revoke")
    /\ invite' = [invite EXCEPT ![accountReq[r].on].st = "deleted"]
    /\ UNCHANGED <<user, account, essential, joined>>

\* By id: whatever the invitation has become.
FinishRevoke(r) ==
    /\ EndAccount(r, "revoke")
    /\ invite' = [invite EXCEPT ![accountReq[r].on].st = "revoked"]
    /\ UNCHANGED <<user, account, essential, joined>>

\* Mutation of StartRemove: active_count < 1.
RemoveLast(r, e, x) ==
    /\ SignedIn(e)
    /\ user[x] = [st |-> "active", acct |-> user[e].acct]
    /\ Cardinality(ActiveMembers(user[e].acct)) >= 1
    /\ BeginAccount(r, "remove", e, x)

\* remove_account_user, of a user x who is still active (of another one, it
\* only revokes tokens).
StartRemove(r, e, x) ==
    /\ SignedIn(e)
    /\ user[x] = [st |-> "active", acct |-> user[e].acct]
    /\ Cardinality(ActiveMembers(user[e].acct)) > 1
    /\ BeginAccount(r, "remove", e, x)

FinishRemove(r) ==
    LET x == accountReq[r].on IN
    /\ EndAccount(r, "remove")
    /\ user' = [user EXCEPT ![x].st = IF @ = "active" THEN "removed" ELSE @]
    /\ UNCHANGED <<account, invite, essential, joined>>

\* toggle_user_active
Toggle(e) ==
    /\ Exists(e)
    /\ user' = [user EXCEPT ![e].st = IF @ = "active" THEN "suspended" ELSE "active"]
    /\ UNCHANGED <<accountOverlap, account, invite, essential, logged, accountReq, cron, joined>>

\* grant_consent and revoke_consent, of the first and the last of the essential
\* consents that is active.
ChangeConsents(e) ==
    /\ SignedIn(e)
    /\ essential' = IF user[e].acct \in essential THEN essential \ {user[e].acct}
                    ELSE essential \cup {user[e].acct}
    /\ UNCHANGED <<accountOverlap, user, account, invite, logged, accountReq, cron, joined>>

\* log_tool_call: every tool of the assistant leaves a row.
UseAssistant(e) ==
    /\ SignedIn(e)
    /\ logged' = logged \cup {user[e].acct}
    /\ UNCHANGED <<accountOverlap, user, account, invite, essential, accountReq, cron, joined>>

-----------------------------------------------------------------------------
(* Deletion of an account *)

StartSchedule(r, e) ==
    /\ SignedIn(e)
    /\ account[user[e].acct].deletion = "no"
    /\ BeginAccount(r, "schedule", e, user[e].acct)

\* The audit row refers to the user.
FinishSchedule(r) ==
    /\ EndAccount(r, "schedule")
    /\ Exists(accountReq[r].who)
    /\ account' = [account EXCEPT ![accountReq[r].on].deletion = "waiting"]
    /\ UNCHANGED <<user, invite, essential, joined>>

\* By a signed link, which expires with the grace period (who = None), or by
\* a user of the account, who need not be active.
StartCancel(r, e, a) ==
    /\ account[a].st = "open"
    /\ account[a].deletion # "no"
    /\ IF e = None THEN account[a].deletion = "waiting" ELSE user[e].acct = a
    /\ BeginAccount(r, "cancel", e, a)

FinishCancel(r) ==
    LET a == accountReq[r].on IN
    /\ EndAccount(r, "cancel")
    /\ \E e \in Emails : user[e].acct = a /\ (accountReq[r].who # None => e = accountReq[r].who)
    /\ account' = [account EXCEPT ![a].deletion = "no"]
    /\ UNCHANGED <<user, invite, essential, joined>>

\* What the request refers to was purged meanwhile: a foreign key fails.
RequestFails(r) ==
    /\ \/ accountReq[r].op \in {"invite", "schedule"} /\ ~Exists(accountReq[r].who)
       \/ accountReq[r].op = "cancel" /\ account[accountReq[r].on].st = "closed"
    /\ EndAccount(r, accountReq[r].op)
    /\ UNCHANGED <<user, account, invite, essential, joined>>

\* fetch_accounts_to_purge
CronStarts ==
    LET due == {a \in AccountIds : Open(a) /\ account[a].deletion = "due"} IN
    /\ cron = {}
    /\ due # {}
    /\ cron' = due
    /\ UNCHANGED <<accountOverlap, user, account, invite, essential, logged, accountReq, joined>>

\* tool_call_logs refers to users and conversations, is not one of the tables
\* purged, and its foreign keys have no ON DELETE.
Purgeable(a) == a \notin logged

\* purge_account_data: does not look at deletion_scheduled_at again, and
\* leaves the invitations.
Purge(a) ==
    /\ a \in cron
    /\ Purgeable(a)
    /\ cron' = cron \ {a}
    /\ account' = [account EXCEPT ![a].st = "closed"]
    /\ user' = [e \in Emails |-> IF user[e].acct = a THEN NoUser ELSE user[e]]
    /\ essential' = essential \ {a}
    /\ UNCHANGED <<accountOverlap, invite, logged, accountReq, joined>>

\* Rolled back and logged; the job goes on with the next account.
PurgeFails(a) ==
    /\ a \in cron
    /\ ~Purgeable(a)
    /\ cron' = cron \ {a}
    /\ UNCHANGED <<accountOverlap, user, account, invite, essential, logged, accountReq, joined>>

-----------------------------------------------------------------------------
(* Time *)

InviteExpires(i) ==
    /\ invite[i].st = "pending"
    /\ ~invite[i].late
    /\ invite' = [invite EXCEPT ![i].late = TRUE]
    /\ UNCHANGED <<accountOverlap, user, account, essential, logged, accountReq, cron, joined>>

DeletionDue(a) ==
    /\ account[a].deletion = "waiting"
    /\ account' = [account EXCEPT ![a].deletion = "due"]
    /\ UNCHANGED <<accountOverlap, user, invite, essential, logged, accountReq, cron, joined>>

-----------------------------------------------------------------------------

StartAccount(r) ==
    \E e \in Emails :
        \/ \E i \in Invites \cup {None} : StartRegister(r, e, i)
        \/ \E x \in Emails : StartInvite(r, e, x) \/ StartRemove(r, e, x)
        \/ \E i \in Invites : StartRevoke(r, e, i)
        \/ StartSchedule(r, e)

Cancelling(r) ==
    \E e \in Emails \cup {None}, a \in AccountIds : StartCancel(r, e, a)

FinishAccount(r) ==
    \/ \E a \in AccountIds : FinishStandard(r, a)
    \/ FinishInvited(r)
    \/ RegisterFails(r)
    \/ \E i \in Invites : FinishInvite(r, i)
    \/ FinishRevoke(r) \/ FinishRemove(r)
    \/ FinishSchedule(r) \/ FinishCancel(r) \/ RequestFails(r)

Job == CronStarts \/ \E a \in AccountIds : Purge(a) \/ PurgeFails(a)

NextAccounts ==
    \/ \E r \in Requests : StartAccount(r) \/ Cancelling(r) \/ FinishAccount(r)
    \/ \E e \in Emails : Toggle(e) \/ ChangeConsents(e) \/ UseAssistant(e)
    \/ Job
    \/ \E i \in Invites : InviteExpires(i)
    \/ \E a \in AccountIds : DeletionDue(a)

SpecAccounts == InitAccounts /\ [][NextAccounts]_accountVars

\* The job is run every day.
FairAccounts == SpecAccounts /\ WF_accountVars(Job)

-----------------------------------------------------------------------------
(* Properties *)

\* Removals leave an open account a member, as LastMemberError promises, when
\* requests do not overlap.  (An administrator may suspend the last one.)
MemberRemains ==
    ~accountOverlap => \A a \in AccountIds : Open(a) =>
        \E e \in Emails : user[e].acct = a /\ user[e].st \in {"active", "suspended"}

\* One registration per invitation, even when two of them overlap: the status
\* is tested too early to ensure it, the address of the invitation ensures it,
\* until the account and its users are purged.
InvitationUsedOnce ==
    \A i \in Invites : joined[i] > 1 => account[invite[i].acct].st = "closed"

\* "le compte est cree, on n'echoue pas" (auth.py:259): a registration whose
\* invitation was accepted, for an address that is still free, is done.
InvitedRegistrationSucceeds ==
    [][\A r \in Requests :
        (/\ accountReq[r].op = "register" /\ accountReq[r].on # None
         /\ ~Exists(accountReq[r].who)
         /\ accountReq'[r] = NoRequest) => user'[accountReq[r].who].st = "active"]_accountVars

\* The purge of a scheduled account succeeds, whatever its users did.
EveryDueDeletionHappens ==
    \A a \in AccountIds : (account[a].deletion = "due") ~>
        (account[a].st = "closed" \/ account[a].deletion # "due")
=============================================================================
