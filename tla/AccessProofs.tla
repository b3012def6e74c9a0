---------------------------- MODULE AccessProofs ----------------------------
(***************************************************************************)
(* What TLAPS proves of the modules that MCAccess composes, for any number *)
(* of accounts, addresses, invitations, attestations, tabs and requests: of *)
(* Accounts, that removals leave an open account a member and that an      *)
(* invitation is used once; of Attestations, that a status only worsens    *)
(* and when the next number is taken; of RefreshSessions, that who holds a *)
(* session holds one that is alive, and what a refusal and the grace window *)
(* give; of the composition, that it is a behaviour of each of them and    *)
(* that every variable stays in its type.                                  *)
(***************************************************************************)
EXTENDS MCAccess, ChatClientProofs

-----------------------------------------------------------------------------
(* Accounts *)

\* What a request carries, which depends on what it asks for; an invitation
\* that a registration found keeps the address it was found by.
Fits(q) ==
    /\ q.op = "register" =>
          /\ q.who \in Emails
          /\ q.on # None => /\ q.on \in Invites /\ invite[q.on] # NoInvite
                            /\ invite[q.on].email = q.who
    /\ q.op = "invite" => q.who \in Emails /\ q.on \in Emails
    /\ q.op = "revoke" => q.on \in Invites /\ invite[q.on] # NoInvite
    /\ q.op = "remove" => q.on \in Emails
    /\ q.op = "schedule" => q.who \in Emails /\ q.on \in AccountIds
    /\ q.op = "cancel" => q.on \in AccountIds

RequestsFit == \A r \in Requests : Fits(accountReq[r])

\* Who joined by an invitation is still there, unless the account was purged.
JoinedAreThere ==
    \A i \in Invites : joined[i] > 0 =>
        /\ invite[i] # NoInvite
        /\ \/ user[invite[i].email] # NoUser /\ user[invite[i].email].acct = invite[i].acct
           \/ account[invite[i].acct].st = "closed"

OneAtATime ==
    ~ accountOverlap => \A r, q \in Requests :
        accountReq[r] # NoRequest /\ accountReq[q] # NoRequest => r = q

Member(e, a) == user[e].acct = a /\ user[e].st \in {"active", "suspended"}

\* A removal found another member, who stays until it is done: only another
\* removal could remove that one.
RemovalSparesOne ==
    ~ accountOverlap => \A r \in Requests :
        LET x == accountReq[r].on IN
        accountReq[r].op = "remove" /\ user[x] # NoUser =>
            \E y \in Emails \ {x} : Member(y, user[x].acct)

AccountInv ==
    /\ AccountTypeOK /\ RequestsFit /\ JoinedAreThere /\ InvitationUsedOnce
    /\ OneAtATime /\ RemovalSparesOne /\ MemberRemains

LEMMA AccountInit == InitAccounts => AccountInv
<1> SUFFICES ASSUME InitAccounts PROVE AccountInv
    OBVIOUS
<1>1. AccountTypeOK
    BY DEF InitAccounts, AccountTypeOK
<1>2. RequestsFit /\ OneAtATime /\ RemovalSparesOne
    BY DEF InitAccounts, RequestsFit, Fits, OneAtATime, RemovalSparesOne, NoRequest
<1>3. JoinedAreThere /\ InvitationUsedOnce /\ MemberRemains
    BY DEF InitAccounts, JoinedAreThere, InvitationUsedOnce, MemberRemains, Open
<1> QED
    BY <1>1, <1>2, <1>3 DEF AccountInv

\* Whatever the rows become, the requests that go on still fit them.
LEMMA FitStep ==
    ASSUME RequestsFit,
           \A r \in Requests : accountReq'[r] \in {accountReq[r], NoRequest},
           \A i \in Invites : invite[i] # NoInvite =>
                invite'[i] # NoInvite /\ invite'[i].email = invite[i].email
    PROVE  RequestsFit'
<1> SUFFICES ASSUME NEW r \in Requests PROVE Fits(accountReq[r])'
    BY DEF RequestsFit
<1>1. CASE accountReq'[r] = NoRequest
    BY <1>1 DEF Fits, NoRequest
<1>2. CASE accountReq'[r] = accountReq[r]
    BY <1>2 DEF RequestsFit, Fits
<1> QED
    BY <1>1, <1>2

\* A request that starts changes no row.
LEMMA BeginStep ==
    ASSUME AccountInv, NEW r \in Requests, NEW op \in Ops, NEW who \in Emails \cup {None},
           NEW on \in AccountIds \cup Emails \cup Invites \cup {None},
           BeginAccount(r, op, who, on), Fits([op |-> op, who |-> who, on |-> on]),
           op = "remove" => \E y \in Emails \ {on} : Member(y, user[on].acct)
    PROVE  AccountInv'
<1> USE DEF AccountInv
<1> DEFINE q == [op |-> op, who |-> who, on |-> on]
<1>1. /\ accountReq' = [accountReq EXCEPT ![r] = q]
      /\ UNCHANGED <<accountOverlap, user, account, invite, essential, logged, cron, joined>>
      /\ accountReq \in [Requests -> [op : Ops, who : Emails \cup {None},
                             on : AccountIds \cup Emails \cup Invites \cup {None}] \cup {NoRequest}]
    BY DEF BeginAccount, AccountTypeOK
<1>2. AccountTypeOK'
    BY <1>1 DEF AccountTypeOK
<1>3. RequestsFit'
    BY <1>1 DEF RequestsFit, Fits
<1>4. OneAtATime'
    BY <1>1 DEF OneAtATime, BeginAccount, Free
<1>5. RemovalSparesOne'
    BY <1>1 DEF RemovalSparesOne, Member
<1>6. JoinedAreThere' /\ InvitationUsedOnce' /\ MemberRemains'
    BY <1>1 DEF JoinedAreThere, InvitationUsedOnce, MemberRemains, Open
<1> QED
    BY <1>2, <1>3, <1>4, <1>5, <1>6

\* More than one active member: another one than x.
LEMMA AnotherMember ==
    ASSUME NEW x \in Emails, NEW a, x \in ActiveMembers(a), Cardinality(ActiveMembers(a)) > 1
    PROVE  \E y \in Emails \ {x} : Member(y, a)
<1> SUFFICES ASSUME \A y \in Emails \ {x} : ~ Member(y, a) PROVE FALSE
    OBVIOUS
<1>1. ActiveMembers(a) = {x}
    BY DEF ActiveMembers, Member
<1> QED
    BY <1>1, FS_Singleton

LEMMA AccountStarts ==
    ASSUME AccountInv, NEW r \in Requests, StartAccount(r) \/ Cancelling(r) PROVE AccountInv'
<1> USE DEF AccountInv
<1>0. /\ user \in [Emails -> [st : {"active", "removed", "suspended"}, acct : AccountIds] \cup {NoUser}]
      /\ None \notin Invites
    BY NoneIsNothing DEF AccountTypeOK
<1>1. ASSUME NEW e \in Emails, NEW i \in Invites \cup {None}, StartRegister(r, e, i) PROVE AccountInv'
    <2>1. BeginAccount(r, "register", e, i) /\ Fits([op |-> "register", who |-> e, on |-> i])
        BY <1>1 DEF StartRegister, Usable, Fits, NoInvite
    <2> QED
        BY <2>1, BeginStep DEF Ops
<1>2. ASSUME NEW e \in Emails, NEW x \in Emails, StartInvite(r, e, x) PROVE AccountInv'
    <2>1. BeginAccount(r, "invite", e, x) /\ Fits([op |-> "invite", who |-> e, on |-> x])
        BY <1>2 DEF StartInvite, Fits
    <2> QED
        BY <2>1, BeginStep DEF Ops
<1>3. ASSUME NEW e \in Emails, NEW x \in Emails, StartRemove(r, e, x) PROVE AccountInv'
    <2>1. BeginAccount(r, "remove", e, x) /\ Fits([op |-> "remove", who |-> e, on |-> x])
        BY <1>3 DEF StartRemove, Fits
    <2>2. x \in ActiveMembers(user[e].acct) /\ user[x].acct = user[e].acct
        BY <1>3 DEF StartRemove, ActiveMembers
    <2>3. \E y \in Emails \ {x} : Member(y, user[x].acct)
        BY <1>3, <2>2, AnotherMember DEF StartRemove
    <2> QED
        BY <2>1, <2>3, BeginStep DEF Ops
<1>4. ASSUME NEW e \in Emails, NEW i \in Invites, StartRevoke(r, e, i) PROVE AccountInv'
    <2>1. BeginAccount(r, "revoke", e, i) /\ Fits([op |-> "revoke", who |-> e, on |-> i])
        BY <1>4 DEF StartRevoke, Fits, NoInvite
    <2> QED
        BY <2>1, BeginStep DEF Ops
<1>5. ASSUME NEW e \in Emails, StartSchedule(r, e) PROVE AccountInv'
    <2>1. user[e].acct \in AccountIds
        BY <1>0, <1>5 DEF StartSchedule, SignedIn, NoUser
    <2>2. /\ BeginAccount(r, "schedule", e, user[e].acct)
          /\ Fits([op |-> "schedule", who |-> e, on |-> user[e].acct])
        BY <1>5, <2>1 DEF StartSchedule, Fits
    <2> QED
        BY <2>1, <2>2, BeginStep DEF Ops
<1>6. ASSUME NEW e \in Emails \cup {None}, NEW a \in AccountIds, StartCancel(r, e, a) PROVE AccountInv'
    <2>1. BeginAccount(r, "cancel", e, a) /\ Fits([op |-> "cancel", who |-> e, on |-> a])
        BY <1>6 DEF StartCancel, Fits
    <2> QED
        BY <2>1, BeginStep DEF Ops
<1> QED
    BY <1>1, <1>2, <1>3, <1>4, <1>5, <1>6 DEF StartAccount, Cancelling

\* A request that ends was the only one, or requests overlap.
LEMMA EndStep ==
    ASSUME AccountInv, NEW r \in Requests, NEW op \in Ops, EndAccount(r, op)
    PROVE  /\ OneAtATime' /\ RemovalSparesOne'
           /\ accountReq' \in [Requests -> [op : Ops, who : Emails \cup {None},
                                on : AccountIds \cup Emails \cup Invites \cup {None}] \cup {NoRequest}]
           /\ \A q \in Requests : accountReq'[q] \in {accountReq[q], NoRequest}
           /\ accountOverlap' \in BOOLEAN /\ accountOverlap' = accountOverlap
           /\ logged' \subseteq AccountIds /\ cron' \subseteq AccountIds
           /\ accountReq[r] # NoRequest /\ Fits(accountReq[r])
<1> USE DEF AccountInv, AccountTypeOK
<1>1. /\ accountReq[r].op = op /\ accountReq' = [accountReq EXCEPT ![r] = NoRequest]
      /\ UNCHANGED <<accountOverlap, logged, cron>>
    BY DEF EndAccount
<1>2. accountReq[r] # NoRequest /\ Fits(accountReq[r])
    BY <1>1 DEF Ops, NoRequest, RequestsFit
<1>3. \A q \in Requests : accountReq'[q] \in {accountReq[q], NoRequest}
    BY <1>1
<1>4. ~ accountOverlap => \A q \in Requests : accountReq'[q] = NoRequest
    BY <1>1, <1>2 DEF OneAtATime
<1>5. OneAtATime' /\ RemovalSparesOne'
    BY <1>1, <1>4 DEF OneAtATime, RemovalSparesOne, NoRequest
<1> QED
    BY <1>1, <1>2, <1>3, <1>5

LEMMA RegistrationEnds ==
    ASSUME AccountInv, NEW r \in Requests,
           (\E a \in AccountIds : FinishStandard(r, a)) \/ FinishInvited(r) \/ RegisterFails(r)
    PROVE  AccountInv'
<1> USE DEF AccountInv
<1> DEFINE e == accountReq[r].who
           i == accountReq[r].on
<1>0. EndAccount(r, "register") /\ accountReq[r].op = "register" /\ "register" \in Ops
    BY DEF FinishStandard, FinishInvited, RegisterFails, EndAccount, Ops
<1>1. /\ e \in Emails
      /\ i # None => i \in Invites /\ invite[i] # NoInvite /\ invite[i].email = e
    BY <1>0, EndStep DEF Fits
<1>2. ASSUME NEW a \in AccountIds, FinishStandard(r, a) PROVE AccountInv'
    <2>1. /\ account' = [account EXCEPT ![a].st = "open"] /\ account[a].st = "unused"
          /\ user' = [user EXCEPT ![e] = [st |-> "active", acct |-> a]]
          /\ user[e].st = "absent" /\ essential' = essential \cup {a}
          /\ UNCHANGED <<invite, joined>>
        BY <1>2 DEF FinishStandard, AddressTaken, Exists
    <2>2. AccountTypeOK'
        BY <1>0, <1>1, <2>1, EndStep DEF AccountTypeOK
    <2>3. RequestsFit'
        BY <1>0, <2>1, EndStep, FitStep
    <2>4. JoinedAreThere' /\ InvitationUsedOnce'
        BY <1>1, <2>1 DEF JoinedAreThere, InvitationUsedOnce, AccountTypeOK, NoUser, NoInvite
    <2>5. MemberRemains'
        BY <1>0, <1>1, <2>1, EndStep, NoneIsNothing DEF MemberRemains, Open, AccountTypeOK, NoUser
    <2> QED
        BY <1>0, <2>2, <2>3, <2>4, <2>5, EndStep
<1>3. CASE FinishInvited(r)
    <2> DEFINE a == invite[i].acct
    <2>1. /\ user' = [user EXCEPT ![e] = [st |-> "active", acct |-> a]]
          /\ user[e].st = "absent" /\ essential' = essential \cup {a}
          /\ invite' = [invite EXCEPT ![i].st = "accepted"] /\ i # None
          /\ joined' = [joined EXCEPT ![i] = @ + 1] /\ UNCHANGED account
        BY <1>3 DEF FinishInvited, AddressTaken, Exists
    <2>2. i \in Invites /\ a \in AccountIds /\ invite[i].email = e /\ invite'[i] # NoInvite
        BY <1>1, <2>1 DEF AccountTypeOK, NoInvite
    <2>3. AccountTypeOK'
        BY <1>0, <1>1, <2>1, <2>2, EndStep DEF AccountTypeOK
    <2>4. \A j \in Invites : invite[j] # NoInvite =>
            /\ invite'[j] # NoInvite /\ invite'[j].email = invite[j].email
            /\ invite'[j].acct = invite[j].acct
        BY <2>1, <2>2 DEF AccountTypeOK
    <2>5. RequestsFit'
        BY <1>0, <2>4, EndStep, FitStep
    <2>6. JoinedAreThere'
        BY <1>1, <2>1, <2>2, <2>4 DEF JoinedAreThere, AccountTypeOK, NoUser
    <2>7. InvitationUsedOnce'
        <3>1. joined[i] > 0 => account[a].st = "closed"
            BY <2>1, <2>2 DEF JoinedAreThere, AccountTypeOK, NoUser
        <3>2. ASSUME NEW j \in Invites, joined'[j] > 1, j # i PROVE account'[invite'[j].acct].st = "closed"
            BY <2>1, <2>2, <2>4, <3>2 DEF InvitationUsedOnce, JoinedAreThere, AccountTypeOK
        <3> QED
            BY <2>1, <2>2, <2>4, <3>1, <3>2 DEF InvitationUsedOnce, AccountTypeOK
    <2>8. MemberRemains'
        BY <1>0, <1>1, <2>1, <2>2, EndStep, NoneIsNothing DEF MemberRemains, Open, AccountTypeOK, NoUser
    <2> QED
        BY <1>0, <2>3, <2>5, <2>6, <2>7, <2>8, EndStep
<1>4. CASE RegisterFails(r)
    <2>1. UNCHANGED <<user, account, invite, essential, joined>>
        BY <1>4 DEF RegisterFails
    <2>2. AccountTypeOK'
        BY <1>0, <2>1, EndStep DEF AccountTypeOK
    <2>3. RequestsFit'
        BY <1>0, <2>1, EndStep, FitStep
    <2>4. JoinedAreThere' /\ InvitationUsedOnce' /\ MemberRemains'
        BY <1>0, <2>1, EndStep DEF JoinedAreThere, InvitationUsedOnce, MemberRemains, Open
    <2> QED
        BY <1>0, <2>2, <2>3, <2>4, EndStep
<1> QED
    BY <1>2, <1>3, <1>4

\* The other requests that end write one row, or none.
LEMMA TeamEnds ==
    ASSUME AccountInv, NEW r \in Requests,
           (\E i \in Invites : FinishInvite(r, i)) \/ FinishRevoke(r) \/ FinishRemove(r)
    PROVE  AccountInv'
<1> USE DEF AccountInv
<1> DEFINE e == accountReq[r].who
           x == accountReq[r].on
<1>1. ASSUME NEW i \in Invites, FinishInvite(r, i) PROVE AccountInv'
    <2>0. EndAccount(r, "invite") /\ accountReq[r].op = "invite" /\ "invite" \in Ops
        BY <1>1 DEF FinishInvite, EndAccount, Ops
    <2>1. e \in Emails /\ x \in Emails /\ user[e].acct \in AccountIds
        BY <1>1, <2>0, EndStep DEF Fits, FinishInvite, Exists, AccountTypeOK, NoUser
    <2>2. /\ invite' = [invite EXCEPT ![i] = [st |-> "pending", acct |-> user[e].acct,
                                               email |-> x, late |-> FALSE]]
          /\ invite[i] = NoInvite
          /\ UNCHANGED <<user, account, essential, joined>>
        BY <1>1 DEF FinishInvite
    <2>3. AccountTypeOK'
        BY <2>0, <2>1, <2>2, EndStep DEF AccountTypeOK
    <2>4. RequestsFit'
        BY <2>0, <2>2, EndStep, FitStep
    <2>5. JoinedAreThere' /\ InvitationUsedOnce'
        BY <2>2 DEF JoinedAreThere, InvitationUsedOnce, AccountTypeOK
    <2>6. MemberRemains'
        BY <2>0, <2>2, EndStep DEF MemberRemains, Open
    <2> QED
        BY <2>0, <2>3, <2>4, <2>5, <2>6, EndStep
<1>2. CASE FinishRevoke(r)
    <2>0. EndAccount(r, "revoke") /\ accountReq[r].op = "revoke" /\ "revoke" \in Ops
        BY <1>2 DEF FinishRevoke, EndAccount, Ops
    <2>1. x \in Invites /\ invite[x] # NoInvite
        BY <2>0, EndStep DEF Fits
    <2>2. /\ invite' = [invite EXCEPT ![x].st = "revoked"]
          /\ UNCHANGED <<user, account, essential, joined>>
        BY <1>2 DEF FinishRevoke
    <2>3. AccountTypeOK'
        BY <2>0, <2>1, <2>2, EndStep DEF AccountTypeOK
    <2>4. \A i \in Invites :
            /\ invite'[i].email = invite[i].email /\ invite'[i].acct = invite[i].acct
            /\ invite[i] # NoInvite => invite'[i] # NoInvite
        BY <2>1, <2>2 DEF AccountTypeOK, NoInvite
    <2>5. RequestsFit'
        BY <2>0, <2>4, EndStep, FitStep
    <2>6. JoinedAreThere' /\ InvitationUsedOnce'
        BY <2>2, <2>4 DEF JoinedAreThere, InvitationUsedOnce
    <2>7. MemberRemains'
        BY <2>0, <2>2, EndStep DEF MemberRemains, Open
    <2> QED
        BY <2>0, <2>3, <2>5, <2>6, <2>7, EndStep
<1>3. CASE FinishRemove(r)
    <2>0. EndAccount(r, "remove") /\ accountReq[r].op = "remove" /\ "remove" \in Ops
        BY <1>3 DEF FinishRemove, EndAccount, Ops
    <2>1. x \in Emails
        BY <2>0, EndStep DEF Fits
    <2>2. /\ user' = [user EXCEPT ![x].st = IF @ = "active" THEN "removed" ELSE @]
          /\ UNCHANGED <<account, invite, essential, joined>>
        BY <1>3 DEF FinishRemove
    <2>3. AccountTypeOK'
        BY <2>0, <2>1, <2>2, EndStep DEF AccountTypeOK, NoUser
    <2>4. RequestsFit'
        BY <2>0, <2>2, EndStep, FitStep
    <2>5. \A y \in Emails :
            /\ user'[y].acct = user[y].acct /\ user[y] # NoUser => user'[y] # NoUser
            /\ y # x => user'[y] = user[y]
        BY <2>1, <2>2 DEF AccountTypeOK, NoUser
    <2>6. JoinedAreThere' /\ InvitationUsedOnce'
        BY <2>2, <2>5 DEF JoinedAreThere, InvitationUsedOnce, AccountTypeOK, NoInvite
    <2>7. MemberRemains'
        <3> SUFFICES ASSUME ~ accountOverlap, NEW a \in AccountIds, Open(a)
                     PROVE  \E y \in Emails : Member(y, a)'
            BY <2>0, <2>2, EndStep DEF MemberRemains, Open, Member
        <3>1. PICK y \in Emails : Member(y, a)
            BY DEF MemberRemains, Member
        <3>2. CASE y # x
            BY <2>5, <3>1, <3>2 DEF Member
        <3>3. CASE y = x
            <4>1. user[x] # NoUser /\ user[x].acct = a
                BY <3>1, <3>3 DEF Member, NoUser
            <4>2. PICK z \in Emails \ {x} : Member(z, a)
                BY <2>0, <4>1 DEF RemovalSparesOne
            <4> QED
                BY <2>5, <4>2 DEF Member
        <3> QED
            BY <3>2, <3>3
    <2> QED
        BY <2>0, <2>3, <2>4, <2>6, <2>7, EndStep
<1> QED
    BY <1>1, <1>2, <1>3

LEMMA DeletionRequestEnds ==
    ASSUME AccountInv, NEW r \in Requests,
           FinishSchedule(r) \/ FinishCancel(r) \/ RequestFails(r)
    PROVE  AccountInv'
<1> USE DEF AccountInv
<1>1. PICK op \in Ops : EndAccount(r, op) /\ accountReq[r].op = op
    <2>1. FinishSchedule(r) => EndAccount(r, "schedule") /\ accountReq[r].op = "schedule"
        BY DEF FinishSchedule, EndAccount
    <2>2. FinishCancel(r) => EndAccount(r, "cancel") /\ accountReq[r].op = "cancel"
        BY DEF FinishCancel, EndAccount
    <2>3. RequestFails(r) => EndAccount(r, accountReq[r].op) /\ accountReq[r].op \in Ops
        BY DEF RequestFails, EndAccount, Ops
    <2> QED
        BY <2>1, <2>2, <2>3 DEF Ops
<1>2. /\ UNCHANGED <<user, invite, essential, joined>>
      /\ account' \in [AccountIds -> [st : {"unused", "open", "closed"},
                                      deletion : {"no", "waiting", "due"}]]
      /\ \A a \in AccountIds : account'[a].st = account[a].st
    BY <1>1, EndStep DEF FinishSchedule, FinishCancel, RequestFails, AccountTypeOK, Fits, EndAccount
<1>3. AccountTypeOK'
    BY <1>1, <1>2, EndStep DEF AccountTypeOK
<1>4. RequestsFit'
    BY <1>1, <1>2, EndStep, FitStep
<1>5. JoinedAreThere' /\ InvitationUsedOnce'
    BY <1>2 DEF JoinedAreThere, InvitationUsedOnce, AccountTypeOK, NoInvite
<1>6. MemberRemains'
    BY <1>1, <1>2, EndStep DEF MemberRemains, Open
<1> QED
    BY <1>1, <1>3, <1>4, <1>5, <1>6, EndStep

\* What needs no request: users change only between statuses that count, or
\* leave with their account.
LEMMA NoRequestStep ==
    ASSUME AccountInv, AccountTypeOK', UNCHANGED <<accountOverlap, accountReq, joined>>,
           \A i \in Invites : /\ invite'[i].email = invite[i].email /\ invite'[i].acct = invite[i].acct
                              /\ invite[i] # NoInvite => invite'[i] # NoInvite,
           \A a \in AccountIds : account'[a].st \in {account[a].st, "closed"},
           \A e \in Emails :
              \/ user'[e].acct = user[e].acct /\ (user[e].st \in {"active", "suspended"} =>
                                                  user'[e].st \in {"active", "suspended"})
                 /\ (user'[e] = NoUser <=> user[e] = NoUser)
              \/ user'[e] = NoUser /\ account'[user[e].acct].st = "closed"
                 /\ \A y \in Emails : user[y].acct = user[e].acct => user'[y] = NoUser
    PROVE  AccountInv'
<1> USE DEF AccountInv
<1>1. RequestsFit'
    BY FitStep
<1>2. OneAtATime'
    BY DEF OneAtATime
<1>3. JoinedAreThere' /\ InvitationUsedOnce'
    BY DEF JoinedAreThere, InvitationUsedOnce, AccountTypeOK, NoInvite
<1>4. RemovalSparesOne'
    <2> SUFFICES ASSUME ~ accountOverlap, NEW r \in Requests, accountReq[r].op = "remove",
                        user'[accountReq[r].on] # NoUser
                 PROVE  \E y \in Emails \ {accountReq[r].on} : Member(y, user[accountReq[r].on].acct)'
        BY DEF RemovalSparesOne
    <2> DEFINE x == accountReq[r].on
    <2>1. x \in Emails
        BY DEF RequestsFit, Fits
    <2>2. user[x] # NoUser /\ user'[x].acct = user[x].acct
        BY <2>1
    <2>3. PICK y \in Emails \ {x} : Member(y, user[x].acct)
        BY <2>2 DEF RemovalSparesOne
    <2> QED
        BY <2>1, <2>2, <2>3 DEF Member
<1>5. MemberRemains'
    <2> SUFFICES ASSUME ~ accountOverlap, NEW a \in AccountIds, account'[a].st = "open"
                 PROVE  \E y \in Emails : Member(y, a)'
        BY DEF MemberRemains, Open, Member
    <2>1. account[a].st = "open"
        OBVIOUS
    <2>2. PICK y \in Emails : Member(y, a)
        BY <2>1 DEF MemberRemains, Member, Open
    <2> QED
        BY <2>2 DEF Member
<1> QED
    BY <1>1, <1>2, <1>3, <1>4, <1>5

LEMMA OtherAccountSteps ==
    ASSUME AccountInv,
           \/ \E e \in Emails : Toggle(e) \/ ChangeConsents(e) \/ UseAssistant(e)
           \/ Job
           \/ \E i \in Invites : InviteExpires(i)
           \/ \E a \in AccountIds : DeletionDue(a)
    PROVE  AccountInv'
<1>0. AccountTypeOK
    BY DEF AccountInv
<1>1. ASSUME NEW e \in Emails, Toggle(e) PROVE AccountInv'
    <2>1. AccountTypeOK'
        BY <1>0, <1>1 DEF Toggle, AccountTypeOK, Exists, NoUser
    <2> QED
        BY <1>0, <1>1, <2>1, NoRequestStep DEF Toggle, AccountTypeOK, Exists, NoUser
<1>2. ASSUME NEW e \in Emails, ChangeConsents(e) \/ UseAssistant(e) PROVE AccountInv'
    <2>1. user[e].acct \in AccountIds
        BY <1>0, <1>2 DEF ChangeConsents, UseAssistant, SignedIn, AccountTypeOK, NoUser
    <2>2. AccountTypeOK'
        BY <1>0, <1>2, <2>1 DEF ChangeConsents, UseAssistant, AccountTypeOK
    <2> QED
        BY <1>2, <2>2, NoRequestStep DEF ChangeConsents, UseAssistant
<1>3. CASE CronStarts
    <2>1. AccountTypeOK'
        BY <1>0, <1>3 DEF CronStarts, AccountTypeOK
    <2> QED
        BY <1>3, <2>1, NoRequestStep DEF CronStarts
<1>4. ASSUME NEW a \in AccountIds, PurgeFails(a) PROVE AccountInv'
    <2>1. AccountTypeOK'
        BY <1>0, <1>4 DEF PurgeFails, AccountTypeOK
    <2> QED
        BY <1>4, <2>1, NoRequestStep DEF PurgeFails
<1>5. ASSUME NEW a \in AccountIds, Purge(a) PROVE AccountInv'
    <2>1. AccountTypeOK'
        BY <1>0, <1>5 DEF Purge, AccountTypeOK
    <2>2. \A b \in AccountIds : account'[b].st \in {account[b].st, "closed"}
        BY <1>0, <1>5 DEF Purge, AccountTypeOK
    <2>3. account'[a].st = "closed"
        BY <1>0, <1>5 DEF Purge, AccountTypeOK
    <2>4. \A e \in Emails : user'[e] = IF user[e].acct = a THEN NoUser ELSE user[e]
        BY <1>5 DEF Purge
    <2>5. UNCHANGED <<accountOverlap, accountReq, joined, invite>>
        BY <1>5 DEF Purge
    <2> QED
        BY <2>1, <2>2, <2>3, <2>4, <2>5, NoRequestStep
<1>6. ASSUME NEW i \in Invites, InviteExpires(i) PROVE AccountInv'
    <2> DEFINE R == [st : {"pending", "accepted", "revoked"}, acct : AccountIds, email : Emails, late : BOOLEAN]
    <2>1. invite[i] \in R
        BY <1>0, <1>6 DEF InviteExpires, AccountTypeOK, NoInvite
    <2>2. [invite[i] EXCEPT !.late = TRUE] \in R
        BY <2>1
    <2>3. AccountTypeOK'
        BY <1>0, <1>6, <2>2 DEF InviteExpires, AccountTypeOK
    <2>4. \A j \in Invites : /\ invite'[j].email = invite[j].email /\ invite'[j].acct = invite[j].acct
                             /\ invite[j] # NoInvite => invite'[j] # NoInvite
        BY <1>0, <1>6 DEF InviteExpires, AccountTypeOK, NoInvite
    <2> QED
        BY <1>6, <2>3, <2>4, NoRequestStep DEF InviteExpires
<1>7. ASSUME NEW a \in AccountIds, DeletionDue(a) PROVE AccountInv'
    <2>1. AccountTypeOK'
        BY <1>0, <1>7 DEF DeletionDue, AccountTypeOK
    <2>2. \A b \in AccountIds : account'[b].st = account[b].st
        BY <1>0, <1>7 DEF DeletionDue, AccountTypeOK
    <2> QED
        BY <1>7, <2>1, <2>2, NoRequestStep DEF DeletionDue
<1> QED
    BY <1>1, <1>2, <1>3, <1>4, <1>5, <1>6, <1>7 DEF Job

LEMMA AccountStep == AccountInv /\ [NextAccounts]_accountVars => AccountInv'
<1> SUFFICES ASSUME AccountInv, [NextAccounts]_accountVars PROVE AccountInv'
    OBVIOUS
<1>1. ASSUME NEW r \in Requests, StartAccount(r) \/ Cancelling(r) PROVE AccountInv'
    BY <1>1, AccountStarts
<1>2. ASSUME NEW r \in Requests, FinishAccount(r) PROVE AccountInv'
    BY <1>2, RegistrationEnds, TeamEnds, DeletionRequestEnds DEF FinishAccount
<1>3. CASE UNCHANGED accountVars
    <2>1. AccountTypeOK'
        BY <1>3 DEF accountVars, AccountInv, AccountTypeOK
    <2> QED
        BY <1>3, <2>1, NoRequestStep DEF accountVars
<1> QED
    BY <1>1, <1>2, <1>3, OtherAccountSteps DEF NextAccounts

LEMMA AccountInvariant == SpecAccounts => []AccountInv
<1> QED
    BY AccountInit, AccountStep, PTL DEF SpecAccounts

\* Removals of members leave every open account one, in whatever order they,
\* the suspensions and the purges come, as long as requests do not overlap.
THEOREM AccountsKeepAMember == SpecAccounts => []MemberRemains
<1>1. AccountInv => MemberRemains
    BY DEF AccountInv
<1> QED
    BY <1>1, AccountInvariant, PTL

\* However many registrations found an invitation pending, one joins by it,
\* as long as its account is not purged.
THEOREM InvitationsJoinOne == SpecAccounts => []InvitationUsedOnce
<1>1. AccountInv => InvitationUsedOnce
    BY DEF AccountInv
<1> QED
    BY <1>1, AccountInvariant, PTL

-----------------------------------------------------------------------------
(* Attestations *)

AttRows == [st : {"valid", "revoked", "deleted"}, of : Holders, year : 1..LastYear,
            num : Numbers, late : BOOLEAN, by : Revokers \cup {"nobody"}]
Issues == [op : {"issue"}, of : Holders, year : 1..LastYear, num : Numbers]
Revokes == [op : {"revoke"}, on : AttIds, by : Revokers]

\* The row that a request revokes is there for good, if only as deleted.
RevokesHaveRows ==
    \A r \in AttRequests : attReq[r].op = "revoke" => attestation[attReq[r].on] # NoAttestation

AttOneAtATime ==
    ~ attOverlap => \A r, q \in AttRequests :
        attReq[r] # NoAttRequest /\ attReq[q] # NoAttRequest => r = q

\* A request that revokes alone finds the row as it was when it started.
RevokesTheValid ==
    ~ attOverlap => \A r \in AttRequests :
        attReq[r].op = "revoke" => attestation[attReq[r].on].st = "valid"

Deleted(y) == \E x \in AttIds : attestation[x].st = "deleted" /\ attestation[x].year = y

\* Until one of its rows is deleted, a year counts its numbers ...
NumbersAreCounted ==
    ~ attOverlap => \A y \in 1..LastYear : ~ Deleted(y) =>
        \A x \in RowsOfYear(y) : attestation[x].num <= Cardinality(RowsOfYear(y))

\* ... and the request that is alone carries the next one.
NextIsCarried ==
    ~ attOverlap => \A r \in AttRequests :
        attReq[r].op = "issue" /\ ~ Deleted(attReq[r].year) =>
            attReq[r].num = Cardinality(RowsOfYear(attReq[r].year)) + 1

AttInv == AttTypeOK /\ RevokesHaveRows /\ AttOneAtATime /\ RevokesTheValid
          /\ NumbersAreCounted /\ NextIsCarried

LEMMA RowsAreFinite ==
    ASSUME NEW y
    PROVE  /\ IsFiniteSet(RowsOfYear(y)) /\ Cardinality(RowsOfYear(y)) \in Nat
           /\ Cardinality(RowsOfYear(y)) + 1 \in Numbers
<1>1. RowsOfYear(y) \in SUBSET AttIds
    BY DEF RowsOfYear
<1>2. IsFiniteSet(RowsOfYear(y)) /\ Cardinality(RowsOfYear(y)) <= Cardinality(AttIds)
    BY <1>1, AttIdsAssumption, FS_Subset
<1>3. Cardinality(RowsOfYear(y)) \in Nat /\ Cardinality(AttIds) \in Nat
    BY <1>2, AttIdsAssumption, FS_CardinalityType
<1> QED
    BY <1>2, <1>3 DEF Numbers

LEMMA AttInit == InitAttestations => AttInv
<1> SUFFICES ASSUME InitAttestations PROVE AttInv
    OBVIOUS
<1>1. AttTypeOK
    BY LastYearAssumption DEF InitAttestations, AttTypeOK
<1>2. RevokesHaveRows /\ AttOneAtATime /\ RevokesTheValid /\ NextIsCarried
    BY DEF InitAttestations, RevokesHaveRows, AttOneAtATime, RevokesTheValid, NextIsCarried, NoAttRequest
<1>3. NumbersAreCounted
    BY DEF InitAttestations, NumbersAreCounted, RowsOfYear, NoAttestation
<1> QED
    BY <1>1, <1>2, <1>3 DEF AttInv

\* Steps that leave the rows, or write no number and delete none.
LEMMA SameNumbers ==
    ASSUME AttInv, AttTypeOK',
           \A x \in AttIds : attestation[x] # NoAttestation =>
                /\ attestation'[x] # NoAttestation
                /\ attestation'[x].year = attestation[x].year /\ attestation'[x].num = attestation[x].num
                /\ attestation'[x].st = "deleted" <=> attestation[x].st = "deleted",
           \A x \in AttIds : attestation[x] = NoAttestation => attestation'[x] = NoAttestation,
           attOverlap' = attOverlap
    PROVE  /\ \A y : RowsOfYear(y)' = RowsOfYear(y) /\ (Deleted(y)' <=> Deleted(y))
           /\ NumbersAreCounted'
<1> USE DEF AttInv
<1>1. \A x \in AttIds : attestation[x] = NoAttestation \/ attestation[x] \in AttRows
    BY DEF AttTypeOK, AttRows
<1>2. \A x \in AttIds : attestation'[x] = NoAttestation \/ attestation'[x] \in AttRows
    BY DEF AttTypeOK, AttRows, NoAttestation, Numbers, Revokers
<1>3. ASSUME NEW y PROVE RowsOfYear(y)' = RowsOfYear(y) /\ (Deleted(y)' <=> Deleted(y))
    BY <1>1, <1>2 DEF RowsOfYear, Deleted, NoAttestation, AttRows
<1>4. NumbersAreCounted'
    BY <1>1, <1>3 DEF NumbersAreCounted, RowsOfYear, NoAttestation
<1> QED
    BY <1>3, <1>4

\* Whatever the rows become, the requests that go on, if any.
LEMMA AttRequestsStep ==
    ASSUME AttInv,
           attReq' = attReq \/ \E r \in AttRequests : attReq[r] # NoAttRequest
                                    /\ attReq' = [attReq EXCEPT ![r] = NoAttRequest],
           attOverlap' = attOverlap,
           \A x \in AttIds : attestation[x] # NoAttestation => attestation'[x] # NoAttestation
    PROVE  /\ RevokesHaveRows' /\ AttOneAtATime'
           /\ attReq' # attReq /\ ~ attOverlap => \A r \in AttRequests : attReq'[r] = NoAttRequest
           /\ attReq' # attReq => RevokesTheValid' /\ NextIsCarried'
<1> USE DEF AttInv
<1>1. \A r \in AttRequests : attReq'[r] \in {attReq[r], NoAttRequest}
    BY DEF AttTypeOK
<1>2. attReq' # attReq /\ ~ attOverlap => \A r \in AttRequests : attReq'[r] = NoAttRequest
    BY DEF AttOneAtATime, AttTypeOK
<1>3. RevokesHaveRows'
    <2> SUFFICES ASSUME NEW r \in AttRequests, attReq'[r].op = "revoke"
                 PROVE  attestation'[attReq'[r].on] # NoAttestation
        BY DEF RevokesHaveRows
    <2>1. attReq'[r] = attReq[r] /\ attReq[r] \in Revokes
        BY <1>1 DEF NoAttRequest, AttTypeOK, Revokes
    <2> QED
        BY <2>1 DEF RevokesHaveRows, Revokes
<1>4. AttOneAtATime'
    BY <1>1 DEF AttOneAtATime
<1>5. attReq' # attReq => RevokesTheValid' /\ NextIsCarried'
    BY <1>2 DEF RevokesTheValid, NextIsCarried, NoAttRequest
<1> QED
    BY <1>2, <1>3, <1>4, <1>5

LEMMA AttBegins ==
    ASSUME AttInv, NEW r \in AttRequests,
           \/ \E h \in Holders : StartIssue(r, h)
           \/ \E x \in AttIds, by \in Revokers : StartRevokeAtt(r, x, by)
    PROVE  AttInv'
<1> USE DEF AttInv
<1>1. PICK what \in Issues \cup Revokes :
        /\ BeginAtt(r, what)
        /\ what.op = "issue" => what.num = Cardinality(RowsOfYear(what.year)) + 1
        /\ what.op = "revoke" => attestation[what.on].st = "valid"
    <2>1. ASSUME NEW h \in Holders, StartIssue(r, h)
          PROVE  LET w == [op |-> "issue", of |-> h, year |-> year, num |-> NextNumber(h, year)]
                 IN  w \in Issues /\ BeginAtt(r, w) /\ w.num = Cardinality(RowsOfYear(w.year)) + 1
        BY <2>1, RowsAreFinite DEF StartIssue, Issues, NextNumber, AttTypeOK
    <2>2. ASSUME NEW x \in AttIds, NEW by \in Revokers, StartRevokeAtt(r, x, by)
          PROVE  LET w == [op |-> "revoke", on |-> x, by |-> by]
                 IN  w \in Revokes /\ BeginAtt(r, w) /\ attestation[w.on].st = "valid"
        BY <2>2 DEF StartRevokeAtt, Revokes
    <2> QED
        BY <2>1, <2>2 DEF Issues, Revokes
<1>2. /\ attReq' = [attReq EXCEPT ![r] = what]
      /\ ~ attOverlap => \A q \in AttRequests : attReq[q] = NoAttRequest
      /\ UNCHANGED <<attOverlap, year, ready, attestation, due, purged>>
    BY <1>1 DEF BeginAtt
<1>3. AttTypeOK'
    BY <1>1, <1>2 DEF AttTypeOK, Issues, Revokes, Numbers
<1>4. \A y : RowsOfYear(y)' = RowsOfYear(y) /\ Deleted(y)' = Deleted(y)
    BY <1>2 DEF RowsOfYear, Deleted
<1>5. RevokesHaveRows'
    BY <1>1, <1>2 DEF RevokesHaveRows, AttTypeOK, NoAttestation
<1>6. AttOneAtATime' /\ NumbersAreCounted'
    BY <1>2, <1>4 DEF AttOneAtATime, NumbersAreCounted, AttTypeOK
<1>7. RevokesTheValid'
    BY <1>1, <1>2 DEF RevokesTheValid, AttTypeOK, NoAttRequest
<1>8. NextIsCarried'
    BY <1>1, <1>2, <1>4 DEF NextIsCarried, AttTypeOK, NoAttRequest
<1> QED
    BY <1>3, <1>5, <1>6, <1>7, <1>8

\* The row that an insertion takes, which is one more of its year.
LEMMA IssueEnds ==
    ASSUME AttInv, NEW r \in AttRequests, FinishIssue(r)
    PROVE  /\ AttInv'
           /\ \A x \in AttIds : attestation[x] # NoAttestation => attestation'[x] = attestation[x]
<1> USE DEF AttInv
<1> DEFINE q == attReq[r]
           n == CHOOSE x \in UnusedIds : TRUE
           row == [st |-> "valid", of |-> q.of, year |-> q.year, num |-> q.num,
                   late |-> FALSE, by |-> "nobody"]
           S == RowsOfYear(q.year)
<1>1. n \in AttIds /\ attestation[n] = NoAttestation
    <2>1. UnusedIds # {}
        BY DEF FinishIssue
    <2> QED
        BY <2>1 DEF UnusedIds
<1>2. /\ attestation' = [attestation EXCEPT ![n] = row] /\ q.op = "issue"
      /\ attReq' = [attReq EXCEPT ![r] = NoAttRequest]
      /\ UNCHANGED <<attOverlap, year, ready, due, purged>>
    BY DEF FinishIssue, EndAtt
<1>3. q \in Issues /\ q # NoAttRequest
    BY <1>2 DEF AttTypeOK, Issues, NoAttRequest
<1>4. row \in AttRows
    BY <1>3 DEF Issues, AttRows
<1>5. AttTypeOK'
    <2>1. attestation \in [AttIds -> AttRows \cup {NoAttestation}]
        BY DEF AttTypeOK, AttRows
    <2>2. attestation' \in [AttIds -> AttRows \cup {NoAttestation}]
        BY <1>1, <1>2, <1>4, <2>1
    <2> QED
        BY <1>2, <2>2 DEF AttTypeOK, AttRows, Numbers, Revokers, NoAttestation, NoAttRequest
<1>6. \A x \in AttIds : attestation[x] # NoAttestation => attestation'[x] = attestation[x]
    BY <1>1, <1>2 DEF AttTypeOK
<1>7. attestation'[n] = row /\ attestation'[n] # NoAttestation
    BY <1>1, <1>2 DEF AttTypeOK, NoAttestation
<1>8. attReq' # attReq
    BY <1>2, <1>3 DEF AttTypeOK
<1>9. RevokesHaveRows' /\ AttOneAtATime' /\ RevokesTheValid' /\ NextIsCarried'
    BY <1>2, <1>3, <1>6, <1>7, <1>8, AttRequestsStep
<1>10. NumbersAreCounted'
    <2> SUFFICES ASSUME ~ attOverlap, NEW y \in 1..LastYear, ~ Deleted(y)', NEW x \in RowsOfYear(y)'
                 PROVE  attestation'[x].num <= Cardinality(RowsOfYear(y)')
        BY <1>2 DEF NumbersAreCounted
    <2>1. ~ Deleted(y)
        BY <1>6 DEF Deleted, NoAttestation, AttTypeOK
    <2>2. n \notin RowsOfYear(y)
        BY <1>1 DEF RowsOfYear, NoAttestation
    <2>3. RowsOfYear(y)' = IF y = q.year THEN RowsOfYear(y) \cup {n} ELSE RowsOfYear(y)
        <3>1. \A z \in AttIds : z \in RowsOfYear(y) => z \in RowsOfYear(y)'
            BY <1>6 DEF RowsOfYear, NoAttestation
        <3>2. \A z \in AttIds : z # n => attestation'[z] = attestation[z]
            BY <1>1, <1>2 DEF AttTypeOK
        <3>3. n \in RowsOfYear(y)' <=> y = q.year
            BY <1>1, <1>7 DEF RowsOfYear
        <3> QED
            BY <1>1, <2>2, <3>1, <3>2, <3>3 DEF RowsOfYear
    <2>4. Cardinality(RowsOfYear(y)') = IF y = q.year THEN Cardinality(RowsOfYear(y)) + 1
                                        ELSE Cardinality(RowsOfYear(y))
        BY <2>2, <2>3, RowsAreFinite, FS_AddElement
    <2>5. CASE x = n
        <3>1. y = q.year
            BY <1>1, <2>2, <2>3, <2>5
        <3>2. q.num = Cardinality(RowsOfYear(y)) + 1
            BY <1>2, <2>1, <3>1 DEF NextIsCarried
        <3>3. Cardinality(RowsOfYear(y)') = q.num /\ attestation'[x].num = q.num /\ q.num \in Int
            BY <1>3, <1>7, <2>4, <2>5, <3>1, <3>2 DEF Issues, Numbers
        <3> QED
            BY <3>3
    <2>6. CASE x # n
        <3>1. x \in RowsOfYear(y) /\ attestation'[x] = attestation[x]
            BY <1>6, <2>3, <2>6 DEF RowsOfYear, NoAttestation
        <3>2. attestation[x].num <= Cardinality(RowsOfYear(y)) /\ attestation[x].num \in Int
            BY <2>1, <3>1 DEF NumbersAreCounted, RowsOfYear, AttTypeOK, Numbers, NoAttestation
        <3> QED
            BY <2>4, <3>1, <3>2, RowsAreFinite
    <2> QED
        BY <2>5, <2>6
<1> QED
    BY <1>5, <1>6, <1>9, <1>10

\* The row that a revocation writes.
LEMMA RevocationEnds ==
    ASSUME AttInv, NEW r \in AttRequests, FinishRevokeAtt(r)
    PROVE  /\ AttInv'
           /\ \A x \in AttIds :
                \/ attestation'[x] = attestation[x]
                \/ /\ attestation[x].st \in {"valid", "revoked"} /\ attestation'[x].st = "revoked"
                   /\ attestation[x].st = "revoked" => attOverlap
<1> USE DEF AttInv
<1> DEFINE x == attReq[r].on
           row == [attestation[x] EXCEPT !.st = "revoked", !.by = attReq[r].by]
<1>1. /\ attestation' = IF attestation[x].st = "deleted" THEN attestation
                        ELSE [attestation EXCEPT ![x] = row]
      /\ attReq[r].op = "revoke" /\ attReq' = [attReq EXCEPT ![r] = NoAttRequest]
      /\ UNCHANGED <<attOverlap, year, ready, due, purged>>
    BY DEF FinishRevokeAtt, EndAtt
<1>2. attReq[r] \in Revokes /\ attReq[r] # NoAttRequest
    BY <1>1 DEF AttTypeOK, Revokes, NoAttRequest
<1>3. x \in AttIds /\ attestation[x] \in AttRows
    BY <1>1, <1>2 DEF Revokes, RevokesHaveRows, AttTypeOK, AttRows
<1>4. row \in AttRows /\ row.st = "revoked" /\ row.num = attestation[x].num /\ row.year = attestation[x].year
    BY <1>2, <1>3 DEF AttRows, Revokes
<1>5. AttTypeOK'
    <2>1. attestation \in [AttIds -> AttRows \cup {NoAttestation}]
        BY DEF AttTypeOK, AttRows
    <2>2. attestation' \in [AttIds -> AttRows \cup {NoAttestation}]
        BY <1>1, <1>3, <1>4, <2>1
    <2> QED
        BY <1>1, <2>2 DEF AttTypeOK, AttRows, Numbers, Revokers, NoAttestation, NoAttRequest
<1>6. \A z \in AttIds : attestation'[z] = IF z = x /\ attestation[x].st # "deleted" THEN row ELSE attestation[z]
    BY <1>1 DEF AttTypeOK
<1>7. \A z \in AttIds : attestation[z] # NoAttestation =>
        /\ attestation'[z] # NoAttestation
        /\ attestation'[z].year = attestation[z].year /\ attestation'[z].num = attestation[z].num
        /\ attestation'[z].st = "deleted" <=> attestation[z].st = "deleted"
    <2> HIDE DEF row
    <2>1. row # NoAttestation
        BY <1>4 DEF NoAttestation
    <2> QED
        BY <1>4, <1>6, <2>1
<1>8. \A z \in AttIds : attestation[z] = NoAttestation => attestation'[z] = NoAttestation
    BY <1>3, <1>6 DEF NoAttestation, AttRows
<1>9. UNCHANGED attOverlap
    BY <1>1
<1>10. NumbersAreCounted'
    BY <1>1, <1>5, <1>7, <1>8, SameNumbers
<1>11. RevokesHaveRows' /\ AttOneAtATime' /\ RevokesTheValid' /\ NextIsCarried'
    <2>1. attReq' # attReq
        BY <1>1, <1>2 DEF AttTypeOK
    <2> QED
        BY <1>1, <1>2, <1>7, <2>1, AttRequestsStep
<1>12. attestation[x].st = "revoked" => attOverlap
    BY <1>1 DEF RevokesTheValid
<1> QED
    BY <1>3, <1>4, <1>5, <1>6, <1>10, <1>11, <1>12 DEF AttRows

\* A purge deletes no valid row.
LEMMA PurgeKeepsValid ==
    ASSUME AttInv, NEW h \in Holders, PurgeHolder(h)
    PROVE  /\ AttInv'
           /\ \A x \in AttIds : attestation'[x] = attestation[x] \/ attestation'[x].st = "deleted"
<1> USE DEF AttInv
<1>1. /\ \A x \in AttIds : attestation'[x] =
            IF attestation[x].st # "unused" /\ attestation[x].of = h
            THEN [attestation[x] EXCEPT !.st = "deleted"] ELSE attestation[x]
      /\ DOMAIN attestation' = AttIds /\ attestation' = [x \in AttIds |-> attestation'[x]]
      /\ UNCHANGED <<attOverlap, year, attReq>>
      /\ due' \subseteq Holders /\ purged' \subseteq Holders /\ ready' \subseteq Holders
    BY DEF PurgeHolder, AttTypeOK
<1>2. \A x \in AttIds : attestation[x].st # "unused" => attestation[x] \in AttRows
    BY DEF AttTypeOK, AttRows, NoAttestation
<1>3. ASSUME NEW row \in AttRows
      PROVE  LET new == [row EXCEPT !.st = "deleted"] IN
             new \in AttRows /\ new.st = "deleted" /\ new.year = row.year /\ new.num = row.num
    BY DEF AttRows
<1>4. \A x \in AttIds :
        \/ attestation'[x] = attestation[x]
        \/ /\ attestation[x] \in AttRows /\ attestation'[x] \in AttRows
           /\ attestation[x].st # "valid"
           /\ attestation'[x].st = "deleted" /\ attestation'[x].year = attestation[x].year
    BY <1>1, <1>2, <1>3 DEF PurgeHolder, StillValid
<1>5. AttTypeOK'
    <2>1. attestation \in [AttIds -> AttRows \cup {NoAttestation}]
        BY DEF AttTypeOK, AttRows
    <2>2. attestation' \in [AttIds -> AttRows \cup {NoAttestation}]
        BY <1>1, <1>4, <2>1
    <2> QED
        BY <1>1, <2>2 DEF AttTypeOK, AttRows, Numbers, Revokers, NoAttestation, NoAttRequest
<1>6. RevokesHaveRows' /\ AttOneAtATime'
    BY <1>1, <1>4, AttRequestsStep DEF NoAttestation
<1>7. RevokesTheValid'
    BY <1>1, <1>4 DEF RevokesTheValid, AttTypeOK, NoAttRequest
<1>8. \A y : ~ Deleted(y)' => RowsOfYear(y)' = RowsOfYear(y) /\ ~ Deleted(y)
               /\ \A x \in RowsOfYear(y) : attestation'[x] = attestation[x]
    BY <1>4 DEF Deleted, RowsOfYear
<1>9. NumbersAreCounted'
    BY <1>1, <1>8 DEF NumbersAreCounted
<1>10. NextIsCarried'
    BY <1>1, <1>8 DEF NextIsCarried
<1> QED
    BY <1>4, <1>5, <1>6, <1>7, <1>9, <1>10

LEMMA RunningOut ==
    ASSUME AttInv, NEW x \in AttIds, RunsOut(x)
    PROVE  /\ AttInv'
           /\ \A z \in AttIds :
                \/ attestation'[z] = attestation[z]
                \/ /\ attestation'[z].st = attestation[z].st /\ attestation'[z].by = attestation[z].by
                   /\ Verified(attestation'[z]) \in Worse(Verified(attestation[z]))
<1> USE DEF AttInv
<1> DEFINE row == [attestation[x] EXCEPT !.late = TRUE]
<1>1. attestation' = [attestation EXCEPT ![x] = row] /\ attestation[x].st \in {"valid", "revoked"}
      /\ UNCHANGED <<attOverlap, year, ready, attReq, due, purged>>
    BY DEF RunsOut
<1>2. attestation[x] \in AttRows
    BY <1>1 DEF AttTypeOK, AttRows, NoAttestation, RunsOut
<1>3. /\ row \in AttRows /\ row.st = attestation[x].st /\ row.by = attestation[x].by
      /\ row.num = attestation[x].num /\ row.year = attestation[x].year
      /\ Verified(row) \in Worse(Verified(attestation[x]))
      /\ row # NoAttestation
    <2>1. row \in AttRows
        <3>1. ASSUME NEW a \in AttRows PROVE [a EXCEPT !.late = TRUE] \in AttRows
            BY DEF AttRows
        <3> QED
            BY <1>2, <3>1
    <2>2. /\ row.st = attestation[x].st /\ row.by = attestation[x].by
          /\ row.num = attestation[x].num /\ row.year = attestation[x].year
        BY <1>2 DEF AttRows
    <2>3. row # NoAttestation
        BY <1>1, <2>2 DEF NoAttestation
    <2>4. Verified(row) = IF attestation[x].st = "revoked" THEN "revoked" ELSE "expired"
        BY <1>1, <1>2 DEF AttRows, Verified
    <2>5. Verified(row) \in Worse(Verified(attestation[x]))
        BY <1>1, <2>4 DEF Verified, Worse
    <2> QED
        BY <2>1, <2>2, <2>3, <2>5
<1> HIDE DEF row
<1>4. AttTypeOK'
    <2>1. attestation \in [AttIds -> AttRows \cup {NoAttestation}]
        BY DEF AttTypeOK, AttRows
    <2>2. attestation' \in [AttIds -> AttRows \cup {NoAttestation}]
        BY <1>1, <1>3, <2>1
    <2> QED
        BY <1>1, <2>2 DEF AttTypeOK, AttRows, Numbers, Revokers, NoAttestation, NoAttRequest
<1>5. \A z \in AttIds : attestation'[z] = IF z = x THEN row ELSE attestation[z]
    BY <1>1 DEF AttTypeOK
<1>6. \A z \in AttIds :
        \/ attestation'[z] = attestation[z]
        \/ /\ attestation'[z].st = attestation[z].st /\ attestation'[z].by = attestation[z].by
           /\ Verified(attestation'[z]) \in Worse(Verified(attestation[z]))
    BY <1>3, <1>5
<1>7. \A z \in AttIds : attestation[z] # NoAttestation =>
        /\ attestation'[z] # NoAttestation
        /\ attestation'[z].year = attestation[z].year /\ attestation'[z].num = attestation[z].num
        /\ attestation'[z].st = "deleted" <=> attestation[z].st = "deleted"
    BY <1>3, <1>5
<1>8. \A z \in AttIds : attestation[z] = NoAttestation => attestation'[z] = NoAttestation
    BY <1>1, <1>5 DEF NoAttestation
<1>9. /\ \A y : RowsOfYear(y)' = RowsOfYear(y) /\ (Deleted(y)' <=> Deleted(y))
      /\ NumbersAreCounted'
    <2>1. UNCHANGED attOverlap
        BY <1>1
    <2> QED
        BY <1>4, <1>7, <1>8, <2>1, SameNumbers
<1>10. RevokesHaveRows' /\ AttOneAtATime'
    BY <1>1, <1>7, AttRequestsStep
<1>11. RevokesTheValid' /\ NextIsCarried'
    BY <1>1, <1>6, <1>9 DEF RevokesTheValid, NextIsCarried, AttTypeOK, NoAttRequest
<1> QED
    BY <1>4, <1>6, <1>9, <1>10, <1>11

LEMMA OtherAttSteps ==
    ASSUME AttInv,
           \/ \E r \in AttRequests : IssueFails(r)
           \/ NewYear
           \/ \E h \in Holders : GetsReady(h) \/ BecomesDue(h)
           \/ UNCHANGED attVars
    PROVE  AttInv' /\ UNCHANGED attestation
<1> USE DEF AttInv
<1>1. UNCHANGED <<attestation, attOverlap>>
    BY DEF IssueFails, EndAtt, NewYear, GetsReady, BecomesDue, attVars
<1>2. \/ attReq' = attReq
      \/ \E r \in AttRequests : attReq[r] # NoAttRequest /\ attReq' = [attReq EXCEPT ![r] = NoAttRequest]
    BY DEF IssueFails, EndAtt, NewYear, GetsReady, BecomesDue, attVars, NoAttRequest
<1>3. AttTypeOK'
    BY <1>1, <1>2, LastYearAssumption
    DEF AttTypeOK, IssueFails, EndAtt, NewYear, GetsReady, BecomesDue, attVars
<1>4. \A y : RowsOfYear(y)' = RowsOfYear(y) /\ (Deleted(y)' <=> Deleted(y))
    BY <1>1 DEF RowsOfYear, Deleted
<1>5. NumbersAreCounted'
    BY <1>1, <1>4 DEF NumbersAreCounted
<1>6. RevokesHaveRows' /\ AttOneAtATime' /\ (attReq' # attReq => RevokesTheValid' /\ NextIsCarried')
    BY <1>1, <1>2, AttRequestsStep
<1>7. attReq' = attReq => RevokesTheValid' /\ NextIsCarried'
    BY <1>1, <1>4 DEF RevokesTheValid, NextIsCarried
<1> QED
    BY <1>1, <1>3, <1>5, <1>6, <1>7

Worsens(x) ==
    attestation[x] # NoAttestation =>
        /\ Verified(attestation'[x]) \in Worse(Verified(attestation[x]))
        /\ (~ attOverlap /\ attestation[x].st = "revoked") => attestation'[x].by = attestation[x].by

LEMMA VerifiedIsWorse ==
    ASSUME NEW a, NEW b,
           \/ b = a
           \/ b.st = "deleted"
           \/ b.st = "revoked" /\ a.st \in {"valid", "revoked"}
    PROVE  Verified(b) \in Worse(Verified(a))
<1>1. Verified(a) \in {"authentic", "expired", "revoked", "invalid"}
    BY DEF Verified
<1>2. "invalid" \in Worse(Verified(a)) /\ Verified(a) \in Worse(Verified(a))
    BY <1>1 DEF Worse
<1>3. a.st \in {"valid", "revoked"} => "revoked" \in Worse(Verified(a))
    BY DEF Verified, Worse
<1>4. /\ b.st = "deleted" => Verified(b) = "invalid"
      /\ b.st = "revoked" => Verified(b) = "revoked"
    BY DEF Verified
<1> QED
    BY <1>2, <1>3, <1>4

LEMMA AttStep ==
    AttInv /\ [NextAttestations]_attVars => AttInv' /\ \A x \in AttIds : Worsens(x)
<1> SUFFICES ASSUME AttInv, [NextAttestations]_attVars
             PROVE  AttInv' /\ \A x \in AttIds : Worsens(x)
    OBVIOUS
<1>0. attOverlap \in BOOLEAN
    BY DEF AttInv, AttTypeOK
<1>1. ASSUME NEW r \in AttRequests,
             \/ \E h \in Holders : StartIssue(r, h)
             \/ \E x \in AttIds, by \in Revokers : StartRevokeAtt(r, x, by)
      PROVE  AttInv' /\ \A x \in AttIds : Worsens(x)
    <2>1. UNCHANGED attestation
        BY <1>1 DEF StartIssue, StartRevokeAtt, BeginAtt
    <2> QED
        BY <1>1, <2>1, AttBegins, VerifiedIsWorse DEF Worsens
<1>2. ASSUME NEW r \in AttRequests, FinishIssue(r)
      PROVE  AttInv' /\ \A x \in AttIds : Worsens(x)
    BY <1>2, IssueEnds, VerifiedIsWorse DEF Worsens
<1>3. ASSUME NEW r \in AttRequests, FinishRevokeAtt(r)
      PROVE  AttInv' /\ \A x \in AttIds : Worsens(x)
    BY <1>3, RevocationEnds, VerifiedIsWorse DEF Worsens
<1>4. ASSUME NEW x \in AttIds, RunsOut(x)
      PROVE  AttInv' /\ \A z \in AttIds : Worsens(z)
    BY <1>4, RunningOut, VerifiedIsWorse DEF Worsens
<1>5. ASSUME NEW h \in Holders, PurgeHolder(h)
      PROVE  AttInv' /\ \A z \in AttIds : Worsens(z)
    <2>1. ASSUME NEW x \in AttIds, attestation[x] # NoAttestation, attestation[x].st = "revoked"
          PROVE  attestation'[x].by = attestation[x].by
        BY <1>5, <2>1 DEF PurgeHolder, AttInv, AttTypeOK
    <2> QED
        BY <1>5, <2>1, PurgeKeepsValid, VerifiedIsWorse DEF Worsens
<1>6. ASSUME \/ \E r \in AttRequests : IssueFails(r)
             \/ NewYear
             \/ \E h \in Holders : GetsReady(h) \/ BecomesDue(h)
             \/ UNCHANGED attVars
      PROVE  AttInv' /\ \A x \in AttIds : Worsens(x)
    BY <1>6, OtherAttSteps, VerifiedIsWorse DEF Worsens
<1> QED
    BY <1>1, <1>2, <1>3, <1>4, <1>5, <1>6 DEF NextAttestations

LEMMA AttInvariant == SpecAttestations => []AttInv
<1> QED
    BY AttInit, AttStep, PTL DEF SpecAttestations

\* What a fund reads of an attestation only gets worse, and keeps the one who
\* revoked it when requests do not overlap.
THEOREM AttestationsOnlyWorsen == SpecAttestations => StatusOnlyWorsens
<1> DEFINE OnlyWorsens ==
        \A x \in AttIds : attestation[x] # NoAttestation =>
            /\ Verified(attestation'[x]) \in Worse(Verified(attestation[x]))
            /\ (~ attOverlap /\ attestation[x].st = "revoked") =>
                  attestation'[x].by = attestation[x].by
<1>1. AttInv /\ [NextAttestations]_attVars => [OnlyWorsens]_attVars
    BY AttStep DEF Worsens
<1> QED
    BY <1>1, AttInvariant, PTL DEF SpecAttestations, StatusOnlyWorsens

\* Only the deletion of another attestation of the year makes the number of an
\* attestation collide, when requests do not overlap.
THEOREM NumbersCollideAfterAPurge == SpecAttestations => []NumberFreeUntilPurge
<1>1. AttInv => NumberFreeUntilPurge
    <2> SUFFICES ASSUME AttInv, NEW r \in AttRequests, ~ attOverlap, attReq[r].op = "issue",
                        attReq[r].of \notin purged, ~ Deleted(attReq[r].year)
                 PROVE  Insertable(attReq[r])
        BY DEF NumberFreeUntilPurge, Deleted
    <2> DEFINE y == attReq[r].year
    <2>1. attReq[r] \in Issues /\ attReq[r].num = Cardinality(RowsOfYear(y)) + 1
        BY DEF AttInv, AttTypeOK, Issues, NoAttRequest, NextIsCarried
    <2>2. ASSUME NEW x \in RowsOfYear(y) PROVE attestation[x].num # attReq[r].num
        <3>1. y \in 1..LastYear
            BY <2>1 DEF Issues
        <3>2. attestation[x].num <= Cardinality(RowsOfYear(y)) /\ attestation[x].num \in Int
            BY <3>1 DEF AttInv, AttTypeOK, NumbersAreCounted, RowsOfYear, Numbers, NoAttestation
        <3> QED
            BY <2>1, <3>2, RowsAreFinite
    <2> QED
        BY <2>2 DEF Insertable
<1> QED
    BY <1>1, AttInvariant, PTL

-----------------------------------------------------------------------------
(* Refresh tokens *)

Issued(j) == tok[j].st # "unused"

\* Every copy of the tokens that is somewhere: in a tab, in localStorage, or in
\* a reply.
Copies == {cred[b] : b \in Tabs} \cup {stored} \cup {call[b].reply : b \in Tabs}

Asking(b) == call[b].at \in {"sent", "rotating"}

\* Nobody knows a token that was not issued.
KnownAreIssued ==
    /\ \A c \in Copies : c # NoCred => Issued(c.jti)
    /\ \A b \in Tabs : Asking(b) => call[b].old \in Jtis /\ Issued(call[b].old)
    /\ \A b \in Tabs : \A j \in leave[b].set : Issued(j)
    /\ \A j \in Jtis : tok[j].next # NoToken => Issued(tok[j].next)

\* A token was revoked by a rotation, which left it a successor, or by a logout.
RevokedForACause ==
    \A j \in Jtis : tok[j].st = "revoked" /\ tok[j].next = NoToken => root[j] \in ended

\* A token descends from a login.
TokensHaveRoots == \A j \in Jtis : Issued(j) => root[j] \in Jtis

\* The login of a token has an active one until a logout.
LoginsAreAlive ==
    \A j \in Jtis : Issued(j) /\ root[j] \notin ended => \E k \in ActiveJtis : root[k] = root[j]

\* A successor is revoked after the token it replaced: the grace window of the
\* one outlives that of the other.
SuccessorIsYounger(o) ==
    tok[o].st = "revoked" /\ tok[o].next # NoToken /\ tok[tok[o].next].st = "revoked"
    => tok[tok[o].next].age <= tok[o].age

SessionInv ==
    /\ SessionTypeOK /\ KnownAreIssued /\ TokensHaveRoots /\ RevokedForACause /\ LoginsAreAlive
    /\ \A o \in Jtis : SuccessorIsYounger(o)

LEMMA SessionInit == InitSessions => SessionInv
<1> SUFFICES ASSUME InitSessions PROVE SessionInv
    OBVIOUS
<1>1. SessionTypeOK
    BY TimeAssumption DEF InitSessions, SessionTypeOK, Tokens, LateAge, NoCred, NoCall, NoLeave, Calls, Leaves
<1>2. KnownAreIssued
    BY DEF InitSessions, KnownAreIssued, Copies, Asking, NoCall, NoLeave
<1>3. TokensHaveRoots /\ RevokedForACause /\ LoginsAreAlive /\ \A o \in Jtis : SuccessorIsYounger(o)
    BY DEF InitSessions, TokensHaveRoots, RevokedForACause, LoginsAreAlive, SuccessorIsYounger, Issued
<1> QED
    BY <1>1, <1>2, <1>3 DEF SessionInv

\* A step of the tabs, or a look at a token, which writes no token.
LEMMA TabStep ==
    ASSUME SessionInv, SessionTypeOK', UNCHANGED <<tok, root, ended>>,
           \A c \in Copies' : c \in Copies \/ c = NoCred
                              \/ \E o \in Jtis : tok[o].next # NoToken /\ c = NewCred(tok[o].next),
           \A b \in Tabs : Asking(b)' =>
                \/ Asking(b) /\ call'[b].old = call[b].old
                \/ HoldsTokens(b) /\ call'[b].old = cred[b].jti,
           \A b \in Tabs : \A j \in leave'[b].set : Issued(j)
    PROVE  SessionInv'
<1> USE DEF SessionInv
<1>2. KnownAreIssued'
    <2>1. \A c \in Copies' : c # NoCred => Issued(c.jti)
        BY DEF KnownAreIssued, NewCred
    <2>2. ASSUME NEW b \in Tabs, Asking(b)' PROVE call'[b].old \in Jtis /\ Issued(call'[b].old)
        BY <2>2 DEF KnownAreIssued, HoldsTokens, SessionTypeOK, Creds, NoCred, Copies
    <2> QED
        BY <2>1, <2>2 DEF KnownAreIssued, Issued
<1>3. TokensHaveRoots' /\ RevokedForACause' /\ LoginsAreAlive'
    BY DEF TokensHaveRoots, RevokedForACause, LoginsAreAlive, Issued, ActiveJtis
<1>4. \A o \in Jtis : SuccessorIsYounger(o)'
    BY DEF SuccessorIsYounger
<1> QED
    BY <1>2, <1>3, <1>4

LEMMA CopyTypes ==
    ASSUME SessionInv
    PROVE  /\ \A c \in Copies : c \in Creds \cup {NoCred}
           /\ \A b \in Tabs : cred[b] \in Copies /\ stored \in Copies /\ call[b].reply \in Copies
           /\ NoCred \notin Creds
<1> QED
    BY NoTokenAssumption DEF Copies, SessionInv, SessionTypeOK, Calls, Creds, NoCred

LEMMA TabSteps ==
    ASSUME SessionInv, NEW b \in Tabs,
           \/ LoadFromStorage(b) \/ SendRefresh(b) \/ LookUp(b) \/ ReceiveRefresh(b)
           \/ RefreshFails(b) \/ RetryRefused(b)
           \/ AskLogout(b) \/ StartRevoking(b) \/ FinishLogout(b)
    PROVE  SessionInv'
<1> USE DEF SessionInv
<1>0. /\ cred \in [Tabs -> Creds \cup {NoCred}] /\ stored \in Creds \cup {NoCred}
      /\ call \in [Tabs -> Calls] /\ leave \in [Tabs -> Leaves]
      /\ \A x \in Tabs : \A j \in leave[x].set : Issued(j)
      /\ NoCall \in Calls /\ NoLeave \in Leaves
    BY DEF SessionTypeOK, KnownAreIssued, NoCall, NoLeave, Calls, Leaves
<1>1. CASE LoadFromStorage(b)
    <2>1. /\ cred' = [cred EXCEPT ![b] = stored] /\ call' = [call EXCEPT ![b] = NoCall]
          /\ leave' = [leave EXCEPT ![b] = NoLeave] /\ UNCHANGED <<tok, stored, root, ended>>
        BY <1>1 DEF LoadFromStorage
    <2>2. SessionTypeOK'
        BY <1>0, <2>1 DEF SessionTypeOK
    <2>3. \A c \in Copies' : c \in Copies \/ c = NoCred
        BY <1>0, <2>1 DEF Copies, NoCall
    <2>4. \A x \in Tabs : Asking(x)' => Asking(x) /\ call'[x].old = call[x].old
        BY <1>0, <2>1 DEF Asking, NoCall
    <2>5. \A x \in Tabs : \A j \in leave'[x].set : Issued(j)
        BY <1>0, <2>1 DEF NoLeave
    <2> QED
        BY <2>1, <2>2, <2>3, <2>4, <2>5, TabStep
<1>2. CASE SendRefresh(b)
    <2> DEFINE new == [at |-> "sent", old |-> cred[b].jti, reply |-> NoCred]
    <2>1. /\ call' = [call EXCEPT ![b] = new] /\ HoldsTokens(b)
          /\ UNCHANGED <<tok, cred, stored, leave, root, ended>>
        BY <1>2 DEF SendRefresh
    <2>2. new \in Calls
        BY <1>0 DEF Calls, Creds, NoCred
    <2>3. SessionTypeOK'
        BY <1>0, <2>1, <2>2 DEF SessionTypeOK
    <2>4. \A c \in Copies' : c \in Copies \/ c = NoCred
        BY <1>0, <2>1 DEF Copies
    <2>5. \A x \in Tabs : x # b => Asking(x)' = Asking(x) /\ call'[x].old = call[x].old
        BY <1>0, <2>1 DEF Asking
    <2>6. call'[b].old = cred[b].jti
        BY <1>0, <2>1
    <2> QED
        BY <1>0, <2>1, <2>3, <2>4, <2>5, <2>6, TabStep
<1>3. CASE LookUp(b)
    <2> DEFINE t == tok[call[b].old]
    <2>1. Asking(b) /\ call[b].old \in Jtis /\ Issued(call[b].old) /\ t \in Tokens
        BY <1>3 DEF LookUp, Asking, KnownAreIssued, SessionTypeOK
    <2>2. UNCHANGED <<tok, cred, stored, leave, root, ended>>
        BY <1>3 DEF LookUp
    <2>3. CASE call' = [call EXCEPT ![b].at = "rotating"]
        <3>1. call' \in [Tabs -> Calls]
            BY <1>0, <2>3 DEF Calls
        <3>2. SessionTypeOK'
            BY <2>2, <3>1 DEF SessionTypeOK
        <3>3. \A x \in Tabs : call'[x].old = call[x].old /\ call'[x].reply = call[x].reply
                              /\ (x # b => call'[x] = call[x])
            BY <1>0, <2>3 DEF Calls
        <3>4. \A c \in Copies' : c \in Copies
            BY <2>2, <3>3 DEF Copies
        <3> QED
            BY <1>0, <2>1, <2>2, <3>2, <3>3, <3>4, TabStep DEF Asking
    <2>4. InGrace(t) => NewCred(t.next) \in Creds
        BY <2>1, TimeAssumption DEF InGrace, Tokens, NewCred, Creds
    <2>5. ASSUME NEW c \in Creds \cup {NoCred}, call' \in [Tabs -> Calls],
                 call'[b].at = "replied", call'[b].reply = c,
                 \A x \in Tabs : x # b => call'[x] = call[x],
                 c = NoCred \/ \E o \in Jtis : tok[o].next # NoToken /\ c = NewCred(tok[o].next)
          PROVE  SessionInv'
        <3>1. SessionTypeOK'
            BY <2>2, <2>5 DEF SessionTypeOK
        <3>2. \A d \in Copies' : d \in Copies \/ d = c
            BY <2>2, <2>5 DEF Copies
        <3> QED
            BY <1>0, <2>2, <2>5, <3>1, <3>2, TabStep DEF Asking
    <2>6. CASE Reply(b, NoCred)
        <3>1. call' \in [Tabs -> Calls] /\ call'[b].at = "replied" /\ call'[b].reply = NoCred
              /\ \A x \in Tabs : x # b => call'[x] = call[x]
            BY <1>0, <2>6 DEF Reply, Calls
        <3> QED
            BY <2>5, <3>1
    <2>7. CASE InGrace(t) /\ Reply(b, NewCred(t.next))
        <3>1. call' \in [Tabs -> Calls] /\ call'[b].at = "replied" /\ call'[b].reply = NewCred(t.next)
              /\ \A x \in Tabs : x # b => call'[x] = call[x]
            BY <1>0, <2>4, <2>7 DEF Reply, Calls
        <3>2. t.next # NoToken
            BY <2>7 DEF InGrace
        <3> QED
            BY <2>1, <2>4, <2>5, <2>7, <3>1, <3>2
    <2> QED
        BY <1>3, <2>3, <2>6, <2>7 DEF LookUp
<1>4. CASE ReceiveRefresh(b) \/ RefreshFails(b)
    <2>1. PICK c \in Copies \cup {NoCred} :
            /\ cred' = [cred EXCEPT ![b] = c] /\ stored' = c /\ call' = [call EXCEPT ![b] = NoCall]
            /\ UNCHANGED <<tok, leave, root, ended>>
        BY <1>4, CopyTypes DEF ReceiveRefresh, RefreshFails, ClearAuth, SetTokens
    <2>2. c \in Creds \cup {NoCred}
        BY CopyTypes
    <2>3. SessionTypeOK'
        BY <1>0, <2>1, <2>2 DEF SessionTypeOK
    <2>4. \A d \in Copies' : d \in Copies \/ d = NoCred
        BY <1>0, <2>1 DEF Copies, NoCall
    <2>5. \A x \in Tabs : Asking(x)' => Asking(x) /\ call'[x].old = call[x].old
        BY <1>0, <2>1 DEF Asking, NoCall
    <2> QED
        BY <1>0, <2>1, <2>3, <2>4, <2>5, TabStep
<1>5. CASE AskLogout(b)
    <2>1. leave' = [leave EXCEPT ![b].at = "asked"] /\ UNCHANGED <<tok, cred, stored, call, root, ended>>
        BY <1>5 DEF AskLogout
    <2>2. leave' \in [Tabs -> Leaves] /\ \A x \in Tabs : leave'[x].set = leave[x].set
        BY <1>0, <2>1 DEF Leaves
    <2>3. SessionTypeOK'
        BY <2>1, <2>2 DEF SessionTypeOK
    <2>4. Copies' = Copies /\ \A x \in Tabs : Asking(x)' = Asking(x)
        BY <2>1 DEF Copies, Asking
    <2> QED
        BY <1>0, <2>1, <2>2, <2>3, <2>4, TabStep
<1>6. CASE StartRevoking(b)
    <2>1. /\ leave' = [leave EXCEPT ![b] = [at |-> "revoking", set |-> ActiveJtis]]
          /\ UNCHANGED <<tok, cred, stored, call, root, ended>>
        BY <1>6 DEF StartRevoking
    <2>2. leave' \in [Tabs -> Leaves] /\ \A x \in Tabs : \A j \in leave'[x].set : Issued(j)
        BY <1>0, <2>1 DEF Leaves, ActiveJtis, Issued
    <2>3. SessionTypeOK'
        BY <2>1, <2>2 DEF SessionTypeOK
    <2>4. Copies' = Copies /\ \A x \in Tabs : Asking(x)' = Asking(x)
        BY <2>1 DEF Copies, Asking
    <2> QED
        BY <2>1, <2>2, <2>3, <2>4, TabStep
<1>7. CASE FinishLogout(b)
    <2>1. /\ cred' = [cred EXCEPT ![b] = NoCred] /\ stored' = NoCred
          /\ leave' = [leave EXCEPT ![b] = NoLeave]
          /\ UNCHANGED <<tok, call, root, ended>>
        BY <1>7 DEF FinishLogout, ClearAuth, SetTokens
    <2>2. SessionTypeOK'
        BY <1>0, <2>1 DEF SessionTypeOK
    <2>3. \A d \in Copies' : d \in Copies \/ d = NoCred
        BY <1>0, <2>1 DEF Copies
    <2>4. \A x \in Tabs : \A j \in leave'[x].set : Issued(j)
        BY <1>0, <2>1 DEF NoLeave
    <2>5. \A x \in Tabs : Asking(x)' = Asking(x)
        BY <2>1 DEF Asking
    <2> QED
        BY <2>1, <2>2, <2>3, <2>4, <2>5, TabStep
<1>8. CASE RetryRefused(b)
    <2>1. /\ cred' = [cred EXCEPT ![b] = NoCred] /\ stored' = NoCred
          /\ UNCHANGED <<tok, call, leave, root, ended>>
        BY <1>8 DEF RetryRefused, ClearAuth, SetTokens
    <2>2. SessionTypeOK'
        BY <1>0, <2>1 DEF SessionTypeOK
    <2>3. \A d \in Copies' : d \in Copies \/ d = NoCred
        BY <1>0, <2>1 DEF Copies
    <2>4. \A x \in Tabs : Asking(x)' = Asking(x)
        BY <2>1 DEF Asking
    <2> QED
        BY <1>0, <2>1, <2>2, <2>3, <2>4, TabStep
<1> QED
    BY <1>1, <1>2, <1>3, <1>4, <1>5, <1>6, <1>7, <1>8

\* uuid4 gives a token that nobody knows.
LEMMA NewJtiIsNew ==
    ASSUME SessionInv, UnusedJtis # {}
    PROVE  /\ NewJti \in Jtis /\ ~ Issued(NewJti)
           /\ \A c \in Copies : c.jti # NewJti
           /\ \A o \in Jtis : tok[o].next # NewJti
           /\ NewCred(NewJti) \in Creds /\ Fresh \in Tokens
<1>1. NewJti \in Jtis /\ ~ Issued(NewJti)
    BY DEF NewJti, UnusedJtis, Issued
<1>2. \A c \in Copies : c.jti # NewJti
    BY <1>1, NoTokenAssumption DEF SessionInv, KnownAreIssued, NoCred
<1>3. \A o \in Jtis : tok[o].next # NewJti
    BY <1>1, NoTokenAssumption DEF SessionInv, KnownAreIssued
<1>4. NewCred(NewJti) \in Creds /\ Fresh \in Tokens
    BY <1>1, TimeAssumption DEF NewCred, Creds, Fresh, Tokens, LateAge
<1> QED
    BY <1>1, <1>2, <1>3, <1>4

LEMMA LoginStep == ASSUME SessionInv, NEW b \in Tabs, Login(b) PROVE SessionInv'
<1> USE DEF SessionInv
<1> DEFINE j == NewJti
<1>1. /\ tok' = [tok EXCEPT ![j] = Fresh] /\ root' = [root EXCEPT ![j] = j]
      /\ cred' = [cred EXCEPT ![b] = NewCred(j)] /\ stored' = NewCred(j)
      /\ UNCHANGED <<call, leave, ended>>
    BY DEF Login, SetTokens
<1>2. /\ j \in Jtis /\ ~ Issued(j) /\ \A c \in Copies : c.jti # j
      /\ \A o \in Jtis : tok[o].next # j
      /\ NewCred(j) \in Creds /\ Fresh \in Tokens
    BY NewJtiIsNew DEF Login
<1> HIDE DEF j
<1>3. SessionTypeOK'
    BY <1>1, <1>2 DEF SessionTypeOK
<1>4. /\ \A k \in Jtis : k # j => tok'[k] = tok[k] /\ root'[k] = root[k]
      /\ tok'[j] = Fresh /\ root'[j] = j
    BY <1>1, <1>2 DEF SessionTypeOK
<1>5. \A k \in Jtis : (Issued(k)' <=> Issued(k) \/ k = j) /\ (k \in ActiveJtis' <=> k \in ActiveJtis \/ k = j)
    BY <1>4 DEF Issued, ActiveJtis, Fresh
<1>6. \A c \in Copies' : c \in Copies \/ c = NewCred(j)
    BY <1>1 DEF Copies, SessionTypeOK
<1>7. KnownAreIssued'
    <2>1. \A c \in Copies' : c # NoCred => Issued(c.jti)'
        BY <1>2, <1>5, <1>6, CopyTypes DEF KnownAreIssued, NewCred, Creds
    <2>2. \A x \in Tabs : Asking(x)' => call'[x].old \in Jtis /\ Issued(call[x].old)'
        BY <1>1, <1>5 DEF KnownAreIssued, Asking
    <2>3. \A x \in Tabs : \A k \in leave'[x].set : Issued(k)'
        BY <1>1, <1>5 DEF KnownAreIssued, SessionTypeOK, Leaves
    <2>4. \A k \in Jtis : tok'[k].next # NoToken => Issued(tok[k].next)'
        BY <1>4, <1>5 DEF KnownAreIssued, SessionTypeOK, Tokens, Fresh
    <2> QED
        BY <2>1, <2>2, <2>3, <2>4 DEF KnownAreIssued
<1>8. TokensHaveRoots' /\ RevokedForACause'
    BY <1>1, <1>2, <1>4, <1>5 DEF TokensHaveRoots, RevokedForACause, Fresh
<1>9. LoginsAreAlive'
    <2> SUFFICES ASSUME NEW k \in Jtis, Issued(k)', root'[k] \notin ended
                 PROVE  \E l \in ActiveJtis' : root'[l] = root'[k]
        BY <1>1 DEF LoginsAreAlive
    <2>1. CASE k = j
        BY <1>2, <1>5, <2>1
    <2>2. CASE k # j
        <3>1. PICK l \in ActiveJtis : root[l] = root[k]
            BY <1>4, <1>5, <2>2 DEF LoginsAreAlive
        <3>2. l \in Jtis /\ l # j
            BY <1>2, <3>1 DEF ActiveJtis, Issued
        <3> QED
            BY <1>4, <1>5, <2>2, <3>1, <3>2
    <2> QED
        BY <2>1, <2>2
<1>10. ASSUME NEW o \in Jtis PROVE SuccessorIsYounger(o)'
    <2> SUFFICES ASSUME tok'[o].st = "revoked", tok'[o].next # NoToken
                 PROVE  tok'[o] = tok[o] /\ tok'[tok[o].next] = tok[tok[o].next]
        BY DEF SuccessorIsYounger
    <2>1. tok'[o] = tok[o] /\ tok[o].next # j /\ tok[o].next \in Jtis
        BY <1>2, <1>4 DEF Fresh, SessionTypeOK, Tokens
    <2> QED
        BY <1>4, <2>1
<1> QED
    BY <1>3, <1>7, <1>8, <1>9, <1>10

LEMMA RotateStep == ASSUME SessionInv, NEW b \in Tabs, Rotate(b) PROVE SessionInv'
<1> USE DEF SessionInv
<1> DEFINE j == NewJti
           old == call[b].old
<1>1. /\ tok' = [tok EXCEPT ![j] = Fresh, ![old] = Revoked(j)]
      /\ root' = [root EXCEPT ![j] = root[old]]
      /\ call' = [call EXCEPT ![b].at = "replied", ![b].reply = NewCred(j)]
      /\ UNCHANGED <<cred, stored, leave, ended>>
    BY DEF Rotate, Reply
<1>2. /\ j \in Jtis /\ ~ Issued(j) /\ \A c \in Copies : c.jti # j
      /\ \A o \in Jtis : tok[o].next # j
      /\ NewCred(j) \in Creds /\ Fresh \in Tokens
    BY NewJtiIsNew DEF Rotate
<1>3. Asking(b) /\ old \in Jtis /\ Issued(old) /\ old # j
    BY <1>2 DEF Rotate, Asking, KnownAreIssued
<1> HIDE DEF j
<1>4. Revoked(j) \in Tokens /\ Revoked(j).next = j /\ Revoked(j).age = 0 /\ j # NoToken
    BY <1>2, TimeAssumption, NoTokenAssumption DEF Revoked, Tokens, LateAge
<1>5. /\ \A k \in Jtis : k \notin {j, old} => tok'[k] = tok[k]
      /\ \A k \in Jtis : k # j => root'[k] = root[k]
      /\ tok'[j] = Fresh /\ tok'[old] = Revoked(j) /\ root'[j] = root[old]
    BY <1>1, <1>2, <1>3 DEF SessionTypeOK
<1>6. /\ call' \in [Tabs -> Calls] /\ call'[b].at = "replied" /\ call'[b].reply = NewCred(j)
      /\ \A x \in Tabs : x # b => call'[x] = call[x]
    BY <1>1, <1>2 DEF SessionTypeOK, Calls
<1>7. SessionTypeOK'
    <2>1. tok' \in [Jtis -> Tokens]
        BY <1>1, <1>2, <1>3, <1>4 DEF SessionTypeOK
    <2>2. root' \in [Jtis -> Jtis \cup {NoToken}]
        BY <1>1, <1>3 DEF SessionTypeOK
    <2> QED
        BY <1>1, <1>6, <2>1, <2>2 DEF SessionTypeOK
<1>8. \A k \in Jtis : /\ Issued(k)' <=> Issued(k) \/ k = j
                      /\ k \in ActiveJtis' <=> (k = j \/ (k \in ActiveJtis /\ k # old))
    BY <1>3, <1>5 DEF Issued, ActiveJtis, Fresh, Revoked
<1>9. \A c \in Copies' : c \in Copies \/ c = NewCred(j)
    BY <1>1, <1>6 DEF Copies
<1>10. \A x \in Tabs : Asking(x)' => Asking(x) /\ call'[x].old = call[x].old
    BY <1>6 DEF Asking
<1>11. KnownAreIssued'
    <2>1. \A c \in Copies' : c # NoCred => Issued(c.jti)'
        BY <1>2, <1>8, <1>9, CopyTypes DEF KnownAreIssued, NewCred, Creds
    <2>2. \A x \in Tabs : Asking(x)' => call'[x].old \in Jtis /\ Issued(call[x].old)'
        BY <1>8, <1>10 DEF KnownAreIssued
    <2>3. \A x \in Tabs : \A k \in leave'[x].set : Issued(k)'
        BY <1>1, <1>8 DEF KnownAreIssued, SessionTypeOK, Leaves
    <2>4. \A k \in Jtis : tok'[k].next # NoToken => Issued(tok[k].next)'
        BY <1>2, <1>4, <1>5, <1>8 DEF KnownAreIssued, SessionTypeOK, Tokens, Fresh
    <2> QED
        BY <2>1, <2>2, <2>3, <2>4 DEF KnownAreIssued
<1>12. TokensHaveRoots' /\ RevokedForACause'
    <2>1. \A k \in Jtis : Issued(k)' => root'[k] \in Jtis
        BY <1>3, <1>5, <1>8 DEF TokensHaveRoots
    <2>2. \A k \in Jtis : tok'[k].st = "revoked" /\ tok'[k].next = NoToken => root'[k] \in ended'
        BY <1>1, <1>3, <1>4, <1>5 DEF RevokedForACause, Fresh
    <2> QED
        BY <2>1, <2>2 DEF TokensHaveRoots, RevokedForACause
<1>13. LoginsAreAlive'
    <2> SUFFICES ASSUME NEW k \in Jtis, Issued(k)', root'[k] \notin ended
                 PROVE  \E l \in ActiveJtis' : root'[l] = root'[k]
        BY <1>1 DEF LoginsAreAlive
    <2>1. CASE root'[k] = root[old]
        <3>1. j \in ActiveJtis'
            BY <1>2, <1>8
        <3>2. root'[j] = root'[k]
            BY <1>5, <2>1
        <3> QED
            BY <3>1, <3>2
    <2>2. CASE root'[k] # root[old]
        <3>1. PICK l \in ActiveJtis : root[l] = root[k]
            BY <1>5, <1>8, <2>2 DEF LoginsAreAlive
        <3>2. l \in Jtis /\ l # j /\ l # old
            BY <1>2, <1>3, <1>5, <2>2, <3>1 DEF ActiveJtis, Issued
        <3> QED
            BY <1>5, <1>8, <2>2, <3>1, <3>2
    <2> QED
        BY <2>1, <2>2
<1>14. ASSUME NEW o \in Jtis PROVE SuccessorIsYounger(o)'
    <2> SUFFICES ASSUME tok'[o].st = "revoked", tok'[o].next # NoToken,
                        tok'[tok'[o].next].st = "revoked"
                 PROVE  tok'[tok'[o].next].age <= tok'[o].age
        BY DEF SuccessorIsYounger
    <2>1. o # old /\ o # j
        BY <1>4, <1>5 DEF Fresh
    <2>2. tok'[o] = tok[o] /\ tok[o].next # j /\ tok[o].next \in Jtis /\ tok[o].age \in Nat
        BY <1>2, <1>5, <2>1, TimeAssumption DEF SessionTypeOK, Tokens, LateAge
    <2>3. CASE tok[o].next = old
        BY <1>4, <1>5, <2>2, <2>3
    <2>4. CASE tok[o].next # old
        BY <1>5, <2>2, <2>4 DEF SuccessorIsYounger
    <2> QED
        BY <2>3, <2>4
<1> QED
    BY <1>7, <1>11, <1>12, <1>13, <1>14

LEMMA RevokeAllStep == ASSUME SessionInv, NEW b \in Tabs, RevokeAll(b) PROVE SessionInv'
<1> USE DEF SessionInv
<1> DEFINE S == leave[b].set \cap ActiveJtis
<1>1. /\ tok' = [j \in Jtis |-> IF j \in S THEN Revoked(NoToken) ELSE tok[j]]
      /\ ended' = ended \cup {root[j] : j \in leave[b].set}
      /\ leave' = [leave EXCEPT ![b] = [at |-> "revoked", set |-> {}]]
      /\ UNCHANGED <<cred, stored, call, root>>
    BY DEF RevokeAll
<1>2. Revoked(NoToken) \in Tokens
    BY TimeAssumption DEF Revoked, Tokens, LateAge
<1>3. \A j \in leave[b].set : j \in Jtis /\ root[j] \in Jtis /\ root[j] \in ended'
    BY <1>1 DEF SessionTypeOK, Leaves, KnownAreIssued, TokensHaveRoots
<1>4. SessionTypeOK'
    <2>1. tok' \in [Jtis -> Tokens]
        BY <1>1, <1>2 DEF SessionTypeOK
    <2>2. leave' \in [Tabs -> Leaves]
        BY <1>1 DEF SessionTypeOK, Leaves
    <2> QED
        BY <1>1, <1>3, <2>1, <2>2 DEF SessionTypeOK
<1>5. \A j \in Jtis : /\ Issued(j)' <=> Issued(j)
                      /\ j \in ActiveJtis' <=> j \in ActiveJtis \ S
                      /\ j \notin S => tok'[j] = tok[j]
                      /\ j \in S => tok'[j].st = "revoked" /\ tok'[j].next = NoToken
    BY <1>1 DEF Issued, ActiveJtis, Revoked
<1>6. Copies' = Copies /\ \A x \in Tabs : Asking(x)' = Asking(x)
    BY <1>1 DEF Copies, Asking
<1>7. KnownAreIssued'
    <2>1. \A c \in Copies' : c # NoCred => Issued(c.jti)'
        BY <1>5, <1>6, CopyTypes DEF KnownAreIssued, Creds
    <2>2. \A x \in Tabs : Asking(x)' => call'[x].old \in Jtis /\ Issued(call[x].old)'
        BY <1>1, <1>5, <1>6 DEF KnownAreIssued
    <2>3. \A x \in Tabs : \A k \in leave'[x].set : Issued(k)'
        BY <1>1, <1>5 DEF KnownAreIssued, SessionTypeOK, Leaves
    <2>4. \A k \in Jtis : tok'[k].next # NoToken => Issued(tok[k].next)'
        BY <1>5 DEF KnownAreIssued, SessionTypeOK, Tokens
    <2> QED
        BY <2>1, <2>2, <2>3, <2>4 DEF KnownAreIssued
<1>8. TokensHaveRoots' /\ RevokedForACause'
    BY <1>1, <1>3, <1>5 DEF TokensHaveRoots, RevokedForACause
<1>9. LoginsAreAlive'
    <2> SUFFICES ASSUME NEW k \in Jtis, Issued(k)', root[k] \notin ended'
                 PROVE  \E l \in ActiveJtis' : root[l] = root[k]
        BY <1>1 DEF LoginsAreAlive
    <2>1. PICK l \in ActiveJtis : root[l] = root[k]
        BY <1>1, <1>5 DEF LoginsAreAlive
    <2>2. l \in Jtis /\ l \notin S
        BY <1>3, <2>1 DEF ActiveJtis
    <2> QED
        BY <1>5, <2>1, <2>2
<1>10. ASSUME NEW o \in Jtis PROVE SuccessorIsYounger(o)'
    <2> SUFFICES ASSUME tok'[o].st = "revoked", tok'[o].next # NoToken,
                        tok'[tok'[o].next].st = "revoked"
                 PROVE  tok'[tok'[o].next].age <= tok'[o].age
        BY DEF SuccessorIsYounger
    <2>1. tok'[o] = tok[o] /\ tok[o].next \in Jtis /\ tok[o].age \in Nat
        BY <1>5, TimeAssumption DEF SessionTypeOK, Tokens, LateAge
    <2>2. CASE tok[o].next \in S
        BY <1>1, <2>1, <2>2 DEF Revoked
    <2>3. CASE tok[o].next \notin S
        BY <1>5, <2>1, <2>3 DEF SuccessorIsYounger
    <2> QED
        BY <2>2, <2>3
<1> QED
    BY <1>4, <1>7, <1>8, <1>9, <1>10

\* A tick makes all revocations older by the same.
LEMMA TickStep == ASSUME SessionInv, Tick PROVE SessionInv'
<1> USE DEF SessionInv
<1>1. /\ tok' = [j \in Jtis |-> IF tok[j].st = "revoked" /\ tok[j].age < LateAge
                                THEN [tok[j] EXCEPT !.age = @ + 1] ELSE tok[j]]
      /\ cred' = [b \in Tabs |-> Older(cred[b])] /\ stored' = Older(stored)
      /\ call' = [b \in Tabs |-> [call[b] EXCEPT !.reply = Older(@)]]
      /\ UNCHANGED <<leave, root, ended>>
    BY DEF Tick
<1>2. \A c \in Creds \cup {NoCred} :
        /\ Older(c) \in Creds \cup {NoCred} /\ Older(c).jti = c.jti
        /\ Older(c) = NoCred <=> c = NoCred
    <2>1. ASSUME NEW c \in Creds PROVE Older(c) \in Creds /\ Older(c).jti = c.jti
        BY TimeAssumption DEF Older, Creds
    <2>2. Older(NoCred) = NoCred
        BY DEF Older, NoCred
    <2> QED
        BY <2>1, <2>2, CopyTypes DEF NoCred
<1>3. \A j \in Jtis : tok'[j] \in Tokens /\ tok'[j].st = tok[j].st /\ tok'[j].next = tok[j].next
    <2> SUFFICES ASSUME NEW j \in Jtis
                 PROVE  tok'[j] \in Tokens /\ tok'[j].st = tok[j].st /\ tok'[j].next = tok[j].next
        OBVIOUS
    <2>1. tok[j] \in Tokens
        BY DEF SessionTypeOK
    <2>2. tok'[j] = IF tok[j].st = "revoked" /\ tok[j].age < LateAge
                    THEN [tok[j] EXCEPT !.age = @ + 1] ELSE tok[j]
        BY <1>1
    <2> QED
        BY <2>1, <2>2, TimeAssumption DEF Tokens, LateAge
<1>4. /\ call' \in [Tabs -> Calls]
      /\ \A b \in Tabs : /\ call'[b].at = call[b].at /\ call'[b].old = call[b].old
                         /\ call'[b].reply = Older(call[b].reply)
    BY <1>1, <1>2 DEF SessionTypeOK, Calls
<1>5. SessionTypeOK'
    BY <1>1, <1>2, <1>3, <1>4 DEF SessionTypeOK
<1>6. ASSUME NEW c \in Copies' PROVE \E d \in Copies : c = Older(d)
    BY <1>1, <1>4 DEF Copies
<1>7. \A x \in Tabs : Asking(x)' = Asking(x)
    BY <1>4 DEF Asking
<1>8. \A j \in Jtis : Issued(j)' = Issued(j)
    BY <1>3 DEF Issued
<1>9. KnownAreIssued'
    <2>1. \A c \in Copies' : c # NoCred => Issued(c.jti)'
        BY <1>2, <1>6, <1>8, CopyTypes DEF KnownAreIssued, Creds
    <2>2. \A x \in Tabs : Asking(x)' => call'[x].old \in Jtis /\ Issued(call[x].old)'
        BY <1>4, <1>7, <1>8 DEF KnownAreIssued
    <2>3. \A x \in Tabs : \A k \in leave'[x].set : Issued(k)'
        BY <1>1, <1>8 DEF KnownAreIssued, SessionTypeOK, Leaves
    <2>4. \A k \in Jtis : tok'[k].next # NoToken => Issued(tok[k].next)'
        BY <1>3, <1>8 DEF KnownAreIssued, SessionTypeOK, Tokens
    <2> QED
        BY <2>1, <2>2, <2>3, <2>4 DEF KnownAreIssued
<1>10. TokensHaveRoots' /\ RevokedForACause' /\ LoginsAreAlive'
    BY <1>1, <1>3, <1>8 DEF TokensHaveRoots, RevokedForACause, LoginsAreAlive, ActiveJtis
<1>11. ASSUME NEW o \in Jtis PROVE SuccessorIsYounger(o)'
    <2> SUFFICES ASSUME tok'[o].st = "revoked", tok'[o].next # NoToken,
                        tok'[tok'[o].next].st = "revoked"
                 PROVE  tok'[tok'[o].next].age <= tok'[o].age
        BY DEF SuccessorIsYounger
    <2> DEFINE k == tok[o].next
    <2>1. tok'[o].next = k /\ tok[o].st = "revoked" /\ k \in Jtis /\ tok[k].st = "revoked"
        BY <1>3 DEF SessionTypeOK, Tokens
    <2>2. tok[k].age <= tok[o].age
        BY <1>3, <2>1 DEF SuccessorIsYounger
    <2>3. /\ tok'[k].age = IF tok[k].age < LateAge THEN tok[k].age + 1 ELSE tok[k].age
          /\ tok'[o].age = IF tok[o].age < LateAge THEN tok[o].age + 1 ELSE tok[o].age
        BY <1>1, <2>1 DEF SessionTypeOK, Tokens
    <2>4. tok[k].age \in Nat /\ tok[o].age \in Nat /\ tok[o].age <= LateAge /\ LateAge \in Nat
        BY <2>1, TimeAssumption DEF SessionTypeOK, Tokens, LateAge
    <2> HIDE DEF k
    <2> QED
        BY <2>1, <2>2, <2>3, <2>4
<1> QED
    BY <1>5, <1>9, <1>10, <1>11

LEMMA SessionStep == SessionInv /\ [NextSessions]_sessionVars => SessionInv'
<1> SUFFICES ASSUME SessionInv, [NextSessions]_sessionVars PROVE SessionInv'
    OBVIOUS
<1>1. CASE UNCHANGED sessionVars
    <2>1. /\ UNCHANGED <<tok, root, ended>> /\ SessionTypeOK' /\ Copies' = Copies
          /\ \A b \in Tabs : /\ Asking(b)' => Asking(b) /\ call'[b].old = call[b].old
                             /\ \A j \in leave'[b].set : Issued(j)
        BY <1>1 DEF sessionVars, SessionInv, SessionTypeOK, KnownAreIssued, Copies, Asking
    <2> QED
        BY <2>1, TabStep
<1> QED
    BY <1>1, TickStep, TabSteps, LoginStep, RotateStep, RevokeAllStep DEF NextSessions

LEMMA SessionInvariant == SpecSessions => []SessionInv
<1> QED
    BY SessionInit, SessionStep, PTL DEF SpecSessions

\* The session that a tab holds stays alive until a logout: rotating, losing a
\* reply, rotating a token twice and going on with another tab's token never
\* leave a login without an active token.
THEOREM SessionsAreAlive == SpecSessions => []HeldSessionsAlive
<1>1. SessionInv => HeldSessionsAlive
    <2> SUFFICES ASSUME SessionInv, NEW b \in Tabs, HoldsTokens(b), root[cred[b].jti] \notin ended
                 PROVE  \E j \in ActiveJtis : root[j] = root[cred[b].jti]
        BY DEF HeldSessionsAlive
    <2>1. cred[b].jti \in Jtis /\ Issued(cred[b].jti)
        BY CopyTypes DEF HoldsTokens, SessionInv, KnownAreIssued, NoCred, Creds
    <2> QED
        BY <2>1 DEF SessionInv, LoginsAreAlive
<1> QED
    BY <1>1, SessionInvariant, PTL

\* The step that answers a refresh, seen from the token it was asked with.
LEMMA AnswersAreLookUps ==
    ASSUME SessionInv, [NextSessions]_sessionVars, NEW b \in Tabs,
           call[b].at = "sent", call'[b].at = "replied"
    PROVE  /\ call[b].old \in Jtis /\ Issued(call[b].old) /\ tok[call[b].old] \in Tokens
           /\ LET t == tok[call[b].old] IN
              \/ InGrace(t) /\ call'[b].reply = NewCred(t.next)
              \/ t.st # "active" /\ ~ InGrace(t) /\ call'[b].reply = NoCred
           /\ UNCHANGED <<tok, root, ended>>
<1>1. call \in [Tabs -> Calls] /\ call[b].old \in Jtis /\ Issued(call[b].old)
      /\ tok[call[b].old] \in Tokens
    BY DEF SessionInv, SessionTypeOK, KnownAreIssued, Asking
<1>2. LookUp(b)
    <2>1. ~ Tick /\ ~ UNCHANGED sessionVars
        BY <1>1 DEF Tick, sessionVars, Calls
    <2>2. ASSUME NEW x \in Tabs,
                 \/ LoadFromStorage(x) \/ Login(x) \/ SendRefresh(x) \/ ReceiveRefresh(x)
                 \/ RefreshFails(x) \/ RetryRefused(x) \/ AskLogout(x) \/ StartRevoking(x) \/ RevokeAll(x) \/ FinishLogout(x)
          PROVE  FALSE
        BY <1>1, <2>2 DEF LoadFromStorage, Login, SendRefresh, ReceiveRefresh, RefreshFails, RetryRefused,
                          AskLogout, StartRevoking, RevokeAll, FinishLogout, NoCall, Calls
    <2>3. ASSUME NEW x \in Tabs, Rotate(x) PROVE FALSE
        BY <1>1, <2>3 DEF Rotate, Reply, Calls
    <2>4. ASSUME NEW x \in Tabs, LookUp(x), x # b PROVE FALSE
        BY <1>1, <2>4 DEF LookUp, Reply, Calls
    <2> QED
        BY <2>1, <2>2, <2>3, <2>4 DEF NextSessions
<1> QED
    BY <1>1, <1>2 DEF LookUp, Reply, Calls

\* A refresh is refused for a cause: its token was revoked before the grace
\* window began, or by a logout.
THEOREM RefusalsHaveCause == SpecSessions => RefusalHasCause
<1> DEFINE HasCause ==
        \A b \in Tabs :
            call[b].at = "sent" /\ call'[b].at = "replied" /\ call'[b].reply = NoCred
            => LET t == tok[call[b].old]
               IN  t.age > Grace \/ root[call[b].old] \in ended
<1>1. SessionInv /\ [NextSessions]_sessionVars => [HasCause]_sessionVars
    <2> SUFFICES ASSUME SessionInv, [NextSessions]_sessionVars, NEW b \in Tabs,
                        call[b].at = "sent", call'[b].at = "replied", call'[b].reply = NoCred,
                        ~ (tok[call[b].old].age > Grace)
                 PROVE  root[call[b].old] \in ended
        OBVIOUS
    <2> DEFINE o == call[b].old
    <2>1. o \in Jtis /\ Issued(o) /\ tok[o] \in Tokens
        BY AnswersAreLookUps
    <2>2. tok[o].st # "active" /\ ~ InGrace(tok[o])
        <3>1. InGrace(tok[o]) => NewCred(tok[o].next) # NoCred
            BY DEF InGrace, NewCred, NoCred
        <3> QED
            BY <3>1, AnswersAreLookUps
    <2>3. tok[o].st = "revoked" /\ tok[o].next = NoToken
        BY <2>1, <2>2, TimeAssumption DEF Issued, InGrace, Tokens, LateAge
    <2> QED
        BY <2>1, <2>3 DEF SessionInv, RevokedForACause
<1> QED
    BY <1>1, SessionInvariant, PTL DEF SpecSessions, RefusalHasCause

\* The grace window hands out a token that a refresh can be asked with: active,
\* or rotated within the window and followed by a successor; or the user logged
\* out.
THEOREM GraceHandsOutUsable == SpecSessions => GraceGivesUsable
<1> DEFINE Serves(t, j) ==
        \/ t.st = "active"
        \/ t.st = "revoked" /\ t.age <= Grace /\ t.next # NoToken
        \/ root[j] \in ended
    GivesServed ==
        \A b \in Tabs :
            call[b].at = "sent" /\ call'[b].at = "replied" /\ call'[b].reply # NoCred
            => Serves(tok[call'[b].reply.jti], call'[b].reply.jti)
<1>1. SessionInv /\ [NextSessions]_sessionVars => [GivesServed]_sessionVars
    <2> SUFFICES ASSUME SessionInv, [NextSessions]_sessionVars, NEW b \in Tabs,
                        call[b].at = "sent", call'[b].at = "replied", call'[b].reply # NoCred
                 PROVE  Serves(tok[call'[b].reply.jti], call'[b].reply.jti)
        OBVIOUS
    <2> DEFINE o == call[b].old
               given == tok[o].next
    <2>1. o \in Jtis /\ InGrace(tok[o]) /\ call'[b].reply = NewCred(given)
        BY AnswersAreLookUps
    <2>2. call'[b].reply.jti = given /\ given \in Jtis /\ Issued(given) /\ tok[given] \in Tokens
        BY <2>1 DEF NewCred, InGrace, SessionInv, SessionTypeOK, KnownAreIssued, Tokens
    <2>3. tok[given].st \in {"active", "revoked"}
        BY <2>2 DEF Issued, Tokens
    <2>4. CASE tok[given].st = "revoked"
        <3>1. tok[given].age <= tok[o].age /\ tok[o].age <= Grace
            BY <2>1, <2>4 DEF SessionInv, SuccessorIsYounger, InGrace
        <3>2. tok[given].age \in Nat /\ tok[o].age \in Nat
            BY <2>1, <2>2, TimeAssumption DEF SessionInv, SessionTypeOK, Tokens, LateAge
        <3>3. tok[given].age <= Grace
            BY <3>1, <3>2, TimeAssumption
        <3>4. tok[given].next # NoToken \/ root[given] \in ended
            BY <2>2, <2>4 DEF SessionInv, RevokedForACause
        <3> QED
            BY <2>2, <2>4, <3>3, <3>4
    <2> QED
        BY <2>2, <2>3, <2>4
<1> QED
    BY <1>1, SessionInvariant, PTL DEF SpecSessions, GraceGivesUsable


-----------------------------------------------------------------------------
(* The composition *)

\* A step of the composition is a step, or none, of every module of it.
LEMMA EveryPartSteps ==
    ASSUME [Next]_accessVars
    PROVE  /\ [NextAccounts]_accountVars /\ [NextSessions]_sessionVars
           /\ [NextAttestations]_attVars /\ [NextChatClient]_chatClientVars
<1>1. CASE UNCHANGED accessVars
    BY <1>1 DEF accessVars
<1>2. CASE Next
    BY <1>2 DEF Next, Moves
<1> QED
    BY <1>1, <1>2

\* Every behaviour of the composition is one of each module, so that all that is
\* proved of Accounts, RefreshSessions, Attestations and ChatClient holds in it.
THEOREM AccessImplementsItsParts ==
    Spec => SpecAccounts /\ SpecSessions /\ SpecAttestations /\ SpecChatClient
<1>1. Init => InitAccounts /\ InitSessions /\ InitAttestations /\ InitChatClient
    BY DEF Init
<1> QED
    BY <1>1, EveryPartSteps, PTL DEF Spec, SpecAccounts, SpecSessions, SpecAttestations, SpecChatClient

\* Every variable of the four modules stays in its type.
THEOREM AccessTyped == Spec => []AccessTypeOK
<1>1. AccountInv => AccountTypeOK
    BY DEF AccountInv
<1>2. SessionInv => SessionTypeOK
    BY DEF SessionInv
<1>3. AttInv => AttTypeOK
    BY DEF AttInv
<1> QED
    BY <1>1, <1>2, <1>3, AccessImplementsItsParts, AccountInvariant, SessionInvariant, AttInvariant,
       ChatClientTyped, PTL DEF AccessTypeOK

=============================================================================
