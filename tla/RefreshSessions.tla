-------------------------- MODULE RefreshSessions --------------------------
(***************************************************************************)
(* The refresh tokens of one user: their rotation with a grace window      *)
(* (backend/app/services/refresh_token_service.py, the /auth endpoints of  *)
(* backend/app/api/auth.py) and the tabs that hold them                    *)
(* (frontend/app/composables/useAuth.ts, frontend/app/stores/auth.ts).     *)
(*                                                                         *)
(* The tabs of a browser share localStorage but each keeps the tokens it   *)
(* loaded in memory; a tab has at most one refresh in flight.  The server  *)
(* handles requests concurrently: a rotation looks its token up in one     *)
(* step and writes what it decided in a later one, and the UPDATE of a     *)
(* logout reaches the tokens that were active when it started.             *)
(***************************************************************************)
EXTENDS Naturals, FiniteSets

CONSTANTS
    Tabs,    \* the browser tabs of the user
    Jtis,    \* token identifiers
    Grace,   \* length of the grace window, in ticks
    Life,    \* lifetime of an access token, in ticks
    NoToken     \* no token

ASSUME NoTokenAssumption == NoToken \notin Jtis
ASSUME TimeAssumption == Grace \in Nat /\ Life \in Nat

VARIABLES
    tok,     \* the refresh_tokens table
    cred,    \* the tokens a tab holds in memory
    stored,  \* the tokens in localStorage
    call,    \* the refresh request of each tab
    leave,   \* the logout request of each tab
    root,    \* history: the login a token descends from
    ended    \* history: the logins that were active when a logout that has
             \* committed began

sessionVars == <<tok, cred, stored, call, leave, root, ended>>

LateAge == Grace + 1    \* any age beyond the grace window

\* A row: revoked for `age` ticks, and replaced by `next` (replaced_by_jti).
Tokens == [st : {"unused", "active", "revoked"}, age : 0..LateAge,
           next : Jtis \cup {NoToken}]
\* A refresh token with the access token received with it, valid `life` ticks.
Creds == [jti : Jtis, life : 0..Life]
NoCred == [jti |-> NoToken, life |-> 0]
NewCred(j) == [jti |-> j, life |-> Life]

\* A refresh of the token `old`, and its reply (NoCred is the 401).
Calls == [at : {"idle", "sent", "rotating", "replied"}, old : Jtis \cup {NoToken},
          reply : Creds \cup {NoCred}]
NoCall == [at |-> "idle", old |-> NoToken, reply |-> NoCred]
Leaves == [at : {"no", "asked", "revoking", "revoked"}, set : SUBSET Jtis]
NoLeave == [at |-> "no", set |-> {}]

SessionTypeOK ==
    /\ tok \in [Jtis -> Tokens]
    /\ cred \in [Tabs -> Creds \cup {NoCred}]
    /\ stored \in Creds \cup {NoCred}
    /\ call \in [Tabs -> Calls]
    /\ leave \in [Tabs -> Leaves]
    /\ root \in [Jtis -> Jtis \cup {NoToken}]
    /\ ended \subseteq Jtis

InitSessions ==
    /\ tok = [j \in Jtis |-> [st |-> "unused", age |-> 0, next |-> NoToken]]
    /\ cred = [b \in Tabs |-> NoCred]
    /\ stored = NoCred
    /\ call = [b \in Tabs |-> NoCall]
    /\ leave = [b \in Tabs |-> NoLeave]
    /\ root = [j \in Jtis |-> NoToken]
    /\ ended = {}

-----------------------------------------------------------------------------
(* The store of a tab *)

HoldsTokens(b) == cred[b].jti # NoToken

SetTokens(b, c) == cred' = [cred EXCEPT ![b] = c] /\ stored' = c

ClearAuth(b) == SetTokens(b, NoCred)

\* A tab that is opened, reloaded, or navigates signed out takes the tokens of
\* localStorage; a reload loses the requests it had in flight, or their replies.
LoadFromStorage(b) ==
    /\ call[b].at # "rotating" /\ leave[b].at # "revoking"
    /\ cred' = [cred EXCEPT ![b] = stored]
    /\ call' = [call EXCEPT ![b] = NoCall]
    /\ leave' = [leave EXCEPT ![b] = NoLeave]
    /\ UNCHANGED <<tok, stored, root, ended>>

-----------------------------------------------------------------------------
(* Tokens on the server *)

UnusedJtis == {j \in Jtis : tok[j].st = "unused"}
\* uuid4: a row of its own for every token.
NewJti == CHOOSE j \in UnusedJtis : TRUE
ActiveJtis == {j \in Jtis : tok[j].st = "active"}
Fresh == [st |-> "active", age |-> 0, next |-> NoToken]
\* Mutation of Revoked: replaced_by_jti is forgotten.
RevokedUnlinked(next) == [st |-> "revoked", age |-> 0, next |-> NoToken]
Revoked(next) == [st |-> "revoked", age |-> 0, next |-> next]

Login(b) ==
    /\ ~HoldsTokens(b)
    /\ UnusedJtis # {}
    /\ LET j == NewJti IN
        /\ tok' = [tok EXCEPT ![j] = Fresh]
        /\ root' = [root EXCEPT ![j] = j]
        /\ SetTokens(b, NewCred(j))
    /\ UNCHANGED <<call, leave, ended>>

\* A request of the tab was answered 401: POST /auth/refresh, once for all the
\* requests that wait for it.  The access token need not have run out: the 401
\* may be a late one, of a request sent with the token before it, or refuse a
\* wrong password.
SendRefresh(b) ==
    /\ HoldsTokens(b)
    /\ call[b].at = "idle"
    /\ call' = [call EXCEPT ![b] = [at |-> "sent", old |-> cred[b].jti,
                                     reply |-> NoCred]]
    /\ UNCHANGED <<tok, cred, stored, leave, root, ended>>

\* Mutation of InGrace: the elapsed time is not compared with the window.
InGraceForever(t) == t.st = "revoked" /\ t.next # NoToken
InGrace(t) == t.st = "revoked" /\ t.age <= Grace /\ t.next # NoToken

Reply(b, c) == call' = [call EXCEPT ![b].at = "replied", ![b].reply = c]

\* rotate_refresh_token reads the row of the token it is given.
LookUp(b) ==
    /\ call[b].at = "sent"
    /\ LET t == tok[call[b].old] IN
        \/ t.st = "active" /\ call' = [call EXCEPT ![b].at = "rotating"]
        \/ InGrace(t) /\ Reply(b, NewCred(t.next))
        \/ t.st # "active" /\ ~InGrace(t) /\ Reply(b, NoCred)
    /\ UNCHANGED <<tok, cred, stored, leave, root, ended>>

\* Mutation of Rotate: revoke_all_refresh_tokens is called where only the old
\* token was to be revoked.
RotateRevokingAll(b) ==
    /\ call[b].at = "rotating"
    /\ UnusedJtis # {}
    /\ LET j == NewJti IN
        /\ tok' = [k \in Jtis |->
                    IF k = j \/ k \in ActiveJtis THEN Revoked(j) ELSE tok[k]]
        /\ root' = [root EXCEPT ![j] = root[call[b].old]]
        /\ Reply(b, NewCred(j))
    /\ UNCHANGED <<cred, stored, leave, ended>>

\* It found the token active: a successor is inserted and the token revoked,
\* whatever became of the row since.
Rotate(b) ==
    /\ call[b].at = "rotating"
    /\ UnusedJtis # {}
    /\ LET j == NewJti IN
        /\ tok' = [tok EXCEPT ![j] = Fresh, ![call[b].old] = Revoked(j)]
        /\ root' = [root EXCEPT ![j] = root[call[b].old]]
        /\ Reply(b, NewCred(j))
    /\ UNCHANGED <<cred, stored, leave, ended>>

\* The tab takes the tokens it is given, or gives up its session.
ReceiveRefresh(b) ==
    /\ call[b].at = "replied"
    /\ SetTokens(b, call[b].reply)
    /\ call' = [call EXCEPT ![b] = NoCall]
    /\ UNCHANGED <<tok, leave, root, ended>>

\* Any failure of the request (the network, a 500 after a rollback, a reply
\* that is lost) makes the tab give up its session.
RefreshFails(b) ==
    /\ call[b].at # "idle"
    /\ ClearAuth(b)
    /\ call' = [call EXCEPT ![b] = NoCall]
    /\ UNCHANGED <<tok, leave, root, ended>>

\* A request that is sent again after a refresh (some rotation was served) is
\* answered 401 once more: the tab gives up its session, whatever else it has in
\* flight and whatever it holds by then.
RetryRefused(b) ==
    /\ \E j \in Jtis : root[j] \notin {j, NoToken}
    /\ ClearAuth(b)
    /\ UNCHANGED <<tok, call, leave, root, ended>>

AskLogout(b) ==
    /\ HoldsTokens(b) /\ leave[b].at = "no"
    /\ leave' = [leave EXCEPT ![b].at = "asked"]
    /\ UNCHANGED <<tok, cred, stored, call, root, ended>>

\* The logout is accepted (with a dead access token it first waits for the
\* tab's refresh): the UPDATE sees the tokens that are active now ...
StartRevoking(b) ==
    /\ leave[b].at = "asked" /\ cred[b].life > 0
    /\ leave' = [leave EXCEPT ![b] = [at |-> "revoking", set |-> ActiveJtis]]
    /\ UNCHANGED <<tok, cred, stored, call, root, ended>>

\* ... and revokes those that still are when it reaches them.
RevokeAll(b) ==
    /\ leave[b].at = "revoking"
    /\ tok' = [j \in Jtis |->
                IF j \in leave[b].set \cap ActiveJtis THEN Revoked(NoToken) ELSE tok[j]]
    /\ ended' = ended \cup {root[j] : j \in leave[b].set}
    /\ leave' = [leave EXCEPT ![b] = [at |-> "revoked", set |-> {}]]
    /\ UNCHANGED <<cred, stored, call, root>>

\* The tab forgets its tokens, whether or not the server could be told.
FinishLogout(b) ==
    /\ leave[b].at \in {"asked", "revoked"}
    /\ ClearAuth(b)
    /\ leave' = [leave EXCEPT ![b] = NoLeave]
    /\ UNCHANGED <<tok, call, root, ended>>

\* Time passes: access tokens run out, revocations grow old.  Bound of the
\* model: the transaction of a rotation or of a logout takes no tick.
OlderUnchecked(c) == [c EXCEPT !.life = @ - 1]    \* mutation of Older
Older(c) == IF c.life = 0 THEN c ELSE [c EXCEPT !.life = @ - 1]
InTransaction(b) == call[b].at = "rotating" \/ leave[b].at = "revoking"

Tick ==
    /\ \A b \in Tabs : ~InTransaction(b)
    /\ tok' = [j \in Jtis |->
                IF tok[j].st = "revoked" /\ tok[j].age < LateAge
                THEN [tok[j] EXCEPT !.age = @ + 1] ELSE tok[j]]
    /\ cred' = [b \in Tabs |-> Older(cred[b])]
    /\ stored' = Older(stored)
    /\ call' = [b \in Tabs |-> [call[b] EXCEPT !.reply = Older(@)]]
    /\ UNCHANGED <<leave, root, ended>>

NextSessions ==
    \/ Tick
    \/ \E b \in Tabs :
        \/ LoadFromStorage(b) \/ Login(b)
        \/ SendRefresh(b) \/ LookUp(b) \/ Rotate(b)
        \/ ReceiveRefresh(b) \/ RefreshFails(b) \/ RetryRefused(b)
        \/ AskLogout(b) \/ StartRevoking(b) \/ RevokeAll(b) \/ FinishLogout(b)

SpecSessions == InitSessions /\ [][NextSessions]_sessionVars

-----------------------------------------------------------------------------
(* Properties *)

\* The session a tab holds is alive on the server until a logout: whatever was
\* refreshed, lost or rolled back since, its login has an active token.
HeldSessionsAlive ==
    \A b \in Tabs :
        HoldsTokens(b) /\ root[cred[b].jti] \notin ended
        => \E j \in ActiveJtis : root[j] = root[cred[b].jti]

\* A refresh is only refused when its token was revoked for longer than the
\* grace window, or by a logout: tabs never sign each other out by refreshing
\* together.
RefusalHasCause ==
    [][\A b \in Tabs :
        call[b].at = "sent" /\ call'[b].at = "replied" /\ call'[b].reply = NoCred
        => LET t == tok[call[b].old]
           IN  t.age > Grace \/ root[call[b].old] \in ended]_sessionVars

\* The successor the grace window hands out is of use to whoever receives it:
\* unless the user logged out, it is active, or whoever received it first has
\* rotated it within the window already and it has a successor in turn, so that
\* a refresh with it is served.  The window never answers with a dead end.
GraceGivesUsable ==
    [][\A b \in Tabs :
        call[b].at = "sent" /\ call'[b].at = "replied" /\ call'[b].reply # NoCred
        => LET given == call'[b].reply.jti
               t == tok[given]
           IN  \/ t.st = "active"
               \/ t.st = "revoked" /\ t.age <= Grace /\ t.next # NoToken
               \/ root[given] \in ended]_sessionVars
=============================================================================
