------------------------------- MODULE MCAccess -------------------------------
(***************************************************************************)
(* Accounts, the sessions of their users, the attestations they show and   *)
(* the chat of their browser, for TLC.  They share no state, and a         *)
(* behaviour of all of them interleaves a behaviour of each: every         *)
(* behaviour of this module moves one of them, chosen at the start, and    *)
(* the other ones stay where they begin.                                   *)
(***************************************************************************)
EXTENDS Accounts, RefreshSessions, Attestations, ChatClient, TLC

VARIABLE part  \* the one that moves; it never changes

accessVars == <<part, accountVars, sessionVars, attVars, chatClientVars>>

Moves(name, next, others) == part = name /\ next /\ UNCHANGED <<part, others>>

Init ==
    /\ part \in {"accounts", "sessions", "attestations", "chat"}
    /\ InitAccounts /\ (part # "accounts" => ~ accountOverlap)
    /\ InitSessions
    /\ InitAttestations /\ (part # "attestations" => ~ attOverlap)
    /\ InitChatClient

Next ==
    \/ Moves("accounts", NextAccounts, <<sessionVars, attVars, chatClientVars>>)
    \/ Moves("sessions", NextSessions, <<accountVars, attVars, chatClientVars>>)
    \/ Moves("attestations", NextAttestations, <<accountVars, sessionVars, chatClientVars>>)
    \/ Moves("chat", NextChatClient, <<accountVars, sessionVars, attVars>>)

Spec == Init /\ [][Next]_accessVars

\* Every variable of every module stays in its type.
AccessTypeOK == AccountTypeOK /\ SessionTypeOK /\ AttTypeOK /\ ChatClientTypeOK

\* The modules share the model values of requests, of people and of rows.
Interchangeable == Permutations(Requests) \cup Permutations(Emails) \cup Permutations(Invites)
=============================================================================
