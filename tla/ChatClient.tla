------------------------------ MODULE ChatClient ------------------------------
(***************************************************************************)
(* The chat as the browser keeps it (frontend/app/composables/useChat.ts): *)
(* one state, shared by every component of a tab, written by the handlers  *)
(* of the widget, by the replies to its requests and by the events of the  *)
(* stream of the current turn.  Handlers, replies and events interleave at *)
(* every await.  The server is there for what it decides: which question   *)
(* is pending and what was answered (ChatTurns has its side).              *)
(*                                                                         *)
(* Of the list of messages the code tests the last one, of which the model *)
(* keeps who wrote it and whether it is empty.  Ids, the progress of a     *)
(* document, tool calls, profile updates, visualisations, suggestions of   *)
(* reports and the questions shown beside the messages are copied to the   *)
(* screen and decide nothing: they are left out.                           *)
(***************************************************************************)
EXTENDS Naturals, FiniteSets

CONSTANTS
    Talks,        \* the conversations of the user
    Cards,        \* the interactive questions that are asked
    ConsentCards, \* those isGuidanceConsentQuestion recognises
    Nobody        \* null

ASSUME CardsAssumption == IsFiniteSet(Cards) /\ Nobody \notin Cards
ASSUME ConsentCardsAssumption == ConsentCards \subseteq Cards

VARIABLES
    listed,       \* conversations, by id
    created,      \* the ids that were given, those of deleted ones included
    talk,         \* currentConversation
    shown,        \* the last of messages: none, of the user, blank or text of the assistant
    card,         \* currentInteractiveQuestion: one that is pending, or Nobody
    stream,       \* the turn in progress; its .on is isStreaming
    consentFlag,  \* _consentAcceptancePending
    refusals,     \* guidanceRefusalCount
    acceptances,  \* guidanceAcceptanceCount
    connected,    \* isConnected
    reads,        \* the requests of fetchMessages without a reply
    asked         \* the server's interactive_questions

chatClientVars == <<listed, created, talk, shown, card, stream, consentFlag, refusals,
                    acceptances, connected, reads, asked>>

NotAsked == [talk |-> Nobody, state |-> "none", value |-> "none"]
NoStream == [on |-> FALSE, talk |-> Nobody, step |-> "none", answers |-> Nobody,
             value |-> "none", consented |-> FALSE]

ChatClientTypeOK ==
    /\ listed \subseteq created /\ created \subseteq Talks
    /\ talk \in Talks \cup {Nobody}
    /\ shown \in {"none", "user", "blank", "text"}
    /\ card \in Cards \cup {Nobody}
    /\ stream.on \in BOOLEAN /\ stream.talk \in Talks \cup {Nobody}
    /\ stream.step \in {"none", "posted", "reading", "touring", "ended"}
    /\ stream.answers \in Cards \cup {Nobody} /\ stream.value \in {"none", "yes", "no"}
    /\ stream.consented \in BOOLEAN
    /\ consentFlag \in BOOLEAN /\ connected \in BOOLEAN
    /\ refusals \in Nat /\ acceptances \in Nat
    /\ reads \subseteq Talks \X {"messages", "questions"}
    /\ \A c \in Cards : asked[c].state \in {"none", "pending", "answered", "abandoned", "expired"}

InitChatClient ==
    /\ listed = {} /\ created = {} /\ talk = Nobody /\ shown = "none"
    /\ card = Nobody
    /\ stream = NoStream /\ consentFlag = FALSE
    /\ refusals = 0 /\ acceptances = 0
    /\ connected = TRUE /\ reads = {}
    /\ asked = [c \in Cards |-> NotAsked]

screen == <<shown, card>>
guidance == <<consentFlag, refusals, acceptances>>

-----------------------------------------------------------------------------
(* Conversations *)

\* createConversation, then selectConversation; fetchConversations after a turn
\* brings no other conversation than these.
CreateTalk(t) ==
    /\ t \notin created
    /\ listed' = listed \cup {t} /\ created' = created \cup {t}
    /\ talk' = t
    /\ reads' = reads \cup {<<t, "messages">>}
    /\ UNCHANGED <<screen, stream, guidance, connected, asked>>

\* The list of conversations can be opened and a conversation selected while a turn is running:
\* its stream is not aborted and the messages on screen stay until the reply.
SelectTalk(t) ==
    /\ t \in listed
    /\ talk' = t
    /\ reads' = reads \cup {<<t, "messages">>}
    /\ UNCHANGED <<listed, created, screen, stream, guidance, connected, asked>>

\* The first reply of fetchMessages replaces the messages, whatever conversation
\* is current by now; the second request leaves then.
MessagesArrive(t, last) ==
    /\ <<t, "messages">> \in reads
    /\ shown' = last
    /\ reads' = (reads \ {<<t, "messages">>}) \cup {<<t, "questions">>}
    /\ UNCHANGED <<listed, created, talk, card, stream, guidance, connected, asked>>

PendingOf(t) == {c \in Cards : asked[c].talk = t /\ asked[c].state = "pending"}

\* The second reply replaces the questions; the last pending one is to be answered.
QuestionsArrive(t) ==
    /\ <<t, "questions">> \in reads
    /\ IF PendingOf(t) = {} THEN card' = Nobody ELSE card' \in PendingOf(t)
    /\ reads' = reads \ {<<t, "questions">>}
    /\ UNCHANGED <<listed, created, talk, shown, stream, guidance, connected, asked>>

\* A failure of the second request is swallowed.
ReadFails(r) ==
    /\ r \in reads
    /\ reads' = reads \ {r}
    /\ UNCHANGED <<listed, created, talk, screen, stream, guidance, connected, asked>>

\* The server deletes the questions with the conversation (ON DELETE CASCADE).
\* The tab forgets the messages, and neither the question nor the stream.
DeleteTalk(t) ==
    /\ t \in listed
    /\ listed' = listed \ {t}
    /\ IF talk = t THEN talk' = Nobody /\ shown' = "none" ELSE UNCHANGED <<talk, shown>>
    /\ asked' = [c \in Cards |-> IF asked[c].talk = t
                                 THEN [asked[c] EXCEPT !.state = IF @ = "pending" THEN "expired" ELSE @]
                                 ELSE asked[c]]
    /\ UNCHANGED <<created, card, stream, guidance, connected, reads>>

-----------------------------------------------------------------------------
(* Turns *)

\* What sendMessage and submitInteractiveAnswer have in common.  The previous
\* controller is aborted, which is that of a turn that has ended.
StartTurn(answers, value) ==
    /\ talk # Nobody /\ ~stream.on
    /\ connected
    /\ shown' = "user"
    /\ stream' = [NoStream EXCEPT !.on = TRUE, !.talk = talk, !.step = "posted",
                                  !.answers = answers, !.value = value]

\* The input bar of the widget is that of the question while one is pending.
SendMessage ==
    /\ card = Nobody
    /\ StartTurn(Nobody, "none")
    /\ UNCHANGED <<listed, created, talk, card, guidance, connected, reads, asked>>

\* handleAbandonAndSend: the server is told (the failure of that is ignored),
\* the question is abandoned on screen, then the message is sent, unless it
\* cannot be.
AbandonAndSend(told) ==
    /\ card # Nobody /\ connected /\ ~stream.on
    /\ card' = Nobody
    /\ asked' = IF told /\ asked[card].state = "pending"
                THEN [asked EXCEPT ![card].state = "abandoned"] ELSE asked
    /\ IF talk = Nobody THEN UNCHANGED <<shown, stream>> ELSE StartTurn(Nobody, "none")
    /\ UNCHANGED <<listed, created, talk, guidance, connected, reads>>

\* The question is answered on screen before the request leaves; for a consent
\* that is given the flag is armed.
SubmitAnswer(value) ==
    /\ card # Nobody
    /\ StartTurn(card, IF card \in ConsentCards THEN value ELSE "none")
    /\ card' = Nobody
    /\ consentFlag' = (consentFlag \/ (card \in ConsentCards /\ value = "yes"))
    /\ UNCHANGED <<listed, created, talk, refusals, acceptances, connected, reads, asked>>

\* The server takes the turn: an answer to a question of another conversation,
\* or to one that is settled, is refused; a text expires what is pending.
ServerTakes(t, answers) ==
    IF answers = Nobody THEN t \in listed
    ELSE t \in listed /\ asked[answers].talk = t /\ asked[answers].state = "pending"

Received ==
    [c \in Cards |->
        IF c = stream.answers THEN [asked[c] EXCEPT !.state = "answered", !.value = stream.value]
        ELSE IF c \in PendingOf(stream.talk) THEN [asked[c] EXCEPT !.state = "expired"]
        ELSE asked[c]]

\* The reply is a stream: the reader is kept and the message of the assistant is
\* appended to whatever is on screen.
TurnAccepted ==
    /\ stream.step = "posted"
    /\ ServerTakes(stream.talk, stream.answers)
    /\ asked' = Received
    /\ stream' = [stream EXCEPT !.step = "reading"]
    /\ shown' = "blank"
    /\ UNCHANGED <<listed, created, talk, card, guidance, connected, reads>>

\* A token becomes the text of the last message of the list, whosever it is.
Token ==
    /\ stream.step = "reading"
    /\ shown' = IF shown = "blank" THEN "text" ELSE shown
    /\ connected' = TRUE
    /\ UNCHANGED <<listed, created, talk, card, stream, guidance, reads, asked>>

\* done with the id of the persisted message.
DoneSaved ==
    /\ stream.step = "reading"
    /\ stream' = [stream EXCEPT !.step = "ended"]
    /\ connected' = TRUE
    /\ UNCHANGED <<listed, created, talk, screen, guidance, reads, asked>>

\* done with skipped_empty: an empty message of the assistant is taken away.
DoneEmpty ==
    /\ stream.step = "reading"
    /\ IF shown = "blank" THEN shown' \in {"none", "user", "text"} ELSE UNCHANGED shown
    /\ stream' = [stream EXCEPT !.step = "ended"]
    /\ connected' = TRUE
    /\ UNCHANGED <<listed, created, talk, card, guidance, reads, asked>>

\* The server asks a question and sends it.
QuestionEvent(c) ==
    /\ stream.step = "reading" /\ asked[c].state = "none" /\ stream.talk \in listed
    /\ asked' = [asked EXCEPT ![c] = [talk |-> stream.talk, state |-> "pending", value |-> "none"]]
    /\ card' = c
    /\ connected' = TRUE
    /\ UNCHANGED <<listed, created, talk, shown, stream, guidance, reads>>

\* interactive_question_resolved, which only sendMessage reads.
ResolvedEvent(c) ==
    /\ stream.step = "reading" /\ stream.answers = Nobody
    /\ asked[c].talk = stream.talk /\ asked[c].state \in {"expired", "abandoned"}
    /\ card' = IF card = c THEN Nobody ELSE card
    /\ UNCHANGED <<listed, created, talk, shown, stream, guidance, connected, reads, asked>>

\* guided_tour: refused with a message while a question is pending; otherwise the
\* flag is consumed and the reading of the stream waits for the end of the tour.
TourRefused ==
    /\ stream.step = "reading" /\ card # Nobody
    /\ shown' = "text"
    /\ UNCHANGED <<listed, created, talk, card, stream, guidance, connected, reads, asked>>

\* Mutation of AfterTourStarts: the flag is read and left.
FlagIsKept == consentFlag

\* The flag once a tour has been started.
AfterTourStarts == FALSE

TourStarts ==
    /\ stream.step = "reading" /\ card = Nobody
    /\ stream' = [stream EXCEPT !.step = "touring", !.consented = consentFlag]
    /\ consentFlag' = AfterTourStarts
    /\ UNCHANGED <<listed, created, talk, screen, refusals, acceptances, connected, reads, asked>>

\* An acceptance is counted when the tour was completed; it forgets the refusals.
TourEnds(completed) ==
    /\ stream.step = "touring"
    /\ IF completed /\ stream.consented
       THEN acceptances' = acceptances + 1 /\ refusals' = 0
       ELSE UNCHANGED <<acceptances, refusals>>
    /\ stream' = [stream EXCEPT !.step = "reading", !.consented = FALSE]
    /\ UNCHANGED <<listed, created, talk, screen, consentFlag, connected, reads, asked>>

\* The end of the stream: a refusal is counted.  An answer disarms the flag.
StreamEnds ==
    /\ stream.step \in {"reading", "ended"}
    /\ refusals' = IF stream.value = "no" THEN refusals + 1 ELSE refusals
    /\ stream' = NoStream
    /\ consentFlag' = (consentFlag /\ stream.answers = Nobody)
    /\ UNCHANGED <<listed, created, talk, screen, acceptances, connected, reads, asked>>

\* An error of the server or of the network, before the reply or in the middle of
\* the stream; the answer may have reached the server all the same.
TurnFails(network, reached) ==
    /\ stream.step \in {"posted", "reading", "ended"}
    /\ reached => stream.step = "posted" /\ ServerTakes(stream.talk, stream.answers)
    /\ stream.step = "ended" => network
    /\ asked' = IF reached THEN Received ELSE asked
    /\ stream' = NoStream
    /\ consentFlag' = (consentFlag /\ stream.answers = Nobody)
    /\ connected' = (connected /\ ~network)
    /\ UNCHANGED <<listed, created, talk, screen, refusals, acceptances, reads>>

\* The events offline and online of the window.
ConnectionChanges ==
    /\ connected' = ~connected
    /\ UNCHANGED <<listed, created, talk, screen, stream, guidance, reads, asked>>

NextChatClient ==
    \/ \E t \in Talks :
        \/ CreateTalk(t) \/ SelectTalk(t) \/ QuestionsArrive(t) \/ DeleteTalk(t)
        \/ \E last \in {"none", "user", "text"} : MessagesArrive(t, last)
    \/ \E r \in reads : ReadFails(r)
    \/ SendMessage
    \/ \E told \in BOOLEAN : AbandonAndSend(told)
    \/ \E value \in {"yes", "no"} : SubmitAnswer(value)
    \/ TurnAccepted \/ Token \/ DoneSaved \/ DoneEmpty
    \/ \E c \in Cards : QuestionEvent(c) \/ ResolvedEvent(c)
    \/ TourRefused \/ TourStarts \/ StreamEnds \/ ConnectionChanges
    \/ \E completed \in BOOLEAN : TourEnds(completed)
    \/ \E network, reached \in BOOLEAN : TurnFails(network, reached)

SpecChatClient == InitChatClient /\ [][NextChatClient]_chatClientVars

-----------------------------------------------------------------------------
(* Properties *)

Said(value) == {c \in ConsentCards : asked[c].value = value}

\* The counters that pace the proposals of tours count no consent twice and none
\* that the server did not receive: a yes is at most one completed tour, a no at
\* most one refusal, however tours, failed turns, answers that are given again
\* after a reload of the conversation and other conversations follow each other.
ConsentsCountOnce ==
    /\ acceptances <= Cardinality(Said("yes"))
    /\ refusals <= Cardinality(Said("no"))
===============================================================================
