-------------------------- MODULE ChatClientProofs --------------------------
(***************************************************************************)
(* What TLAPS proves of ChatClient, for any number of conversations and of *)
(* questions: no consent to a tour counts twice, and none that the server  *)
(* did not receive.                                                        *)
(***************************************************************************)
EXTENDS ChatClient, FiniteSetTheorems, TLAPS

Rows == [talk : Talks \cup {Nobody},
         state : {"none", "pending", "answered", "abandoned", "expired"},
         value : {"none", "yes", "no"}]
Streams == [on : BOOLEAN, talk : Talks \cup {Nobody},
            step : {"none", "posted", "reading", "touring", "ended"},
            answers : Cards \cup {Nobody}, value : {"none", "yes", "no"}, consented : BOOLEAN]

ClientShape ==
    /\ asked \in [Cards -> Rows]
    /\ stream \in Streams
    /\ listed \subseteq Talks /\ talk \in Talks \cup {Nobody}
    /\ card \in Cards \cup {Nobody}
    /\ consentFlag \in BOOLEAN /\ refusals \in Nat /\ acceptances \in Nat

\* An answer is written once, with the state.
UnansweredHasNoValue ==
    \A c \in Cards : asked[c].state \in {"none", "pending"} => asked[c].value = "none"

\* The flag, and the consent that a tour took from it, are those of the answer
\* whose turn is running.
FlagIsOfTheTurn ==
    /\ stream.on <=> stream.step # "none"
    /\ stream.value # "none" => stream.on /\ stream.answers \in ConsentCards
    /\ stream.consented => stream.step = "touring" /\ stream.value = "yes" /\ ~ consentFlag
    /\ consentFlag => stream.value = "yes"

\* The server has received the answer of the turn: it may still be counted.
Taken == stream.step \in {"reading", "touring", "ended"}
YesToCount == IF Taken /\ (consentFlag \/ stream.consented) THEN 1 ELSE 0
NoToCount == IF Taken /\ stream.value = "no" THEN 1 ELSE 0
YesSaid == Cardinality(Said("yes"))
NoSaid == Cardinality(Said("no"))

ToCountIsSaid == acceptances + YesToCount <= YesSaid /\ refusals + NoToCount <= NoSaid

ConsentInv == ClientShape /\ UnansweredHasNoValue /\ FlagIsOfTheTurn /\ ToCountIsSaid

LEMMA SaidIsFinite ==
    ASSUME NEW value PROVE IsFiniteSet(Said(value)) /\ Cardinality(Said(value)) \in Nat
<1>1. Said(value) \in SUBSET Cards
    BY ConsentCardsAssumption DEF Said
<1> QED
    BY <1>1, CardsAssumption, FS_Subset, FS_CardinalityType

LEMMA SaidIsNumber == YesSaid \in Nat /\ NoSaid \in Nat
<1> QED
    BY SaidIsFinite DEF YesSaid, NoSaid

LEMMA ConsentInit == InitChatClient => ConsentInv
<1> SUFFICES ASSUME InitChatClient PROVE ConsentInv
    OBVIOUS
<1>1. ClientShape
    BY DEF InitChatClient, ClientShape, Rows, Streams, NotAsked, NoStream
<1>2. UnansweredHasNoValue /\ FlagIsOfTheTurn
    BY DEF InitChatClient, UnansweredHasNoValue, FlagIsOfTheTurn, NotAsked, NoStream
<1>3. ToCountIsSaid
    BY SaidIsNumber DEF InitChatClient, ToCountIsSaid, YesToCount, NoToCount, Taken, NoStream
<1> QED
    BY <1>1, <1>2, <1>3 DEF ConsentInv

-----------------------------------------------------------------------------
(* What the server keeps *)

\* Whatever becomes of the questions, as long as no value changes, as many
\* consents are said.
LEMMA SameSaid ==
    ASSUME \A c \in Cards : asked'[c].value = asked[c].value
    PROVE  YesSaid' = YesSaid /\ NoSaid' = NoSaid
<1>1. Said("yes")' = Said("yes") /\ Said("no")' = Said("no")
    BY ConsentCardsAssumption DEF Said
<1> QED
    BY <1>1 DEF YesSaid, NoSaid

\* The answer of the turn, once received, is one more consent said.
LEMMA ReceivedIsSaid ==
    ASSUME ConsentInv, asked' = Received, ServerTakes(stream.talk, stream.answers)
    PROVE  /\ asked' \in [Cards -> Rows] /\ UnansweredHasNoValue'
           /\ YesSaid' = YesSaid + (IF stream.value = "yes" THEN 1 ELSE 0)
           /\ NoSaid' = NoSaid + (IF stream.value = "no" THEN 1 ELSE 0)
<1> USE DEF ConsentInv
<1>0. stream \in Streams /\ asked \in [Cards -> Rows]
    BY DEF ClientShape
<1>1. \A c \in Cards :
        asked'[c] = IF c = stream.answers THEN [asked[c] EXCEPT !.state = "answered", !.value = stream.value]
                    ELSE IF c \in PendingOf(stream.talk) THEN [asked[c] EXCEPT !.state = "expired"]
                    ELSE asked[c]
    BY DEF Received
<1>2. \A c \in Cards :
        /\ asked'[c] \in Rows
        /\ asked'[c].value = IF c = stream.answers THEN stream.value ELSE asked[c].value
        /\ asked'[c].state \in {"none", "pending"} => asked'[c] = asked[c]
    <2>1. ASSUME NEW c \in Cards
          PROVE  /\ [asked[c] EXCEPT !.state = "answered", !.value = stream.value] \in Rows
                 /\ [asked[c] EXCEPT !.state = "answered", !.value = stream.value].value = stream.value
                 /\ [asked[c] EXCEPT !.state = "answered", !.value = stream.value].state = "answered"
                 /\ [asked[c] EXCEPT !.state = "expired"] \in Rows
                 /\ [asked[c] EXCEPT !.state = "expired"].value = asked[c].value
                 /\ [asked[c] EXCEPT !.state = "expired"].state = "expired"
        <3>1. asked[c] \in Rows /\ stream.value \in {"none", "yes", "no"}
            BY <1>0 DEF Streams
        <3> QED
            BY <3>1 DEF Rows
    <2> QED
        BY <1>0, <1>1, <2>1
<1>3. asked' \in [Cards -> Rows]
    <2>1. asked' = [c \in Cards |-> asked'[c]]
        BY DEF Received
    <2> QED
        BY <1>2, <2>1
<1>4. UnansweredHasNoValue'
    BY <1>2 DEF UnansweredHasNoValue
<1>5. CASE stream.value = "none"
    <2>1. \A c \in Cards : asked'[c].value = asked[c].value
        <3>1. stream.answers \in Cards => asked[stream.answers].value = "none"
            BY CardsAssumption DEF ServerTakes, UnansweredHasNoValue
        <3> QED
            BY <1>2, <1>5, <3>1
    <2> QED
        BY <1>3, <1>4, <1>5, <2>1, SameSaid, SaidIsNumber
<1>6. CASE stream.value # "none"
    <2> DEFINE a == stream.answers
    <2>1. a \in ConsentCards /\ a \in Cards /\ asked[a].value = "none"
        BY <1>6, ConsentCardsAssumption, CardsAssumption
        DEF FlagIsOfTheTurn, ServerTakes, UnansweredHasNoValue
    <2>2. ASSUME NEW v \in {"yes", "no"}
          PROVE  Cardinality(Said(v)') = Cardinality(Said(v)) + (IF stream.value = v THEN 1 ELSE 0)
        <3>1. a \notin Said(v)
            BY <2>1 DEF Said
        <3>2. Said(v)' = IF stream.value = v THEN Said(v) \cup {a} ELSE Said(v)
            BY <1>2, <2>1, ConsentCardsAssumption DEF Said
        <3> QED
            BY <3>1, <3>2, SaidIsFinite, FS_AddElement
    <2> QED
        BY <1>3, <1>4, <2>2 DEF YesSaid, NoSaid
<1> QED
    BY <1>5, <1>6
-----------------------------------------------------------------------------
(* The steps *)

\* A step that leaves the turn and the counters alone, and answers nothing.
LEMMA QuietStep ==
    ASSUME ConsentInv, UNCHANGED <<stream, consentFlag, refusals, acceptances>>,
           asked' \in [Cards -> Rows],
           \A c \in Cards : /\ asked'[c].value = asked[c].value
                            /\ asked'[c].state \in {"none", "pending"} => asked[c].state \in {"none", "pending"},
           listed' \subseteq Talks, talk' \in Talks \cup {Nobody}, card' \in Cards \cup {Nobody}
    PROVE  ConsentInv'
<1>1. ClientShape'
    BY DEF ConsentInv, ClientShape
<1>2. UnansweredHasNoValue' /\ FlagIsOfTheTurn'
    BY DEF ConsentInv, UnansweredHasNoValue, FlagIsOfTheTurn
<1>3. ToCountIsSaid'
    BY SameSaid DEF ConsentInv, ToCountIsSaid, YesToCount, NoToCount, Taken
<1> QED
    BY <1>1, <1>2, <1>3 DEF ConsentInv

\* A turn begins, with an answer or a text: nothing of it is to be counted.
LEMMA TurnBegins ==
    ASSUME ConsentInv, NEW answers \in Cards \cup {Nobody}, NEW value \in {"none", "yes", "no"},
           StartTurn(answers, value), value # "none" => answers \in ConsentCards,
           consentFlag' \in BOOLEAN, consentFlag' => consentFlag \/ value = "yes",
           UNCHANGED <<listed, refusals, acceptances>>, talk' = talk, card' \in Cards \cup {Nobody},
           asked' \in [Cards -> Rows], UnansweredHasNoValue',
           \A c \in Cards : asked'[c].value = asked[c].value
    PROVE  ConsentInv'
<1>1. stream' = [on |-> TRUE, talk |-> talk, step |-> "posted", answers |-> answers, value |-> value,
                 consented |-> FALSE]
    BY DEF StartTurn, NoStream
<1>2. ~ consentFlag
    <2>1. ~ stream.on
        BY DEF StartTurn
    <2> QED
        BY <2>1 DEF ConsentInv, FlagIsOfTheTurn
<1>3. ClientShape'
    BY <1>1 DEF ConsentInv, ClientShape, Streams
<1>4. FlagIsOfTheTurn'
    BY <1>1, <1>2 DEF FlagIsOfTheTurn
<1>5. YesToCount' = 0 /\ NoToCount' = 0
    BY <1>1 DEF YesToCount, NoToCount, Taken
<1>6. YesToCount \in Nat /\ NoToCount \in Nat
    BY DEF YesToCount, NoToCount
<1>7. ToCountIsSaid'
    BY <1>5, <1>6, SameSaid, SaidIsNumber DEF ConsentInv, ClientShape, ToCountIsSaid
<1> QED
    BY <1>3, <1>4, <1>7 DEF ConsentInv

LEMMA StartSteps ==
    ASSUME ConsentInv,
           \/ SendMessage
           \/ \E told \in BOOLEAN : AbandonAndSend(told)
           \/ \E value \in {"yes", "no"} : SubmitAnswer(value)
    PROVE  ConsentInv'
<1> USE DEF ConsentInv, ClientShape
<1>1. CASE SendMessage
    <2>1. /\ StartTurn(Nobody, "none")
          /\ UNCHANGED <<listed, talk, card, consentFlag, refusals, acceptances, asked>>
        BY <1>1 DEF SendMessage, guidance
    <2>2. UnansweredHasNoValue'
        BY <2>1 DEF UnansweredHasNoValue
    <2> QED
        BY <2>1, <2>2, TurnBegins
<1>2. ASSUME NEW told \in BOOLEAN, AbandonAndSend(told) PROVE ConsentInv'
    <2>1. card \in Cards /\ card' = Nobody
        BY <1>2 DEF AbandonAndSend
    <2>2. asked' = asked \/ asked' = [asked EXCEPT ![card] = [asked[card] EXCEPT !.state = "abandoned"]]
        BY <1>2 DEF AbandonAndSend
    <2>3. [asked[card] EXCEPT !.state = "abandoned"] \in Rows
          /\ [asked[card] EXCEPT !.state = "abandoned"].value = asked[card].value
          /\ [asked[card] EXCEPT !.state = "abandoned"].state = "abandoned"
        BY <2>1 DEF Rows
    <2>4. /\ asked' \in [Cards -> Rows]
          /\ \A c \in Cards : /\ asked'[c].value = asked[c].value
                              /\ asked'[c].state \in {"none", "pending"} => asked[c].state \in {"none", "pending"}
        BY <2>1, <2>2, <2>3
    <2>5. UnansweredHasNoValue'
        BY <2>4 DEF UnansweredHasNoValue
    <2>6. UNCHANGED <<listed, talk, consentFlag, refusals, acceptances>>
        BY <1>2 DEF AbandonAndSend, guidance
    <2>7. CASE talk = Nobody
        <3>1. stream' = stream
            BY <1>2, <2>7 DEF AbandonAndSend
        <3> QED
            BY <2>1, <2>4, <2>6, <3>1, QuietStep
    <2>8. CASE talk # Nobody
        <3>1. StartTurn(Nobody, "none")
            BY <1>2, <2>8 DEF AbandonAndSend
        <3> QED
            BY <2>1, <2>4, <2>5, <2>6, <3>1, TurnBegins
    <2> QED
        BY <2>7, <2>8
<1>3. ASSUME NEW value \in {"yes", "no"}, SubmitAnswer(value) PROVE ConsentInv'
    <2> DEFINE given == IF card \in ConsentCards THEN value ELSE "none"
    <2>1. /\ card \in Cards /\ card' = Nobody /\ StartTurn(card, given)
          /\ consentFlag' = (consentFlag \/ (card \in ConsentCards /\ value = "yes"))
          /\ UNCHANGED <<listed, talk, refusals, acceptances, asked>>
        BY <1>3 DEF SubmitAnswer
    <2>2. given \in {"none", "yes", "no"} /\ (given # "none" => card \in ConsentCards)
        OBVIOUS
    <2>3. consentFlag' \in BOOLEAN /\ (consentFlag' => consentFlag \/ given = "yes")
        BY <2>1
    <2>4. UnansweredHasNoValue'
        BY <2>1 DEF UnansweredHasNoValue
    <2> HIDE DEF given
    <2> QED
        BY <2>1, <2>2, <2>3, <2>4, TurnBegins
<1> QED
    BY <1>1, <1>2, <1>3

LEMMA AcceptedStep == ConsentInv /\ TurnAccepted => ConsentInv'
<1> SUFFICES ASSUME ConsentInv, TurnAccepted PROVE ConsentInv'
    OBVIOUS
<1>1. /\ asked' = Received /\ ServerTakes(stream.talk, stream.answers)
      /\ stream.step = "posted" /\ stream' = [stream EXCEPT !.step = "reading"]
      /\ UNCHANGED <<listed, talk, card, consentFlag, refusals, acceptances>>
    BY DEF TurnAccepted, guidance
<1>2. /\ asked' \in [Cards -> Rows] /\ UnansweredHasNoValue'
      /\ YesSaid' = YesSaid + (IF stream.value = "yes" THEN 1 ELSE 0)
      /\ NoSaid' = NoSaid + (IF stream.value = "no" THEN 1 ELSE 0)
    BY <1>1, ReceivedIsSaid
<1>3. stream' \in Streams
    BY <1>1 DEF ConsentInv, ClientShape, Streams
<1>4. /\ stream'.step = "reading" /\ stream'.on = stream.on /\ stream'.value = stream.value
      /\ stream'.answers = stream.answers /\ stream'.consented = stream.consented
    BY <1>1 DEF ConsentInv, ClientShape, Streams
<1>5. ClientShape' /\ FlagIsOfTheTurn'
    BY <1>1, <1>2, <1>3, <1>4 DEF ConsentInv, ClientShape, FlagIsOfTheTurn
<1>6. /\ YesToCount = 0 /\ YesToCount' <= (IF stream.value = "yes" THEN 1 ELSE 0) /\ YesToCount' \in Nat
      /\ NoToCount = 0 /\ NoToCount' = (IF stream.value = "no" THEN 1 ELSE 0)
    BY <1>1, <1>4 DEF ConsentInv, FlagIsOfTheTurn, YesToCount, NoToCount, Taken
<1>7. ToCountIsSaid'
    BY <1>1, <1>2, <1>6, SaidIsNumber DEF ConsentInv, ClientShape, ToCountIsSaid
<1> QED
    BY <1>2, <1>5, <1>7 DEF ConsentInv

\* The turn is over, or fails; one consent is said or not, and a refusal that
\* was to be counted is.
LEMMA OverStep == ConsentInv /\ StreamEnds => ConsentInv'
<1> SUFFICES ASSUME ConsentInv, StreamEnds PROVE ConsentInv'
    OBVIOUS
<1>1. /\ stream' = NoStream /\ consentFlag' = (consentFlag /\ stream.answers = Nobody)
      /\ refusals' = (IF stream.value = "no" THEN refusals + 1 ELSE refusals)
      /\ UNCHANGED <<listed, talk, card, acceptances, asked>>
    BY DEF StreamEnds, screen
<1>2. ~ consentFlag'
    BY <1>1, ConsentCardsAssumption, CardsAssumption DEF ConsentInv, FlagIsOfTheTurn
<1>3. ClientShape' /\ UnansweredHasNoValue' /\ FlagIsOfTheTurn'
    BY <1>1, <1>2 DEF ConsentInv, ClientShape, UnansweredHasNoValue, FlagIsOfTheTurn, NoStream, Streams
<1>4. YesToCount' = 0 /\ NoToCount' = 0
    BY <1>1 DEF YesToCount, NoToCount, Taken, NoStream
<1>5. /\ NoToCount = (IF stream.value = "no" THEN 1 ELSE 0)
      /\ YesToCount \in Nat
    BY DEF StreamEnds, NoToCount, YesToCount, Taken
<1>6. ToCountIsSaid'
    BY <1>1, <1>4, <1>5, SameSaid, SaidIsNumber DEF ConsentInv, ClientShape, ToCountIsSaid
<1> QED
    BY <1>3, <1>6 DEF ConsentInv

LEMMA FailedStep ==
    ASSUME ConsentInv, NEW network \in BOOLEAN, NEW reached \in BOOLEAN, TurnFails(network, reached)
    PROVE  ConsentInv'
<1>1. /\ stream' = NoStream /\ consentFlag' = (consentFlag /\ stream.answers = Nobody)
      /\ UNCHANGED <<listed, talk, card, acceptances, refusals>>
    BY DEF TurnFails, screen
<1>2. ~ consentFlag'
    BY <1>1, ConsentCardsAssumption, CardsAssumption DEF ConsentInv, FlagIsOfTheTurn
<1>3. /\ asked' \in [Cards -> Rows] /\ UnansweredHasNoValue'
      /\ YesSaid <= YesSaid' /\ NoSaid <= NoSaid' /\ YesSaid' \in Nat /\ NoSaid' \in Nat
    <2>1. CASE reached
        BY <2>1, ReceivedIsSaid, SaidIsNumber DEF TurnFails
    <2>2. CASE ~ reached
        BY <2>2, SameSaid, SaidIsNumber DEF TurnFails, ConsentInv, ClientShape, UnansweredHasNoValue
    <2> QED
        BY <2>1, <2>2
<1>4. ClientShape' /\ FlagIsOfTheTurn'
    BY <1>1, <1>2, <1>3 DEF ConsentInv, ClientShape, FlagIsOfTheTurn, NoStream, Streams
<1>5. YesToCount' = 0 /\ NoToCount' = 0
    BY <1>1 DEF YesToCount, NoToCount, Taken, NoStream
<1>6. YesToCount \in Nat /\ NoToCount \in Nat
    BY DEF YesToCount, NoToCount
<1>7. ToCountIsSaid'
    BY <1>1, <1>3, <1>5, <1>6, SaidIsNumber DEF ConsentInv, ClientShape, ToCountIsSaid
<1> QED
    BY <1>3, <1>4, <1>7 DEF ConsentInv

\* The steps of the stream that go on with the turn.
LEMMA StreamSteps ==
    ASSUME ConsentInv,
           DoneSaved \/ DoneEmpty \/ TourStarts \/ \E completed \in BOOLEAN : TourEnds(completed)
    PROVE  ConsentInv'
<1> USE SameSaid, SaidIsNumber DEF ConsentInv, ClientShape
<1>1. CASE DoneSaved \/ DoneEmpty
    <2>1. /\ stream.step = "reading" /\ stream' = [stream EXCEPT !.step = "ended"]
          /\ UNCHANGED <<listed, talk, card, consentFlag, refusals, acceptances, asked>>
        BY <1>1 DEF DoneSaved, DoneEmpty, screen, guidance
    <2>2. /\ stream' \in Streams /\ stream'.step = "ended" /\ stream'.on = stream.on
          /\ stream'.value = stream.value /\ stream'.answers = stream.answers
          /\ stream'.consented = stream.consented
        BY <2>1 DEF Streams
    <2>3. UnansweredHasNoValue' /\ FlagIsOfTheTurn'
        BY <2>1, <2>2 DEF UnansweredHasNoValue, FlagIsOfTheTurn
    <2>4. ToCountIsSaid'
        BY <2>1, <2>2 DEF ToCountIsSaid, YesToCount, NoToCount, Taken
    <2> QED
        BY <2>1, <2>2, <2>3, <2>4
<1>2. CASE TourStarts
    <2>1. /\ stream.step = "reading" /\ consentFlag' = FALSE
          /\ stream' = [stream EXCEPT !.step = "touring", !.consented = consentFlag]
          /\ UNCHANGED <<listed, talk, card, refusals, acceptances, asked>>
        BY <1>2 DEF TourStarts, AfterTourStarts, screen
    <2>2. /\ stream' \in Streams /\ stream'.step = "touring" /\ stream'.on = stream.on
          /\ stream'.value = stream.value /\ stream'.answers = stream.answers
          /\ stream'.consented = consentFlag
        BY <2>1 DEF Streams
    <2>3. UnansweredHasNoValue' /\ FlagIsOfTheTurn'
        BY <2>1, <2>2 DEF UnansweredHasNoValue, FlagIsOfTheTurn
    <2>4. YesToCount' = YesToCount /\ NoToCount' = NoToCount
        BY <2>1, <2>2 DEF FlagIsOfTheTurn, YesToCount, NoToCount, Taken
    <2>5. ToCountIsSaid'
        BY <2>1, <2>4 DEF ToCountIsSaid
    <2> QED
        BY <2>1, <2>2, <2>3, <2>5
<1>3. ASSUME NEW completed \in BOOLEAN, TourEnds(completed) PROVE ConsentInv'
    <2>1. /\ stream.step = "touring"
          /\ stream' = [stream EXCEPT !.step = "reading", !.consented = FALSE]
          /\ IF completed /\ stream.consented
             THEN acceptances' = acceptances + 1 /\ refusals' = 0
             ELSE UNCHANGED <<acceptances, refusals>>
          /\ UNCHANGED <<listed, talk, card, consentFlag, asked>>
        BY <1>3 DEF TourEnds, screen
    <2>2. /\ stream' \in Streams /\ stream'.step = "reading" /\ stream'.on = stream.on
          /\ stream'.value = stream.value /\ stream'.answers = stream.answers
          /\ stream'.consented = FALSE
        BY <2>1 DEF Streams
    <2>3. UnansweredHasNoValue' /\ FlagIsOfTheTurn'
        BY <2>1, <2>2 DEF UnansweredHasNoValue, FlagIsOfTheTurn
    <2>4. NoToCount' = NoToCount /\ NoToCount \in Nat
        BY <2>1, <2>2 DEF NoToCount, Taken
    <2>5. CASE completed /\ stream.consented
        <3>1. YesToCount = 1 /\ YesToCount' = 0
            BY <2>1, <2>2, <2>5 DEF FlagIsOfTheTurn, YesToCount, Taken
        <3> QED
            BY <2>1, <2>2, <2>3, <2>4, <2>5, <3>1 DEF ToCountIsSaid
    <2>6. CASE ~ (completed /\ stream.consented)
        <3>1. YesToCount' <= YesToCount /\ YesToCount' \in Nat /\ YesToCount \in Nat
            BY <2>1, <2>2 DEF YesToCount, Taken
        <3> QED
            BY <2>1, <2>2, <2>3, <2>4, <2>6, <3>1 DEF ToCountIsSaid
    <2> QED
        BY <2>5, <2>6
<1> QED
    BY <1>1, <1>2, <1>3
\* Conversations, replies and the events that leave the turn and the counters
\* alone.
Replies ==
    \/ \E t \in Talks :
        \/ CreateTalk(t) \/ SelectTalk(t) \/ QuestionsArrive(t)
        \/ \E last \in {"none", "user", "text"} : MessagesArrive(t, last)
    \/ \E r \in reads : ReadFails(r)
    \/ Token \/ TourRefused \/ ConnectionChanges
    \/ \E c \in Cards : ResolvedEvent(c)

LEMMA RepliesAreQuiet == ConsentInv /\ Replies => ConsentInv'
<1> SUFFICES ASSUME ConsentInv, Replies PROVE ConsentInv'
    OBVIOUS
<1> USE DEF ConsentInv, ClientShape
<1>1. UNCHANGED <<stream, consentFlag, refusals, acceptances, asked>>
    BY DEF Replies, CreateTalk, SelectTalk, QuestionsArrive, MessagesArrive, ReadFails, Token,
           TourRefused, ConnectionChanges, ResolvedEvent, screen, guidance
<1>2. listed' \subseteq Talks /\ talk' \in Talks \cup {Nobody}
    BY DEF Replies, CreateTalk, SelectTalk, QuestionsArrive, MessagesArrive, ReadFails, Token,
           TourRefused, ConnectionChanges, ResolvedEvent
<1>3. card' \in Cards \cup {Nobody}
    BY DEF Replies, CreateTalk, SelectTalk, QuestionsArrive, MessagesArrive, ReadFails, Token,
           TourRefused, ConnectionChanges, ResolvedEvent, PendingOf, screen
<1> QED
    BY <1>1, <1>2, <1>3, QuietStep

LEMMA DeletionIsQuiet == ASSUME ConsentInv, NEW t \in Talks, DeleteTalk(t) PROVE ConsentInv'
<1> USE DEF ConsentInv, ClientShape
<1>1. ASSUME NEW c \in Cards
      PROVE  /\ asked'[c] \in Rows /\ asked'[c].value = asked[c].value
             /\ asked'[c].state \in {"none", "pending"} => asked[c].state \in {"none", "pending"}
    <2>1. \/ asked'[c] = asked[c]
          \/ asked'[c] = [asked[c] EXCEPT !.state = IF asked[c].state = "pending" THEN "expired" ELSE asked[c].state]
        BY DEF DeleteTalk
    <2>2. asked[c] \in Rows
        OBVIOUS
    <2> QED
        BY <2>1, <2>2 DEF Rows
<1>2. asked' \in [Cards -> Rows]
    <2>1. asked' = [c \in Cards |-> asked'[c]]
        BY DEF DeleteTalk
    <2> QED
        BY <1>1, <2>1
<1>3. /\ listed' \subseteq Talks /\ talk' \in Talks \cup {Nobody} /\ card' \in Cards \cup {Nobody}
      /\ UNCHANGED <<stream, consentFlag, refusals, acceptances>>
    BY DEF DeleteTalk, guidance
<1> QED
    BY <1>1, <1>2, <1>3, QuietStep

LEMMA QuestionIsQuiet == ASSUME ConsentInv, NEW c \in Cards, QuestionEvent(c) PROVE ConsentInv'
<1> USE DEF ConsentInv, ClientShape
<1> DEFINE row == [talk |-> stream.talk, state |-> "pending", value |-> "none"]
<1>1. row \in Rows
    BY DEF Rows, Streams
<1>2. asked' = [asked EXCEPT ![c] = row] /\ asked[c].state = "none" /\ asked[c].value = "none"
    BY DEF QuestionEvent, UnansweredHasNoValue
<1>3. /\ asked' \in [Cards -> Rows]
      /\ \A x \in Cards : /\ asked'[x].value = asked[x].value
                          /\ asked'[x].state \in {"none", "pending"} => asked[x].state \in {"none", "pending"}
    BY <1>1, <1>2
<1>4. /\ listed' \subseteq Talks /\ talk' \in Talks \cup {Nobody} /\ card' \in Cards \cup {Nobody}
      /\ UNCHANGED <<stream, consentFlag, refusals, acceptances>>
    BY DEF QuestionEvent, guidance
<1> QED
    BY <1>3, <1>4, QuietStep

LEMMA ConsentStep == ConsentInv /\ [NextChatClient]_chatClientVars => ConsentInv'
<1> SUFFICES ASSUME ConsentInv, [NextChatClient]_chatClientVars PROVE ConsentInv'
    OBVIOUS
<1>1. CASE Replies
    BY <1>1, RepliesAreQuiet
<1>2. CASE \E t \in Talks : DeleteTalk(t)
    BY <1>2, DeletionIsQuiet
<1>3. CASE \E c \in Cards : QuestionEvent(c)
    BY <1>3, QuestionIsQuiet
<1>4. CASE SendMessage \/ (\E told \in BOOLEAN : AbandonAndSend(told)) \/ \E value \in {"yes", "no"} : SubmitAnswer(value)
    BY <1>4, StartSteps
<1>5. CASE TurnAccepted
    BY <1>5, AcceptedStep
<1>6. CASE DoneSaved \/ DoneEmpty \/ TourStarts \/ \E completed \in BOOLEAN : TourEnds(completed)
    BY <1>6, StreamSteps
<1>7. CASE StreamEnds
    BY <1>7, OverStep
<1>8. CASE \E network, reached \in BOOLEAN : TurnFails(network, reached)
    BY <1>8, FailedStep
<1>9. CASE UNCHANGED chatClientVars
    BY <1>9, QuietStep DEF chatClientVars, ConsentInv, ClientShape
<1> QED
    BY <1>1, <1>2, <1>3, <1>4, <1>5, <1>6, <1>7, <1>8, <1>9 DEF NextChatClient, Replies

\* The counters that pace the proposals of tours: a yes is at most one completed
\* tour, a no at most one refusal, whatever turns fail, questions are answered
\* again and conversations change in between.
THEOREM NoConsentCountsTwice == SpecChatClient => []ConsentsCountOnce
<1>1. ConsentInv => ConsentsCountOnce
    BY SaidIsNumber DEF ConsentInv, ClientShape, ToCountIsSaid, ConsentsCountOnce, YesToCount, NoToCount,
                        YesSaid, NoSaid
<1> QED
    BY <1>1, ConsentInit, ConsentStep, PTL DEF SpecChatClient

-----------------------------------------------------------------------------
(* The type of the other variables *)

\* What the consents do not depend on.
ScreenShape ==
    /\ listed \subseteq created /\ created \subseteq Talks
    /\ shown \in {"none", "user", "blank", "text"}
    /\ connected \in BOOLEAN
    /\ reads \subseteq Talks \X {"messages", "questions"}

LEMMA TypeFromShapes == ClientShape /\ ScreenShape => ChatClientTypeOK
<1> QED
    BY DEF ClientShape, ScreenShape, ChatClientTypeOK, Rows, Streams

LEMMA ScreenStep == ScreenShape /\ [NextChatClient]_chatClientVars => ScreenShape'
<1> SUFFICES ASSUME ScreenShape, [NextChatClient]_chatClientVars PROVE ScreenShape'
    OBVIOUS
<1> USE DEF ScreenShape
<1>1. ASSUME NEW t \in Talks, CreateTalk(t) \/ SelectTalk(t) PROVE ScreenShape'
    BY <1>1 DEF CreateTalk, SelectTalk, screen
<1>2. ASSUME NEW t \in Talks, QuestionsArrive(t) PROVE ScreenShape'
    BY <1>2 DEF QuestionsArrive
<1>3. ASSUME NEW t \in Talks, DeleteTalk(t) PROVE ScreenShape'
    BY <1>3 DEF DeleteTalk
<1>4. ASSUME NEW t \in Talks, NEW last \in {"none", "user", "text"}, MessagesArrive(t, last)
      PROVE  ScreenShape'
    BY <1>4 DEF MessagesArrive
<1>5. ASSUME NEW r \in reads, ReadFails(r) PROVE ScreenShape'
    BY <1>5 DEF ReadFails, screen
<1>6. CASE SendMessage \/ (\E told \in BOOLEAN : AbandonAndSend(told))
           \/ \E value \in {"yes", "no"} : SubmitAnswer(value)
    BY <1>6 DEF SendMessage, AbandonAndSend, SubmitAnswer, StartTurn
<1>7. CASE TurnAccepted \/ Token \/ DoneSaved \/ DoneEmpty
    BY <1>7 DEF TurnAccepted, Token, DoneSaved, DoneEmpty, screen
<1>8. ASSUME NEW c \in Cards, QuestionEvent(c) \/ ResolvedEvent(c) PROVE ScreenShape'
    BY <1>8 DEF QuestionEvent, ResolvedEvent
<1>9. CASE TourRefused \/ TourStarts \/ StreamEnds \/ ConnectionChanges
    BY <1>9 DEF TourRefused, TourStarts, StreamEnds, ConnectionChanges, screen
<1>10. CASE \E completed \in BOOLEAN : TourEnds(completed)
    BY <1>10 DEF TourEnds, screen
<1>11. ASSUME NEW network \in BOOLEAN, NEW reached \in BOOLEAN, TurnFails(network, reached)
       PROVE  ScreenShape'
    BY <1>11 DEF TurnFails, screen
<1>12. CASE UNCHANGED chatClientVars
    BY <1>12 DEF chatClientVars
<1> QED
    BY <1>1, <1>2, <1>3, <1>4, <1>5, <1>6, <1>7, <1>8, <1>9, <1>10, <1>11, <1>12 DEF NextChatClient

\* The type of every variable.
LEMMA ChatClientTyped == SpecChatClient => []ChatClientTypeOK
<1>1. InitChatClient => ScreenShape
    BY DEF InitChatClient, ScreenShape
<1>2. ConsentInv /\ ScreenShape => ChatClientTypeOK
    BY TypeFromShapes DEF ConsentInv
<1> QED
    BY <1>1, <1>2, ConsentInit, ConsentStep, ScreenStep, PTL DEF SpecChatClient

=============================================================================
