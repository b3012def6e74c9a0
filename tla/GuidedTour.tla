----------------------------- MODULE GuidedTour -----------------------------
(***************************************************************************)
(* The guided tours of one browser tab: the coroutine startTour and what   *)
(* may stop it (frontend/app/composables/useGuidedTour.ts), the chat       *)
(* stream that awaits it (useChat.ts), the floating chat widget it         *)
(* retracts (FloatingChatWidget.vue), and the expiry of the user's session *)
(* (useAuth.ts).                                                           *)
(*                                                                         *)
(* JavaScript runs one task at a time: an action is what runs between two  *)
(* awaits of startTour, or one handler.  A promise that was resolved is    *)
(* followed up before the next event is handled.                           *)
(***************************************************************************)
EXTENDS Naturals

CONSTANT Steps    \* number of steps of a tour (those of registry.ts: 1 to 4)

ASSUME StepsAssumption == Steps \in Nat \ {0}

VARIABLES
    streaming,   \* isStreaming: a chat stream is open, no message can be sent
    at,          \* the await where startTour is suspended
    step,        \* the step it is at
    skipped,     \* skippedSteps > 0
    completed,   \* what the last call of startTour returned
    tourState,
    cancelled,
    userInitiatedClose,
    driver,      \* driverInstance: none, created, or showing a popover
    ui,          \* the flags of the ui store, and whether the layout of the
                 \* page mounts the widget
    retraction,  \* the awaited retraction of the widget: "moving" while its
                 \* animation runs, "stuck" when none will call back
    authFailing  \* handleAuthFailure saw a tour and is about to cancel it

vars == <<streaming, at, step, skipped, completed, tourState, cancelled,
          userInitiatedClose, driver, ui, retraction, authFailing>>

\* Promises just resolved are "invited" (the popover on the link of the page)
\* and "passed" (the popover of a step).
Awaits == {"off", "loading", "retracting", "inviting", "invited", "navigating",
           "waiting", "late", "seeking", "showing", "passed", "reporting",
           "failing"}
Running == {"loading", "navigating", "waiting_dom", "highlighting"}
Stopped == {"idle", "complete", "interrupted"}
Flags == [open : BOOLEAN, minimized : BOOLEAN, guided : BOOLEAN,
          mounted : BOOLEAN]

TypeOK ==
    /\ streaming \in BOOLEAN
    /\ at \in Awaits
    /\ step \in 1..Steps
    /\ skipped \in BOOLEAN
    /\ completed \in BOOLEAN
    /\ tourState \in Running \cup Stopped
    /\ cancelled \in BOOLEAN
    /\ userInitiatedClose \in BOOLEAN
    /\ driver \in {"none", "ready", "shown"}
    /\ ui \in Flags
    /\ retraction \in {"none", "moving", "stuck"}
    /\ authFailing \in BOOLEAN

Init ==
    /\ streaming = FALSE
    /\ at = "off" /\ step = 1 /\ skipped = FALSE /\ completed = FALSE
    /\ tourState = "idle" /\ cancelled = FALSE
    /\ userInitiatedClose = TRUE
    /\ driver = "none"
    /\ ui = [open |-> FALSE, minimized |-> FALSE, guided |-> FALSE,
             mounted |-> TRUE]
    /\ retraction = "none"
    /\ authFailing = FALSE

-----------------------------------------------------------------------------
(* Shared parts of the handlers *)

\* No promise was just resolved: an event can be handled.
Settled ==
    /\ at \notin {"invited", "passed"}
    /\ at = "retracting" => retraction # "none"

Return(r) == at' = "off" /\ completed' = r

\* The cleanup that interruptTour, cancelTour, the end of a tour and its catch
\* have in common.
Cleanup ==
    /\ driver' = "none"
    /\ ui' = [ui EXCEPT !.minimized = FALSE, !.guided = FALSE]

\* Mutation of CancelTour: the callback of the retraction is only forgotten.
CancelLeavingRetraction ==
    /\ tourState \notin {"idle", "complete"}
    /\ Cleanup
    /\ cancelled' = TRUE
    /\ tourState' = "interrupted"
    /\ retraction' = IF retraction = "none" THEN "none" ELSE "stuck"

\* cancelTour; the callback of a retraction in progress is called.
CancelTour ==
    /\ tourState \notin {"idle", "complete"}
    /\ Cleanup
    /\ cancelled' = TRUE
    /\ tourState' = "interrupted"
    /\ retraction' = "none"

CancelIgnored ==
    /\ tourState \in {"idle", "complete"}
    /\ UNCHANGED <<driver, ui, cancelled, tourState, retraction>>

-----------------------------------------------------------------------------
(* startTour *)

\* The stream delivers a guided_tour event; a tour_id out of the registry, a
\* pending question or a tour that is not idle changes nothing.
StartTour ==
    /\ streaming /\ at = "off"
    /\ tourState = "idle"
    /\ at' = "loading" /\ tourState' = "loading"
    /\ cancelled' = FALSE
    /\ step' = 1 /\ skipped' = FALSE
    /\ UNCHANGED <<streaming, completed, userInitiatedClose, driver, ui,
                   retraction, authFailing>>

\* The test of `cancelled` after an await, and at the top of the loop.
TestsCancelled ==
    \/ at \in {"loading", "invited", "navigating", "waiting", "seeking"}
    \/ at = "retracting" /\ retraction = "none"
    \/ at = "passed" /\ step < Steps

\* Mutation of GoesOn: nothing is tested after the import of the driver.
GoesOnOnceLoaded == ~cancelled \/ at = "loading"
GoesOn == ~cancelled

NoticeCancel ==
    /\ cancelled /\ TestsCancelled
    /\ Return(FALSE)
    /\ UNCHANGED <<streaming, step, skipped, tourState, cancelled,
                   userInitiatedClose, driver, ui, retraction, authFailing>>

\* The driver is created, and the user is invited to the page of the tour
\* unless it is the current one.
ShowTour ==
    \/ at' = "inviting" /\ tourState' = "navigating" /\ driver' = "shown"
    \/ at' = "seeking" /\ tourState' = "highlighting" /\ driver' = "ready"

DriverLoaded ==
    /\ at = "loading" /\ GoesOn
    /\ ui' = [ui EXCEPT !.minimized = TRUE, !.guided = TRUE]
    /\ \/ /\ ui.open
          /\ at' = "retracting"
          /\ retraction' = IF ui.mounted THEN "moving" ELSE "stuck"
          /\ UNCHANGED <<tourState, driver>>
       \/ ~ui.open /\ ShowTour /\ UNCHANGED retraction
    /\ UNCHANGED <<streaming, step, skipped, completed, cancelled,
                   userInitiatedClose, authFailing>>

Retracted ==
    /\ at = "retracting" /\ retraction = "none" /\ GoesOn
    /\ ShowTour
    /\ UNCHANGED <<streaming, step, skipped, completed, cancelled,
                   userInitiatedClose, ui, retraction, authFailing>>

\* The invitation was accepted: a new driver instance, and the navigation.
Navigate ==
    /\ at = "invited" /\ GoesOn
    /\ at' = "navigating" /\ tourState' = "waiting_dom"
    /\ driver' = "ready" /\ userInitiatedClose' = TRUE
    /\ UNCHANGED <<streaming, step, skipped, completed, cancelled, ui,
                   retraction, authFailing>>

Navigated ==
    /\ at = "navigating" /\ GoesOn
    /\ at' = "waiting"
    /\ UNCHANGED <<streaming, step, skipped, completed, tourState, cancelled,
                   userInitiatedClose, driver, ui, retraction, authFailing>>

PageReady ==
    /\ at = "waiting" /\ GoesOn
    /\ at' = "seeking" /\ tourState' = "highlighting"
    /\ UNCHANGED <<streaming, step, skipped, completed, cancelled,
                   userInitiatedClose, driver, ui, retraction, authFailing>>

PageTimesOut ==
    /\ at = "waiting" /\ GoesOn
    /\ at' = "late"
    /\ UNCHANGED <<streaming, step, skipped, completed, tourState, cancelled,
                   userInitiatedClose, driver, ui, retraction, authFailing>>

\* Mutation of InterruptTour: the state is not set.
InterruptKeepingState == Cleanup /\ UNCHANGED tourState
InterruptTour == Cleanup /\ tourState' = "interrupted"

\* The user was told that the page is too slow.
GiveUpPage ==
    /\ at = "late"
    /\ InterruptTour
    /\ Return(FALSE)
    /\ UNCHANGED <<streaming, step, skipped, cancelled, userInitiatedClose,
                   retraction, authFailing>>

ShowStep ==
    /\ at = "seeking" /\ GoesOn
    /\ at' = "showing" /\ driver' = "shown"
    /\ UNCHANGED <<streaming, step, skipped, completed, tourState, cancelled,
                   userInitiatedClose, ui, retraction, authFailing>>

SkipStep ==
    /\ at = "seeking" /\ GoesOn
    /\ at' = "passed" /\ skipped' = TRUE
    /\ UNCHANGED <<streaming, step, completed, tourState, cancelled,
                   userInitiatedClose, driver, ui, retraction, authFailing>>

\* Mutation of NextStep: the loop runs once too often.
NextStepPastTheEnd ==
    /\ at = "passed" /\ step <= Steps /\ GoesOn
    /\ at' = "seeking" /\ step' = step + 1
    /\ UNCHANGED <<streaming, skipped, completed, tourState, cancelled,
                   userInitiatedClose, driver, ui, retraction, authFailing>>

NextStep ==
    /\ at = "passed" /\ step < Steps /\ GoesOn
    /\ at' = "seeking" /\ step' = step + 1
    /\ UNCHANGED <<streaming, skipped, completed, tourState, cancelled,
                   userInitiatedClose, driver, ui, retraction, authFailing>>

\* Skipped steps are reported once the loop is over.
ReportSkipped ==
    /\ at = "passed" /\ step = Steps /\ skipped
    /\ at' = "reporting"
    /\ UNCHANGED <<streaming, step, skipped, completed, tourState, cancelled,
                   userInitiatedClose, driver, ui, retraction, authFailing>>

Complete ==
    /\ \/ at = "passed" /\ step = Steps /\ ~skipped
       \/ at = "reporting"
    /\ Cleanup
    /\ userInitiatedClose' = (driver # "none" \/ userInitiatedClose)
    /\ tourState' = "complete"
    /\ Return(TRUE)
    /\ UNCHANGED <<streaming, step, skipped, cancelled, retraction,
                   authFailing>>

\* The end of the catch clause.
Reset ==
    /\ Cleanup
    /\ userInitiatedClose' = (driver # "none" \/ userInitiatedClose)
    /\ retraction' = "none"
    /\ tourState' = "idle"
    /\ Return(FALSE)
    /\ UNCHANGED <<streaming, step, skipped, cancelled, authFailing>>

\* The import of the driver, the navigation or the highlight of a step fails;
\* unless the tour was cancelled an import is awaited to tell the user.
Crash ==
    /\ at \in {"loading", "navigating"} \/ (at = "seeking" /\ GoesOn)
    /\ \/ cancelled /\ Reset
       \/ /\ ~cancelled
          /\ at' = "failing"
          /\ UNCHANGED <<streaming, step, skipped, completed, tourState,
                         cancelled, userInitiatedClose, driver, ui,
                         retraction, authFailing>>

Recover == at = "failing" /\ Reset

BackToIdle ==
    /\ Settled
    /\ tourState \in {"complete", "interrupted"}
    /\ tourState' = "idle"
    /\ UNCHANGED <<streaming, at, step, skipped, completed, cancelled,
                   userInitiatedClose, driver, ui, retraction, authFailing>>

-----------------------------------------------------------------------------
(* The popovers *)

\* The promise of the popover that startTour awaits is resolved, if it does.
Resolve ==
    at' = CASE at = "inviting" -> "invited"
            [] at = "showing"  -> "passed"
            [] OTHER           -> at

\* The Next button, or the end of the countdown.
ClickNext ==
    /\ at \in {"inviting", "showing"} /\ driver = "shown"
    /\ Resolve
    /\ userInitiatedClose' = FALSE
    /\ UNCHANGED <<streaming, step, skipped, completed, tourState, cancelled,
                   driver, ui, retraction, authFailing>>

\* Escape or a click on the overlay: onDestroyStarted, which leaves it to
\* cancelTour to destroy the driver.
PressEscape ==
    /\ Settled /\ driver = "shown" /\ ~cancelled
    /\ \/ userInitiatedClose /\ (CancelTour \/ CancelIgnored)
       \/ /\ ~userInitiatedClose
          /\ UNCHANGED <<driver, ui, cancelled, tourState, retraction>>
    /\ Resolve
    /\ userInitiatedClose' = TRUE
    /\ UNCHANGED <<streaming, step, skipped, completed, authFailing>>

\* The close button of a popover, which stays up until the next one.
ClickClose ==
    /\ Settled /\ driver = "shown"
    /\ CancelTour \/ CancelIgnored
    /\ userInitiatedClose' = TRUE
    /\ UNCHANGED <<streaming, at, step, skipped, completed, authFailing>>

-----------------------------------------------------------------------------
(* The session, the stream and the widget *)

AuthFails ==
    /\ Settled /\ ui.guided /\ ~authFailing
    /\ authFailing' = TRUE
    /\ UNCHANGED <<streaming, at, step, skipped, completed, tourState,
                   cancelled, userInitiatedClose, driver, ui, retraction>>

AuthCancels ==
    /\ Settled /\ authFailing
    /\ CancelTour \/ CancelIgnored
    /\ userInitiatedClose' = (driver # "none" \/ userInitiatedClose)
    /\ authFailing' = FALSE
    /\ UNCHANGED <<streaming, at, step, skipped, completed>>

Send ==
    /\ ~streaming /\ ui.open /\ ui.mounted
    /\ streaming' = TRUE
    /\ UNCHANGED <<at, step, skipped, completed, tourState, cancelled,
                   userInitiatedClose, driver, ui, retraction, authFailing>>

\* The reader of the stream awaits startTour before it goes on.
EndStream ==
    /\ streaming /\ at = "off"
    /\ streaming' = FALSE
    /\ UNCHANGED <<at, step, skipped, completed, tourState, cancelled,
                   userInitiatedClose, driver, ui, retraction, authFailing>>

\* The animation ends (at once for a user who prefers reduced motion).
RetractionEnds ==
    /\ retraction = "moving"
    /\ retraction' = "none"
    /\ UNCHANGED <<streaming, at, step, skipped, completed, tourState,
                   cancelled, userInitiatedClose, driver, ui, authFailing>>

\* The part common to the handlers of the widget.
WidgetHandler ==
    /\ Settled
    /\ UNCHANGED <<streaming, at, step, skipped, completed, tourState,
                   cancelled, userInitiatedClose, driver, authFailing>>

\* The floating button, disabled during a tour.
OpenWidget ==
    /\ ui.mounted /\ ~ui.open /\ ~ui.guided
    /\ ui' = [ui EXCEPT !.open = TRUE]
    /\ UNCHANGED retraction /\ WidgetHandler

\* The closing animation kills the one of the retraction.
CloseWidget ==
    /\ ui.mounted /\ ui.open
    /\ ui' = [ui EXCEPT !.open = FALSE]
    /\ retraction' = IF retraction = "none" THEN "none" ELSE "stuck"
    /\ WidgetHandler

\* A page without the widget (another layout), or a window that becomes too
\* narrow, which closes it too.
UnmountWidget ==
    /\ ui.mounted
    /\ \E o \in {ui.open, FALSE} :
        ui' = [ui EXCEPT !.mounted = FALSE, !.open = o]
    /\ retraction' = "none"
    /\ WidgetHandler

MountWidget ==
    /\ ~ui.mounted
    /\ ui' = [ui EXCEPT !.mounted = TRUE]
    /\ UNCHANGED retraction /\ WidgetHandler

-----------------------------------------------------------------------------
\* What startTour does, and the ends of what it awaits but for the user.
StartTourGoesOn ==
    \/ NoticeCancel \/ DriverLoaded \/ RetractionEnds \/ Retracted
    \/ Navigate \/ Navigated \/ PageReady \/ PageTimesOut \/ GiveUpPage
    \/ ShowStep \/ SkipStep \/ NextStep \/ ReportSkipped \/ Complete
    \/ Crash \/ Recover

Next ==
    \/ StartTourGoesOn
    \/ StartTour \/ BackToIdle
    \/ ClickNext \/ PressEscape \/ ClickClose
    \/ AuthFails \/ AuthCancels \/ Send \/ EndStream
    \/ OpenWidget \/ CloseWidget \/ UnmountWidget \/ MountWidget

Spec == Init /\ [][Next]_vars

\* startTour never stops by itself: timers fire, imports and navigations end
\* or fail, and promises that were resolved are followed up; so does the import
\* that handleAuthFailure awaits.  Nothing is assumed of the user.
FairSpec == Spec /\ WF_vars(StartTourGoesOn) /\ WF_vars(AuthCancels)

-----------------------------------------------------------------------------
(* Properties *)

\* A tour that completed, failed or was stopped leaves neither a driver nor
\* the flags that lock the widget, even while startTour is still suspended and
\* whatever it does next.
StoppedTourLeavesNothing ==
    tourState \in Stopped =>
        driver = "none" /\ ~ui.minimized /\ ~ui.guided

\* Once startTour has returned the state is back to one from which the next
\* tour can start.
ReturnedTourIsStopped == at = "off" => tourState \in Stopped

\* A tour that is cancelled while it loads, retracts the widget, navigates or
\* looks for an element returns: no wait of startTour but those for the user
\* outlives a cancellation.
CancelledWorkReturns ==
    cancelled /\ at \notin {"off", "inviting", "showing"} ~> at = "off"

\* A tour that was cancelled returns, wherever it was.  Otherwise the chat
\* stream that awaits it stays open and no message can be sent any more.
CancelledTourReturns == cancelled /\ at # "off" ~> at = "off"
=============================================================================
