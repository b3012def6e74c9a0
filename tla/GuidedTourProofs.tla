-------------------------- MODULE GuidedTourProofs --------------------------
(***************************************************************************)
(* What TLAPS proves of GuidedTour, for any number of steps: its types,    *)
(* and that a tour that is over leaves nothing behind.                     *)
(***************************************************************************)
EXTENDS GuidedTour, TLAPS

-----------------------------------------------------------------------------
(* Types.  Numbers, Booleans and the rest are proved apart. *)

LEMMA TypeInit == Init => TypeOK
<1> SUFFICES ASSUME Init PROVE TypeOK
    OBVIOUS
<1>1. step \in 1..Steps
    BY StepsAssumption DEF Init
<1>2. /\ streaming \in BOOLEAN /\ skipped \in BOOLEAN
      /\ completed \in BOOLEAN /\ cancelled \in BOOLEAN
      /\ userInitiatedClose \in BOOLEAN /\ authFailing \in BOOLEAN
    BY DEF Init
<1>3. /\ at \in Awaits /\ tourState \in Running \cup Stopped
      /\ driver \in {"none", "ready", "shown"} /\ ui \in Flags
      /\ retraction \in {"none", "moving", "stuck"}
    BY DEF Init, Awaits, Running, Stopped, Flags
<1> QED
    BY <1>1, <1>2, <1>3 DEF TypeOK

\* The handlers of the widget touch its flags and the retraction only.
LEMMA WidgetType ==
    ASSUME TypeOK, WidgetHandler,
           ui' \in Flags, retraction' \in {"none", "moving", "stuck"}
    PROVE  TypeOK'
<1>1. step' \in 1..Steps
    BY DEF TypeOK, WidgetHandler
<1>2. /\ streaming' \in BOOLEAN /\ skipped' \in BOOLEAN
      /\ completed' \in BOOLEAN /\ cancelled' \in BOOLEAN
      /\ userInitiatedClose' \in BOOLEAN /\ authFailing' \in BOOLEAN
    BY DEF TypeOK, WidgetHandler
<1>3. /\ at' \in Awaits /\ tourState' \in Running \cup Stopped
      /\ driver' \in {"none", "ready", "shown"}
    BY DEF TypeOK, WidgetHandler
<1> QED
    BY <1>1, <1>2, <1>3 DEF TypeOK

LEMMA TypeStep == TypeOK /\ [Next]_vars => TypeOK'
<1> SUFFICES ASSUME TypeOK, [Next]_vars PROVE TypeOK'
    OBVIOUS
<1> USE StepsAssumption DEF TypeOK, Awaits, Running, Stopped, Flags
<1>1. CASE StartTour
    <2>1. step' \in 1..Steps
        BY <1>1 DEF StartTour
    <2>2. /\ streaming' \in BOOLEAN /\ skipped' \in BOOLEAN
          /\ completed' \in BOOLEAN /\ cancelled' \in BOOLEAN
          /\ userInitiatedClose' \in BOOLEAN /\ authFailing' \in BOOLEAN
        BY <1>1 DEF StartTour
    <2>3. /\ at' \in Awaits /\ tourState' \in Running \cup Stopped
          /\ driver' \in {"none", "ready", "shown"} /\ ui' \in Flags
          /\ retraction' \in {"none", "moving", "stuck"}
        BY <1>1 DEF StartTour
    <2> QED
        BY <2>1, <2>2, <2>3
<1>2. CASE NoticeCancel
    <2>1. step' \in 1..Steps
        BY <1>2 DEF NoticeCancel, Return, GoesOn
    <2>2. /\ streaming' \in BOOLEAN /\ skipped' \in BOOLEAN
          /\ completed' \in BOOLEAN /\ cancelled' \in BOOLEAN
          /\ userInitiatedClose' \in BOOLEAN /\ authFailing' \in BOOLEAN
        BY <1>2 DEF NoticeCancel, Return, GoesOn
    <2>3. /\ at' \in Awaits /\ tourState' \in Running \cup Stopped
          /\ driver' \in {"none", "ready", "shown"} /\ ui' \in Flags
          /\ retraction' \in {"none", "moving", "stuck"}
        BY <1>2 DEF NoticeCancel, Return, GoesOn
    <2> QED
        BY <2>1, <2>2, <2>3
<1>3. CASE DriverLoaded
    BY <1>3 DEF DriverLoaded, ShowTour, GoesOn
<1>4. CASE RetractionEnds
    BY <1>4 DEF RetractionEnds
<1>5. CASE Retracted
    BY <1>5 DEF Retracted, ShowTour, GoesOn
<1>6. CASE Navigate
    BY <1>6 DEF Navigate, GoesOn
<1>7. CASE Navigated
    BY <1>7 DEF Navigated, GoesOn
<1>8. CASE PageReady
    BY <1>8 DEF PageReady, GoesOn
<1>9. CASE PageTimesOut
    BY <1>9 DEF PageTimesOut, GoesOn
<1>9a. CASE GiveUpPage
    BY <1>9a DEF GiveUpPage, InterruptTour, Cleanup, Return
<1>10. CASE ShowStep
    BY <1>10 DEF ShowStep, GoesOn
<1>11. CASE SkipStep
    BY <1>11 DEF SkipStep, GoesOn
<1>12. CASE NextStep
    BY <1>12 DEF NextStep, GoesOn
<1>13. CASE ReportSkipped
    BY <1>13 DEF ReportSkipped
<1>14. CASE Complete
    BY <1>14 DEF Complete, Cleanup, Return
<1>15. CASE Crash
    BY <1>15 DEF Crash, Reset, Cleanup, Return, GoesOn
<1>16. CASE Recover
    BY <1>16 DEF Recover, Reset, Cleanup, Return
<1>17. CASE BackToIdle
    BY <1>17 DEF BackToIdle, Settled
<1>18. CASE ClickNext
    <2>1. step' \in 1..Steps
        BY <1>18 DEF ClickNext, Resolve
    <2>2. /\ streaming' \in BOOLEAN /\ skipped' \in BOOLEAN
          /\ completed' \in BOOLEAN /\ cancelled' \in BOOLEAN
          /\ userInitiatedClose' \in BOOLEAN /\ authFailing' \in BOOLEAN
        BY <1>18 DEF ClickNext, Resolve
    <2>3. /\ at' \in Awaits /\ tourState' \in Running \cup Stopped
          /\ driver' \in {"none", "ready", "shown"} /\ ui' \in Flags
          /\ retraction' \in {"none", "moving", "stuck"}
        BY <1>18 DEF ClickNext, Resolve
    <2> QED
        BY <2>1, <2>2, <2>3
<1>19. CASE PressEscape
    BY <1>19 DEF PressEscape, Resolve, Settled, CancelTour, CancelIgnored, Cleanup
<1>20. CASE ClickClose
    BY <1>20 DEF ClickClose, Settled, CancelTour, CancelIgnored, Cleanup
<1>21. CASE AuthFails
    BY <1>21 DEF AuthFails, Settled
<1>22. CASE AuthCancels
    BY <1>22 DEF AuthCancels, Settled, CancelTour, CancelIgnored, Cleanup
<1>23. CASE Send
    BY <1>23 DEF Send
<1>24. CASE EndStream
    <2>1. step' \in 1..Steps
        BY <1>24 DEF EndStream
    <2>2. /\ streaming' \in BOOLEAN /\ skipped' \in BOOLEAN
          /\ completed' \in BOOLEAN /\ cancelled' \in BOOLEAN
          /\ userInitiatedClose' \in BOOLEAN /\ authFailing' \in BOOLEAN
        BY <1>24 DEF EndStream
    <2>3. /\ at' \in Awaits /\ tourState' \in Running \cup Stopped
          /\ driver' \in {"none", "ready", "shown"} /\ ui' \in Flags
          /\ retraction' \in {"none", "moving", "stuck"}
        BY <1>24 DEF EndStream
    <2> QED
        BY <2>1, <2>2, <2>3
<1>25. CASE OpenWidget
    BY <1>25, WidgetType DEF OpenWidget
<1>26. CASE CloseWidget
    BY <1>26, WidgetType DEF CloseWidget
<1>27. CASE UnmountWidget
    BY <1>27, WidgetType DEF UnmountWidget
<1>28. CASE MountWidget
    BY <1>28, WidgetType DEF MountWidget
<1>29. CASE UNCHANGED vars
    BY <1>29 DEF vars
<1> QED
    BY <1>1, <1>2, <1>3, <1>4, <1>5, <1>6, <1>7, <1>8, <1>9, <1>10, <1>11,
       <1>12, <1>13, <1>14, <1>15, <1>16, <1>17, <1>18, <1>19, <1>20,
       <1>21, <1>22, <1>23, <1>24, <1>25, <1>26, <1>27, <1>28, <1>29, <1>9a
       DEF Next, StartTourGoesOn

\* Every variable keeps its type in every reachable state; in particular the
\* loop of startTour never passes the last step.
THEOREM TypeCorrect == Spec => []TypeOK
<1> QED
    BY TypeInit, TypeStep, PTL DEF Spec

-----------------------------------------------------------------------------
(* A tour that is over leaves nothing behind *)

\* What the tests of `cancelled` in startTour keep true: a tour that was
\* cancelled is never set running again ...
CancelledIsStopped == cancelled => tourState \in Stopped

\* ... and one that was not cancelled runs until startTour returns.
LiveTourRuns == at # "off" /\ ~cancelled => tourState \in Running

TourInv ==
    /\ StoppedTourLeavesNothing
    /\ ReturnedTourIsStopped
    /\ CancelledIsStopped
    /\ LiveTourRuns

LEMMA TourInvInit == Init => TourInv
    BY DEF Init, TourInv, StoppedTourLeavesNothing, ReturnedTourIsStopped,
           CancelledIsStopped, LiveTourRuns, Stopped, Running

\* A cancellation, wherever startTour is suspended.
LEMMA CancelKeepsTourInv ==
    ASSUME TypeOK, TourInv, CancelTour \/ CancelIgnored, at' = at
    PROVE  TourInv'
<1> USE DEF TypeOK, TourInv, StoppedTourLeavesNothing, ReturnedTourIsStopped,
        CancelledIsStopped, LiveTourRuns, Stopped, Running, Flags
<1>1. CASE CancelTour
    BY <1>1 DEF CancelTour, Cleanup
<1>2. CASE CancelIgnored
    BY <1>2 DEF CancelIgnored
<1> QED
    BY <1>1, <1>2

LEMMA TourInvStep == TypeOK /\ TourInv /\ [Next]_vars => TourInv'
<1> SUFFICES ASSUME TypeOK, TourInv, [Next]_vars PROVE TourInv'
    OBVIOUS
<1> USE DEF TypeOK, TourInv, StoppedTourLeavesNothing, ReturnedTourIsStopped,
        CancelledIsStopped, LiveTourRuns, Stopped, Running
<1>1. CASE StartTour
    BY <1>1 DEF StartTour
<1>2. CASE NoticeCancel
    BY <1>2 DEF NoticeCancel, Return
<1>3. CASE DriverLoaded
    BY <1>3 DEF DriverLoaded, ShowTour, GoesOn, Flags
<1>4. CASE RetractionEnds
    BY <1>4 DEF RetractionEnds
<1>5. CASE Retracted
    BY <1>5 DEF Retracted, ShowTour, GoesOn
<1>6. CASE Navigate
    BY <1>6 DEF Navigate, GoesOn
<1>7. CASE Navigated
    BY <1>7 DEF Navigated, GoesOn
<1>8. CASE PageReady
    BY <1>8 DEF PageReady, GoesOn
<1>9. CASE PageTimesOut
    BY <1>9 DEF PageTimesOut, GoesOn
<1>9a. CASE GiveUpPage
    BY <1>9a DEF GiveUpPage, InterruptTour, Cleanup, Return, Flags
<1>10. CASE ShowStep
    BY <1>10 DEF ShowStep, GoesOn
<1>11. CASE SkipStep
    BY <1>11 DEF SkipStep, GoesOn
<1>12. CASE NextStep
    BY <1>12 DEF NextStep, GoesOn
<1>13. CASE ReportSkipped
    BY <1>13 DEF ReportSkipped
<1>14. CASE Complete
    BY <1>14 DEF Complete, Cleanup, Return, Flags
<1>15. CASE Crash
    <2>1. CASE Reset
        BY <2>1 DEF Reset, Cleanup, Return, Flags
    <2>2. CASE at' = "failing" /\ UNCHANGED <<tourState, cancelled, driver, ui>>
        BY <1>15, <2>2 DEF Crash, GoesOn
    <2> QED
        BY <1>15, <2>1, <2>2 DEF Crash
<1>16. CASE Recover
    BY <1>16 DEF Recover, Reset, Cleanup, Return, Flags
<1>17. CASE BackToIdle
    BY <1>17 DEF BackToIdle
<1>18. CASE ClickNext
    BY <1>18 DEF ClickNext, Resolve
<1>19. CASE PressEscape
    <2>1. CASE CancelTour
        BY <1>19, <2>1 DEF PressEscape, Resolve, CancelTour, Cleanup, Flags
    <2>2. CASE UNCHANGED <<driver, ui, cancelled, tourState>>
        BY <1>19, <2>2 DEF PressEscape, Resolve
    <2> QED
        BY <1>19, <2>1, <2>2 DEF PressEscape, CancelIgnored
<1>20. CASE ClickClose
    <2>1. (CancelTour \/ CancelIgnored) /\ at' = at
        BY <1>20 DEF ClickClose
    <2> QED
        BY <2>1, CancelKeepsTourInv
<1>21. CASE AuthFails
    BY <1>21 DEF AuthFails
<1>22. CASE AuthCancels
    <2>1. (CancelTour \/ CancelIgnored) /\ at' = at
        BY <1>22 DEF AuthCancels
    <2> QED
        BY <2>1, CancelKeepsTourInv
<1>23. CASE Send
    BY <1>23 DEF Send
<1>24. CASE EndStream
    BY <1>24 DEF EndStream
<1>25. CASE OpenWidget
    BY <1>25 DEF OpenWidget, WidgetHandler, Flags
<1>26. CASE CloseWidget
    BY <1>26 DEF CloseWidget, WidgetHandler, Flags
<1>27. CASE UnmountWidget
    BY <1>27 DEF UnmountWidget, WidgetHandler, Flags
<1>28. CASE MountWidget
    BY <1>28 DEF MountWidget, WidgetHandler, Flags
<1>29. CASE UNCHANGED vars
    BY <1>29 DEF vars
<1> QED
    BY <1>1, <1>2, <1>3, <1>4, <1>5, <1>6, <1>7, <1>8, <1>9, <1>10, <1>11,
       <1>12, <1>13, <1>14, <1>15, <1>16, <1>17, <1>18, <1>19, <1>20,
       <1>21, <1>22, <1>23, <1>24, <1>25, <1>26, <1>27, <1>28, <1>29, <1>9a
       DEF Next, StartTourGoesOn

LEMMA TourInvariant == Spec => []TourInv
<1> QED
    BY TypeInit, TypeStep, TourInvInit, TourInvStep, PTL DEF Spec

\* Whatever stops a tour (its end, a page that does not load, an exception,
\* Escape, the close button, the expiry of the session), no driver instance
\* and no flag that locks the chat widget outlives it, and no later step of
\* the suspended startTour brings them back.
THEOREM NothingLeftBehind == Spec => []StoppedTourLeavesNothing
<1>1. TourInv => StoppedTourLeavesNothing
    BY DEF TourInv
<1> QED
    BY <1>1, TourInvariant, PTL

\* When startTour has returned, by any of its exits, the tour is over: the
\* state returns to idle and the next tour can start.
THEOREM NextTourCanStart == Spec => []ReturnedTourIsStopped
<1>1. TourInv => ReturnedTourIsStopped
    BY DEF TourInv
<1> QED
    BY <1>1, TourInvariant, PTL
=============================================================================
