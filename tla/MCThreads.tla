----------------------------- MODULE MCThreads ------------------------------
(***************************************************************************)
(* Instances for TLC of threads that wait for each other: the source       *)
(* filter's, which is the module this one extends, transform filters and   *)
(* their quality control, a window and its messages, stream control, the   *)
(* clock's advise thread, and the thread with a queue of messages. They    *)
(* share no state here, so "part" says which one takes the steps of a      *)
(* behaviour and the others stay at rest: every behaviour of each is       *)
(* explored, and none of their products.                                   *)
(***************************************************************************)
EXTENDS SourceFilter

CONSTANTS MaxGap, WaitForKey, MostLate, Lates        \* of the video transform
CONSTANTS MediaTypes, MaxConnections                 \* of the transform in place
CONSTANTS MaxWindows, MaxChanges                     \* of the window
CONSTANTS LastTime, Samples                          \* of stream control
CONSTANTS Cycle, FirstTick    \* of the system's counter, for the clock and the messages
CONSTANTS MaxTicks, AdviseTimes, MaxCalls    \* of the clock
CONSTANTS Posters, MaxMessages, Timeout              \* of the messages

ASSUME TransformAssumption == WaitForKey \in Nat \ {0}
ASSUME ControlAssumption == LastTime \in Nat
ASSUME CounterAssumption == Cycle \in Nat \ {0} /\ FirstTick \in 0..(Cycle - 1)

ASSUME ClockAssumption == MaxTicks \in Nat /\ AdviseTimes \subseteq Nat

\* The longest wait is a DWORD, like the counter.
ASSUME TimeoutAssumption == Timeout \in 0..(Cycle - 1)

MCSamples == {<<1, 2>>}

VARIABLE part    \* the component that takes the steps

VARIABLES inConnected, outConnected, timed, m_State, m_bFlushing, m_bEOSDelivered,
          downState, downFlushing, videoUpstream, pcReceive, frame, videoPcApp,
          m_nKeyFramePeriod, m_nFramesSinceKeyFrame, m_bSkipping, m_itrLate,
          m_nWaitForKey, m_bSampleSkipped, m_bQualityChanged, lost, withheld, stale
Transform == INSTANCE VideoTransform WITH upstream <- videoUpstream, pcApp <- videoPcApp
Transformvars == <<inConnected, outConnected, timed, m_State, m_bFlushing,
                   m_bEOSDelivered, downState, downFlushing, videoUpstream, pcReceive,
                   frame, videoPcApp, m_nKeyFramePeriod, m_nFramesSinceKeyFrame,
                   m_bSkipping, m_itrLate, m_nWaitForKey, m_bSampleSkipped,
                   m_bQualityChanged, lost, withheld, stale>>

VARIABLES m_bModifiesData, inplaceUpstream, downstream, typeIn, typeOut, allocIn,
          m_bReadOnly, allocOut, reconnect, connections
InPlace == INSTANCE TransInPlace WITH Types <- MediaTypes, upstream <- inplaceUpstream
InPlacevars == <<m_bModifiesData, inplaceUpstream, downstream, typeIn, typeOut,
                 allocIn, m_bReadOnly, allocOut, reconnect, connections>>

VARIABLES m_hwnd, m_hdc, m_MemoryDC, visible, m_hPalette, m_bNoRealize,
          m_bDoPostToDestroy, m_PaletteLock, sent, posted, stack, windowPcApp, m_evDone,
          pcRenderer, windows, freed, changes
Window == INSTANCE BaseWindow WITH pcApp <- windowPcApp
Windowvars == <<m_hwnd, m_hdc, m_MemoryDC, visible, m_hPalette, m_bNoRealize,
                m_bDoPostToDestroy, m_PaletteLock, sent, posted, stack, windowPcApp,
                m_evDone, pcRenderer, windows, freed, changes>>

VARIABLES m_StreamState, m_StreamStateOnStop, m_tStartTime, m_tStopTime,
          m_bStopSendExtra, m_bStopExtraSent, m_StreamEvent, m_FilterState,
          m_bIsFlushing, clock, now, controlPc, sample
Control == INSTANCE StreamControl WITH pc <- controlPc
Controlvars == <<m_StreamState, m_StreamStateOnStop, m_tStartTime, m_tStopTime,
                 m_bStopSendExtra, m_bStopExtraSent, m_StreamEvent, m_FilterState,
                 m_bIsFlushing, clock, now, controlPc, sample>>

VARIABLES advises, m_dwAdviseCount, m_dwNextCookie, m_ev, ticks, m_dwPrevSystemTime,
          m_rtPrivateTime, m_rtLastGotTime, m_bAbort, clockPc, rtNow, dwWait, since,
          deltas, adjusted, seen, asked, overdue
Clock == INSTANCE ReferenceClock WITH pc <- clockPc
Clockvars == <<advises, m_dwAdviseCount, m_dwNextCookie, m_ev, ticks,
               m_dwPrevSystemTime, m_rtPrivateTime, m_rtLastGotTime, m_bAbort, clockPc,
               rtNow, dwWait, since, deltas, adjusted, seen, asked, overdue>>

VARIABLES m_ThreadQueue, m_lWaiting, m_hSem, pcThread, msg, pcPoster, signalled,
          timeGetTime, dwStartTime, dwWaitTime, put, waited
Thread == INSTANCE MsgThread
Threadvars == <<m_ThreadQueue, m_lWaiting, m_hSem, pcThread, msg, pcPoster,
                  signalled, timeGetTime, dwStartTime, dwWaitTime, put, waited>>

components == <<vars, Transformvars, InPlacevars, Windowvars, Controlvars, Clockvars,
                Threadvars>>

\* A window is there twice, once for each caller that may have to wait for it.
Parts == {"Source", "Transform", "InPlace", "Window for App", "Window for Renderer",
          "Control", "Clock", "Thread"}

OfWindow == part \in {"Window for App", "Window for Renderer"}

\* A part that takes no steps has one initial state.
MCInit ==
    /\ part \in Parts
    /\ Init
    /\ Transform!Init
    /\ part = "Transform" \/ (inConnected /\ outConnected /\ timed /\ m_nWaitForKey = 0)
    /\ InPlace!Init
    /\ part = "InPlace" \/ m_bModifiesData
    /\ Window!Init
    /\ OfWindow \/ (m_bNoRealize /\ m_bDoPostToDestroy)
    /\ Control!Init
    /\ Clock!Init
    /\ Thread!Init

MCNext ==
    /\ UNCHANGED part
    /\ IF part = "Source" THEN Next ELSE UNCHANGED vars
    /\ IF part = "Transform" THEN Transform!Next ELSE UNCHANGED Transformvars
    /\ IF part = "InPlace" THEN InPlace!Next ELSE UNCHANGED InPlacevars
    /\ IF OfWindow THEN Window!Next ELSE UNCHANGED Windowvars
    /\ IF part = "Control" THEN Control!Next ELSE UNCHANGED Controlvars
    /\ IF part = "Clock" THEN Clock!Next ELSE UNCHANGED Clockvars
    /\ IF part = "Thread" THEN Thread!Next ELSE UNCHANGED Threadvars

\* Of a part at rest nothing may be asked.  The clock's thread and the two
\* counters could always take a step: their fairness holds where they are the part.
ClockFairness ==
    /\ WF_Clockvars(part = "Clock" /\ Clock!AdviseThread)
    /\ WF_Clockvars(part = "Clock" /\ Clock!Tick)

ThreadFairness ==
    /\ WF_Threadvars(part = "Thread" /\ Thread!Thread)
    /\ WF_Threadvars(part = "Thread" /\ Thread!Tick)
    /\ \A p \in Posters : WF_Threadvars(part = "Thread" /\ Thread!WaitMsgReturns(p))

\* The fairness of each; of the others nothing is enabled at rest.
MCSpec ==
    /\ MCInit /\ [][MCNext]_<<part, components>>
    /\ Fairness /\ Transform!Fairness /\ InPlace!Fairness /\ Window!Fairness
    /\ Control!Fairness /\ ClockFairness /\ ThreadFairness
-----------------------------------------------------------------------------
\* What comes first is done first, and nothing is done that is out of date: a frame
\* is decoded after its key frame, none comes after a flush (vtrans.cpp); a transform
\* in place has one allocator or copies (transip.cpp); no palette is selected into
\* a window that is destroyed (winutil.cpp); samples flow while a part of them is wanted
\* (strmctl.cpp); the clock never goes back and the schedule is in order and slept on
\* (refclock.cpp, schedule.cpp); messages are handled in the order they were put, and
\* the wait for one takes as long as was asked (wxutil.cpp).
OrderKept ==
    CASE part = "Transform" -> Transform!ShowsDecodable /\ Transform!NothingStale
      [] part = "InPlace" -> InPlace!TransformsSafely
      [] OfWindow -> Window!NotDestroyedInUse /\ Window!DCsDeletedOnce
      [] part = "Control" -> Control!FlowsIfAnyPartDoes
      [] part = "Clock" -> Clock!TimeKept /\ Clock!ScheduleInOrder /\ Clock!SleepsToTheHead
      [] part = "Thread" -> Thread!MessagesInOrder /\ Thread!WaitsAsLongAsAsked
      [] OTHER -> TRUE

\* In each part somebody is waiting who must not wait for ever.
SomebodyWaits ==
    CASE part = "Source" -> Waits
      [] part = "Transform" -> Transform!Waits
      [] part = "InPlace" -> InPlace!Waits
      [] part = "Window for App" -> Window!AppWaits
      [] part = "Window for Renderer" -> Window!RendererWaits
      [] part = "Control" -> Control!Waits
      [] part = "Clock" -> Clock!Waits
      [] part = "Thread" -> Thread!Waits

\* Whoever waits is released: the source's making of pins, a transform's Stop and
\* EndFlush that wait for Receive, a reconnection, a window's callers, a sample that
\* stream control holds, an advise that is due, and a message.
CallsReturn == SomebodyWaits ~> ~SomebodyWaits
=============================================================================
