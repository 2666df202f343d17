------------------------------ MODULE Renderer ------------------------------
(***************************************************************************)
(* CBaseRenderer and its input pin.  Rendering is done on the source       *)
(* filter's thread, which waits inside Receive until the sample is due;    *)
(* it is released by the clock, by a change of state or by a flush.        *)
(*                                                                         *)
(*   - m_InterfaceLock is held throughout Stop and BeginFlush, which poll  *)
(*     m_bInReceive ("holder" names the call that polls; BeginFlush has    *)
(*     m_RendererLock too).  Every other critical section is one action;   *)
(*   - Receive takes and leaves the locks several times;                   *)
(*   - the clock and the end of stream timer act on their own.             *)
(*                                                                         *)
(* The filter graph flushes and restarts a renderer only when the source   *)
(* thread has come out of it.                                              *)
(***************************************************************************)
EXTENDS Integers

VARIABLES
    m_State, connected, flushing, committed,
    m_bStreaming, m_bAbort, m_bRunTimeError, m_bRepaintStatus,
    m_bEOS, m_bEOSDelivered, m_EndOfStreamTimer,
    m_pMediaSample,              \* is there a sample waiting
    m_dwAdvise, advises,         \* is a cookie kept; what the clock will signal
    m_RenderEvent, m_ThreadSignal, m_evComplete,
    m_bInReceive, pcReceive,     \* the source thread
    holder,                      \* the call that holds the lock and polls
    completes                    \* EC_COMPLETEs of this streaming period

stateVars == <<m_State, connected, flushing, committed, m_bAbort, m_bRunTimeError>>
eosVars   == <<m_bEOS, m_bEOSDelivered, m_EndOfStreamTimer, completes>>
clockVars == <<m_dwAdvise, advises, m_RenderEvent>>
receiver  == <<m_bInReceive, pcReceive>>
vars == <<stateVars, eosVars, clockVars, receiver, m_bStreaming, m_bRepaintStatus,
          m_pMediaSample, m_ThreadSignal, m_evComplete, holder>>

Init ==
    /\ m_State = "Stopped" /\ m_bRepaintStatus = TRUE /\ m_evComplete = TRUE
    /\ connected = FALSE /\ flushing = FALSE /\ committed = FALSE
    /\ m_bStreaming = FALSE /\ m_bAbort = FALSE /\ m_bRunTimeError = FALSE
    /\ m_bEOS = FALSE /\ m_bEOSDelivered = FALSE /\ m_EndOfStreamTimer = FALSE
    /\ m_pMediaSample = FALSE /\ m_dwAdvise = FALSE /\ advises = {}
    /\ m_RenderEvent = FALSE /\ m_ThreadSignal = FALSE
    /\ m_bInReceive = FALSE /\ pcReceive = "out" /\ holder = "nobody" /\ completes = 0

InterfaceLock == holder = "nobody"
RendererLock  == holder # "flush"
-----------------------------------------------------------------------------
\* The end of the stream.

\* Fault: the delivery is not remembered.
NotifyAgain(streaming, delivered, timer) ==
    /\ m_EndOfStreamTimer' = FALSE /\ m_bEOSDelivered' = delivered
    /\ completes' = IF streaming THEN completes + 1 ELSE completes

NotifyEndOfStream(streaming, delivered, timer) ==
    IF streaming
    THEN m_EndOfStreamTimer' = FALSE /\ m_bEOSDelivered' = TRUE /\ completes' = completes + 1
    ELSE m_EndOfStreamTimer' = timer /\ m_bEOSDelivered' = delivered /\ UNCHANGED completes

\* Now, or by a timer when the last sample still has time to run.
SendEndOfStream(eos, streaming, delivered, timer) ==
    IF eos /\ ~delivered /\ ~timer
    THEN \/ NotifyEndOfStream(streaming, delivered, timer)
         \/ m_EndOfStreamTimer' = TRUE /\ m_bEOSDelivered' = delivered /\ UNCHANGED completes
    ELSE m_EndOfStreamTimer' = timer /\ m_bEOSDelivered' = delivered /\ UNCHANGED completes

\* What a call leaves alone of the stream's end.
NothingSent == UNCHANGED <<m_bEOSDelivered, m_EndOfStreamTimer, completes>>

ResetEndOfStream ==
    m_bEOS' = FALSE /\ m_bEOSDelivered' = FALSE /\ m_EndOfStreamTimer' = FALSE /\ completes' = 0

TimerCallback ==
    /\ RendererLock /\ m_EndOfStreamTimer
    /\ SendEndOfStream(m_bEOS, m_bStreaming, m_bEOSDelivered, FALSE)
    /\ UNCHANGED <<stateVars, clockVars, receiver, m_bEOS, m_bStreaming, m_bRepaintStatus,
                   m_pMediaSample, m_ThreadSignal, m_evComplete, holder>>
-----------------------------------------------------------------------------
\* The clock.

\* The three outcomes of ScheduleSample: no link (the sample is refused), the
\* event at once, or a link with the clock; "scheduled" is what it returns.
ScheduleSample(scheduled) ==
    \/ ~scheduled /\ UNCHANGED clockVars
    \/ scheduled /\ m_RenderEvent' = TRUE /\ UNCHANGED <<m_dwAdvise, advises>>
    \/ scheduled /\ m_dwAdvise' = TRUE /\ advises' = advises \cup {"known"}
       /\ UNCHANGED m_RenderEvent

\* Only a link whose cookie is still kept can be cancelled.
CancelNotification ==
    /\ advises' = IF m_dwAdvise THEN advises \ {"known"} ELSE advises
    /\ m_dwAdvise' = FALSE /\ m_RenderEvent' = FALSE

\* Done without a lock: the cookie may be that of a later link.
SignalTimerFired ==
    /\ m_dwAdvise' = FALSE
    /\ advises' = IF "known" \in advises THEN {"lost"} ELSE advises

ClockFires ==
    /\ \E a \in advises : advises' = advises \ {a}
    /\ m_RenderEvent' = TRUE
    /\ UNCHANGED <<stateVars, eosVars, receiver, m_dwAdvise, m_bStreaming, m_bRepaintStatus,
                   m_pMediaSample, m_ThreadSignal, m_evComplete, holder>>
-----------------------------------------------------------------------------
\* The state of the filter.

StopDisconnected ==
    /\ InterfaceLock /\ m_State # "Stopped" /\ ~connected
    /\ m_State' = "Stopped"
    /\ UNCHANGED <<connected, flushing, committed, m_bAbort, m_bRunTimeError, eosVars,
                   clockVars, receiver, m_bStreaming, m_bRepaintStatus, m_pMediaSample,
                   m_ThreadSignal, m_evComplete, holder>>

\* CBaseFilter::Stop (Inactive drops the sample), Decommit, StopStreaming,
\* SourceThreadCanWait(FALSE), ResetEndOfStream, CancelNotification, Ready.
Stop ==
    /\ InterfaceLock /\ m_State # "Stopped" /\ connected
    /\ m_State' = "Stopped" /\ m_bRunTimeError' = FALSE /\ m_pMediaSample' = FALSE
    /\ committed' = FALSE /\ m_bRepaintStatus' = TRUE /\ m_bStreaming' = FALSE
    /\ m_ThreadSignal' = TRUE /\ ResetEndOfStream /\ CancelNotification
    /\ m_evComplete' = TRUE /\ holder' = "stop"
    /\ UNCHANGED <<connected, flushing, m_bAbort, receiver>>

\* WaitForReceiveToComplete sees the flag clear.
StopReturns ==
    /\ holder = "stop" /\ ~m_bInReceive
    /\ m_bAbort' = FALSE /\ holder' = "nobody"
    /\ UNCHANGED <<m_State, connected, flushing, committed, m_bRunTimeError, eosVars,
                   clockVars, receiver, m_bStreaming, m_bRepaintStatus, m_pMediaSample,
                   m_ThreadSignal, m_evComplete>>

\* CompleteStateChange: ready when disconnected, at the end of the stream, or
\* with a sample that is not from before a stop.
CompleteStateChange(OldState) ==
    m_evComplete' = (~connected \/ m_bEOS \/ (m_pMediaSample /\ OldState # "Stopped"))

\* Already paused, or not connected: no more than CompleteStateChange.
PauseOnly ==
    /\ InterfaceLock /\ ~flushing /\ (m_State = "Paused" \/ ~connected)
    /\ m_State' = "Paused" /\ CompleteStateChange("Paused")
    /\ UNCHANGED <<connected, flushing, committed, m_bAbort, m_bRunTimeError, eosVars,
                   clockVars, receiver, m_bStreaming, m_bRepaintStatus, m_pMediaSample,
                   m_ThreadSignal, holder>>

\* The filter graph starts a filter when its source thread has come out.
FromStopped == m_State = "Stopped" => pcReceive = "out"

Pause ==
    /\ InterfaceLock /\ ~flushing /\ connected /\ m_State # "Paused" /\ FromStopped
    /\ m_State' = "Paused" /\ m_bRepaintStatus' = TRUE
    /\ m_bStreaming' = FALSE /\ m_bEOSDelivered' = FALSE /\ completes' = 0
    /\ m_ThreadSignal' = FALSE /\ CancelNotification /\ m_EndOfStreamTimer' = FALSE
    /\ committed' = TRUE
    /\ IF m_State = "Stopped" THEN m_bAbort' = FALSE /\ m_pMediaSample' = FALSE
                              ELSE UNCHANGED <<m_bAbort, m_pMediaSample>>
    /\ CompleteStateChange(m_State)
    /\ UNCHANGED <<connected, flushing, m_bRunTimeError, m_bEOS, receiver, holder>>

RunDisconnected ==
    /\ InterfaceLock /\ m_State # "Running" /\ ~connected
    /\ m_State' = "Running"
    /\ UNCHANGED <<connected, flushing, committed, m_bAbort, m_bRunTimeError, eosVars,
                   clockVars, receiver, m_bStreaming, m_bRepaintStatus, m_pMediaSample,
                   m_ThreadSignal, m_evComplete, holder>>

\* Fault: the end of the stream is not sent when there is no sample.
StartSilently(sample) ==
    /\ ~m_bStreaming /\ m_bStreaming' = TRUE /\ NothingSent
    /\ sample => \E scheduled \in BOOLEAN : ScheduleSample(scheduled)

\* A queued end of stream is sent, or the sample is scheduled; one that is
\* refused is rendered at once.
StartStreaming(sample) ==
    /\ ~m_bStreaming /\ m_bStreaming' = TRUE
    /\ IF sample THEN NothingSent /\ ScheduleSample(TRUE)
                 ELSE SendEndOfStream(m_bEOS, TRUE, m_bEOSDelivered, m_EndOfStreamTimer)

\* Ready, and then CBaseFilter::Run, which pauses a stopped filter first: what Pause
\* resets is reset, and the state event with it, unless the stream has ended.
Run ==
    /\ InterfaceLock /\ ~flushing /\ connected /\ m_State # "Running" /\ FromStopped
    /\ m_State' = "Running"
    /\ m_ThreadSignal' = FALSE /\ m_bRepaintStatus' = FALSE /\ committed' = TRUE
    /\ IF m_State = "Stopped"
       THEN /\ m_bAbort' = FALSE /\ m_pMediaSample' = FALSE /\ CancelNotification
            /\ m_evComplete' = m_bEOS
       ELSE /\ UNCHANGED <<m_bAbort, m_pMediaSample>> /\ m_evComplete' = TRUE
            /\ m_pMediaSample \/ UNCHANGED clockVars
    /\ StartStreaming(m_pMediaSample')
    /\ UNCHANGED <<connected, flushing, m_bRunTimeError, m_bEOS, receiver, holder>>

CompleteConnect ==
    /\ InterfaceLock /\ m_State = "Stopped" /\ ~connected
    /\ connected' = TRUE /\ m_bAbort' = FALSE /\ m_bRepaintStatus' = TRUE
    /\ UNCHANGED <<m_State, flushing, committed, m_bRunTimeError, eosVars, clockVars,
                   receiver, m_bStreaming, m_pMediaSample, m_ThreadSignal, m_evComplete,
                   holder>>

BreakConnect ==
    /\ InterfaceLock /\ m_State = "Stopped" /\ connected /\ pcReceive = "out"
    /\ connected' = FALSE /\ m_bAbort' = FALSE /\ m_bRepaintStatus' = FALSE
    /\ ResetEndOfStream /\ m_pMediaSample' = FALSE
    /\ UNCHANGED <<m_State, flushing, committed, m_bRunTimeError, clockVars, receiver,
                   m_bStreaming, m_ThreadSignal, m_evComplete, holder>>
-----------------------------------------------------------------------------
\* Flushes.

BeginFlush ==
    /\ InterfaceLock /\ connected /\ ~flushing /\ flushing' = TRUE
    /\ m_evComplete' = (m_evComplete /\ m_State # "Paused")
    /\ m_ThreadSignal' = TRUE /\ CancelNotification /\ m_pMediaSample' = FALSE
    /\ holder' = "flush"
    /\ UNCHANGED <<m_State, connected, committed, m_bAbort, m_bRunTimeError, eosVars,
                   receiver, m_bStreaming, m_bRepaintStatus>>

BeginFlushReturns ==
    /\ holder = "flush" /\ ~m_bInReceive
    /\ ResetEndOfStream /\ holder' = "nobody"
    /\ UNCHANGED <<stateVars, clockVars, receiver, m_bStreaming, m_bRepaintStatus,
                   m_pMediaSample, m_ThreadSignal, m_evComplete>>

EndFlush ==
    /\ InterfaceLock /\ flushing /\ pcReceive = "out"
    /\ flushing' = FALSE /\ m_ThreadSignal' = FALSE /\ CancelNotification
    /\ m_bRunTimeError' = FALSE
    /\ UNCHANGED <<m_State, connected, committed, m_bAbort, eosVars, receiver, m_bStreaming,
                   m_bRepaintStatus, m_pMediaSample, m_evComplete, holder>>
-----------------------------------------------------------------------------
\* The source thread.

CheckStreaming == m_State # "Stopped" /\ ~flushing /\ ~m_bRunTimeError

\* Refused: an error, which CRendererInputPin::Receive goes on to report.  A
\* type the pin does not accept is a run time error, reported at once.
ReceiveFails ==
    /\ InterfaceLock /\ connected /\ pcReceive = "out"
    /\ \/ ~CheckStreaming /\ UNCHANGED <<m_bRunTimeError, m_evComplete>>
       \/ CheckStreaming /\ m_bRunTimeError' = TRUE /\ UNCHANGED m_evComplete
       \/ CheckStreaming /\ UNCHANGED <<m_bRunTimeError, m_evComplete>>
       \/ CheckStreaming /\ (m_pMediaSample \/ m_bEOS \/ m_bAbort)
          /\ m_evComplete' = TRUE /\ UNCHANGED m_bRunTimeError
    /\ pcReceive' = "failed"
    /\ UNCHANGED <<m_State, connected, flushing, committed, m_bAbort, eosVars, clockVars,
                   m_bInReceive, m_bStreaming, m_bRepaintStatus, m_pMediaSample,
                   m_ThreadSignal, holder>>

\* Accepted, and scheduled when streaming; one that cannot be is dropped, which
\* changes nothing and is left out.
PrepareReceive ==
    /\ InterfaceLock /\ connected /\ pcReceive = "out"
    /\ CheckStreaming /\ ~m_pMediaSample /\ ~m_bEOS /\ ~m_bAbort
    /\ IF m_bStreaming THEN ScheduleSample(TRUE) ELSE UNCHANGED clockVars
    /\ m_pMediaSample' = TRUE /\ m_bInReceive' = TRUE /\ pcReceive' = "prepared"
    /\ m_bRepaintStatus' = (m_bRepaintStatus \/ ~m_bStreaming)
    /\ UNCHANGED <<stateVars, eosVars, m_bStreaming, m_ThreadSignal, m_evComplete, holder>>

Receiving == <<stateVars, m_bStreaming, m_bRepaintStatus, m_ThreadSignal, holder>>

\* Fault: the flag stays set while the lock is waited for.
FirstSampleBusy ==
    /\ pcReceive = "prepared"
    /\ pcReceive' = IF m_State = "Paused" THEN "first" ELSE "wait"
    /\ UNCHANGED <<Receiving, m_bInReceive, eosVars, clockVars, m_pMediaSample, m_evComplete>>

\* The state is read without a lock.
FirstSample ==
    /\ pcReceive = "prepared"
    /\ IF m_State = "Paused" THEN pcReceive' = "first" /\ m_bInReceive' = FALSE
                             ELSE pcReceive' = "wait" /\ UNCHANGED m_bInReceive
    /\ UNCHANGED <<Receiving, eosVars, clockVars, m_pMediaSample, m_evComplete>>

OnReceiveFirstSample ==
    /\ pcReceive = "first" /\ InterfaceLock
    /\ IF m_State = "Stopped" THEN pcReceive' = "out" /\ UNCHANGED m_bInReceive
                              ELSE pcReceive' = "ready" /\ m_bInReceive' = TRUE
    /\ UNCHANGED <<Receiving, eosVars, clockVars, m_pMediaSample, m_evComplete>>

ReceiveReady ==
    /\ pcReceive = "ready" /\ pcReceive' = "wait" /\ m_evComplete' = TRUE
    /\ UNCHANGED <<Receiving, m_bInReceive, eosVars, clockVars, m_pMediaSample>>

\* Stopped or flushed; or the sample is due, and its event is reset.
WaitReleased ==
    /\ pcReceive = "wait" /\ m_ThreadSignal
    /\ pcReceive' = "out" /\ m_bInReceive' = FALSE
    /\ UNCHANGED <<Receiving, eosVars, clockVars, m_pMediaSample, m_evComplete>>

WaitDue ==
    /\ pcReceive = "wait" /\ ~m_ThreadSignal /\ m_RenderEvent
    /\ pcReceive' = "due" /\ m_RenderEvent' = FALSE
    /\ UNCHANGED <<Receiving, m_bInReceive, eosVars, m_dwAdvise, advises, m_pMediaSample,
                   m_evComplete>>

\* SignalTimerFired, PrepareRender; then the flag is cleared.
PrepareRender ==
    /\ pcReceive = "due" /\ SignalTimerFired
    /\ pcReceive' = "render" /\ m_bInReceive' = FALSE
    /\ UNCHANGED <<Receiving, eosVars, m_RenderEvent, m_pMediaSample, m_evComplete>>

Render ==
    /\ pcReceive = "render" /\ InterfaceLock /\ pcReceive' = "out"
    /\ IF m_State = "Stopped"
       THEN NothingSent /\ UNCHANGED <<clockVars, m_pMediaSample>>
       ELSE /\ m_pMediaSample' = FALSE /\ CancelNotification
            /\ SendEndOfStream(m_bEOS, m_bStreaming, m_bEOSDelivered, m_EndOfStreamTimer)
    /\ UNCHANGED <<Receiving, m_bEOS, m_bInReceive, m_evComplete>>

\* An error while the filter is active is reported once, and ends the stream.
ReportError ==
    /\ pcReceive = "failed" /\ InterfaceLock /\ pcReceive' = "out"
    /\ IF m_State # "Stopped" /\ ~flushing /\ ~m_bAbort /\ ~m_bRunTimeError
       THEN /\ m_bRunTimeError' = TRUE
            /\ IF m_bStreaming /\ ~m_bEOSDelivered
               THEN NotifyEndOfStream(TRUE, FALSE, m_EndOfStreamTimer)
               ELSE NothingSent
       ELSE NothingSent /\ UNCHANGED m_bRunTimeError
    /\ UNCHANGED <<m_State, connected, flushing, committed, m_bAbort, m_bEOS, clockVars,
                   m_bInReceive, m_bStreaming, m_bRepaintStatus, m_pMediaSample,
                   m_ThreadSignal, m_evComplete, holder>>

\* With a sample, its end is waited for; without, the pause is complete.
EndOfStream ==
    /\ InterfaceLock /\ connected /\ CheckStreaming /\ m_bEOS' = TRUE
    /\ IF m_pMediaSample
       THEN NothingSent /\ UNCHANGED m_evComplete
       ELSE /\ m_evComplete' = TRUE
            /\ IF m_bStreaming
               THEN SendEndOfStream(TRUE, TRUE, m_bEOSDelivered, m_EndOfStreamTimer)
               ELSE NothingSent
    /\ UNCHANGED <<stateVars, clockVars, receiver, m_bStreaming, m_bRepaintStatus,
                   m_pMediaSample, m_ThreadSignal, holder>>
-----------------------------------------------------------------------------
\* The window's thread.

SendRepaint ==
    /\ RendererLock /\ m_bRepaintStatus /\ m_bRepaintStatus' = FALSE
    /\ connected /\ ~flushing /\ ~m_bEOS /\ ~m_bAbort
    /\ UNCHANGED <<stateVars, eosVars, clockVars, receiver, m_bStreaming, m_pMediaSample,
                   m_ThreadSignal, m_evComplete, holder>>

OnDisplayChange ==
    /\ RendererLock /\ connected /\ m_bAbort' = TRUE /\ m_pMediaSample' = FALSE
    /\ UNCHANGED <<m_State, connected, flushing, committed, m_bRunTimeError, eosVars,
                   clockVars, receiver, m_bStreaming, m_bRepaintStatus, m_ThreadSignal,
                   m_evComplete, holder>>
-----------------------------------------------------------------------------
Receive ==
    \/ ReceiveFails \/ PrepareReceive
    \/ FirstSample \/ OnReceiveFirstSample \/ ReceiveReady
    \/ WaitReleased \/ WaitDue \/ PrepareRender \/ Render \/ ReportError

Next ==
    \/ Receive \/ EndOfStream \/ ClockFires \/ TimerCallback
    \/ Stop \/ StopReturns \/ StopDisconnected
    \/ Pause \/ PauseOnly \/ Run \/ RunDisconnected
    \/ CompleteConnect \/ BreakConnect
    \/ BeginFlush \/ BeginFlushReturns \/ EndFlush
    \/ SendRepaint \/ OnDisplayChange

\* Threads go on, the clock and the timer fire.
Fairness ==
    /\ WF_vars(pcReceive # "out" /\ Receive)
    /\ WF_vars(StopReturns) /\ WF_vars(BeginFlushReturns)
    /\ WF_vars(ClockFires) /\ WF_vars(TimerCallback)

Spec == Init /\ [][Next]_vars /\ Fairness
-----------------------------------------------------------------------------
\* EC_COMPLETE is sent once while the renderer streams, and when it has been
\* sent no sample waits to be rendered (lines 1327 to 1333 and 1360 to 1364),
\* whichever of Receive, EndOfStream, StartStreaming, an error and the timer
\* sends it.
CompleteOnce == completes <= 1 /\ (completes = 1 => ~m_pMediaSample)

\* Stop and BeginFlush hold the interface lock while they wait for Receive to
\* come out, and Receive does not need it to (lines 1171 to 1175).  The end of the
\* stream is reported to the graph when the samples are done, unless the renderer
\* stops streaming before (lines 659 to 662).
Waits(k) ==
    \/ k = 1 /\ holder # "nobody"
    \/ k = 2 /\ m_bEOS /\ m_bStreaming /\ ~m_bEOSDelivered
=============================================================================
