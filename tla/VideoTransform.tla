--------------------------- MODULE VideoTransform ---------------------------
(***************************************************************************)
(* CVideoTransformFilter, a CTransformFilter that decodes video: frames    *)
(* that refer to their predecessors, skipped up to the next key frame when *)
(* the renderer says it is late.                                           *)
(*                                                                         *)
(*   - the source thread is inside Receive, with m_csReceive, while it     *)
(*     waits for an output buffer or for the filter downstream;            *)
(*   - the application's thread makes the control calls, m_csFilter held   *)
(*     throughout; "pcApp" names the call that waits for m_csReceive;      *)
(*   - the graph stops, pauses and flushes the downstream filter; times    *)
(*     are in frames.                                                      *)
(***************************************************************************)
EXTENDS Integers

CONSTANTS MaxGap,           \* bound: frames from a key frame to the next
          WaitForKey,       \* frames after which it is no longer waited for
          MostLate, Lates   \* the limit of m_itrLate, and what is reported

Frames == [key : BOOLEAN, discontinuity : BOOLEAN, newType : BOOLEAN]

VARIABLES
    inConnected, outConnected, timed,     \* of the graph: they stay as they are
    m_State, m_bFlushing, m_bEOSDelivered,
    downState, downFlushing,              \* the downstream filter
    upstream,                             \* "new", "sending" or "failed"
    pcReceive, frame, pcApp,
    m_nKeyFramePeriod, m_nFramesSinceKeyFrame, m_bSkipping, m_itrLate,
    m_nWaitForKey, m_bSampleSkipped, m_bQualityChanged,
    lost, withheld, stale                 \* observers, see the properties

graph   == <<inConnected, outConnected, timed>>
quality == <<m_nKeyFramePeriod, m_nFramesSinceKeyFrame, m_bSkipping, m_itrLate>>
observed == <<lost, withheld>>
control == <<m_State, m_bFlushing, m_bEOSDelivered, downState, downFlushing, pcApp>>
vars == <<graph, control, upstream, pcReceive, frame, quality, m_nWaitForKey,
          m_bSampleSkipped, m_bQualityChanged, observed, stale>>

NoFrame == [key |-> TRUE, discontinuity |-> FALSE, newType |-> FALSE]

\* The constructor leaves m_nWaitForKey as the memory was.
Init ==
    /\ inConnected \in BOOLEAN /\ outConnected \in BOOLEAN /\ timed \in BOOLEAN
    /\ m_State = "Stopped" /\ m_bFlushing = FALSE /\ m_bEOSDelivered = FALSE
    /\ downState = "Stopped" /\ downFlushing = FALSE
    /\ upstream = "new" /\ pcReceive = "out" /\ pcApp = "idle"
    /\ frame = NoFrame
    /\ m_nKeyFramePeriod = 0 /\ m_nFramesSinceKeyFrame = 0 /\ m_bSkipping = FALSE
    /\ m_itrLate = 0 /\ m_nWaitForKey \in {0, 1, WaitForKey}
    /\ m_bSampleSkipped = FALSE /\ m_bQualityChanged = FALSE
    /\ lost = TRUE /\ withheld = 0 /\ stale = FALSE

csReceiveFree == pcReceive = "out"
Connected == inConnected /\ outConnected
-----------------------------------------------------------------------------
\* Which frames to skip.

ForgetQuality ==
    /\ m_itrLate' = 0 /\ m_nKeyFramePeriod' = 0 /\ m_nFramesSinceKeyFrame' = 0
    /\ m_bSkipping' = FALSE

StartStreaming ==
    ForgetQuality /\ m_bQualityChanged' = FALSE /\ m_bSampleSkipped' = FALSE

\* The longest distance of two key frames so far.
KeyFramePeriod(f) ==
    IF m_nFramesSinceKeyFrame > m_nKeyFramePeriod /\ (f.key \/ m_nKeyFramePeriod > 0)
    THEN m_nFramesSinceKeyFrame ELSE m_nKeyFramePeriod

SinceKey(f) == IF f.key THEN 0 ELSE m_nFramesSinceKeyFrame

\* Decoding is slow, and the key frame will come before the delay is made up.
WorthSkipping(f, slow) ==
    /\ slow /\ m_itrLate > 1 /\ KeyFramePeriod(f) > 0
    /\ m_itrLate > KeyFramePeriod(f) - SinceKey(f) - 1

\* Fault: skipping ends when it has made up the delay.
SkipWhileLate(f, slow) ==
    /\ m_nKeyFramePeriod' = KeyFramePeriod(f)
    /\ m_nFramesSinceKeyFrame' = SinceKey(f) + 1
    /\ m_bSkipping' = WorthSkipping(f, slow)
    /\ m_itrLate' = IF m_bSkipping' THEN m_itrLate - 1 ELSE m_itrLate

ShouldSkipFrame(f, slow) ==
    IF ~timed THEN UNCHANGED quality
    ELSE /\ m_nKeyFramePeriod' = KeyFramePeriod(f)
         /\ m_nFramesSinceKeyFrame' = SinceKey(f) + 1
         /\ m_bSkipping' = (WorthSkipping(f, slow) \/ (m_bSkipping /\ ~f.key))
         /\ m_itrLate' = IF m_bSkipping' THEN m_itrLate - 1 ELSE m_itrLate

AlterQuality ==
    /\ m_State # "Stopped"
    /\ \E late \in Lates : m_itrLate' = IF m_itrLate > MostLate THEN MostLate ELSE late
    /\ UNCHANGED <<graph, control, upstream, pcReceive, frame, m_nKeyFramePeriod,
                   m_nFramesSinceKeyFrame, m_bSkipping, m_nWaitForKey, m_bSampleSkipped,
                   m_bQualityChanged, observed, stale>>
-----------------------------------------------------------------------------
\* A frame.  The first after a start or a flush is a key frame or is marked, and
\* so is one after frames were left out; a new type begins with a key frame.

\* Receive returns, and the frame is released.
Returned == pcReceive' = "out" /\ frame' = NoFrame /\ stale' = FALSE

CheckStreaming == outConnected /\ ~m_bFlushing /\ m_State # "Stopped"

MaySend(f) ==
    /\ upstream = "new" => f.key \/ f.discontinuity
    /\ f.newType => f.key
    /\ f.key \/ m_nFramesSinceKeyFrame < MaxGap

\* Receive of the pin up to the request for a buffer.
Receive == \E f \in Frames :
    /\ inConnected /\ csReceiveFree /\ CheckStreaming /\ upstream # "failed" /\ MaySend(f)
    /\ \/ /\ f.newType /\ StartStreaming
          /\ upstream' = "sending" /\ pcReceive' = "buffer" /\ frame' = f /\ UNCHANGED observed
       \/ \* StartStreaming fails: AbortPlayback
          /\ f.newType /\ upstream' = "failed" /\ lost' = TRUE
          /\ UNCHANGED <<quality, m_bQualityChanged, m_bSampleSkipped, withheld, pcReceive,
                         frame>>
       \/ /\ ~f.newType /\ upstream' = "sending"
          /\ \E slow \in BOOLEAN : ShouldSkipFrame(f, slow)
          /\ IF timed /\ m_bSkipping'
             THEN /\ m_bSampleSkipped' = TRUE /\ m_bQualityChanged' = TRUE
                  /\ lost' = TRUE /\ withheld' = 0 /\ UNCHANGED <<pcReceive, frame>>
             ELSE /\ pcReceive' = "buffer" /\ frame' = f
                  /\ UNCHANGED <<m_bSampleSkipped, m_bQualityChanged, observed>>
    /\ UNCHANGED <<graph, control, m_nWaitForKey, stale>>

ReceiveRefused ==
    /\ inConnected /\ csReceiveFree /\ ~CheckStreaming /\ upstream # "failed"
    /\ upstream' = "failed"
    /\ UNCHANGED <<graph, control, pcReceive, frame, quality, m_nWaitForKey,
                   m_bSampleSkipped, m_bQualityChanged, observed, stale>>

DownstreamBlocks == downState = "Paused" /\ ~downFlushing

\* The allocator is decommitted: the frame is given up.
GetBufferFails ==
    /\ pcReceive = "buffer" /\ downState = "Stopped"
    /\ Returned /\ upstream' = "failed" /\ lost' = TRUE
    /\ UNCHANGED <<graph, control, quality, m_nWaitForKey, m_bSampleSkipped,
                   m_bQualityChanged, withheld>>

\* What the references of the frame that is decoded now are worth.
Decoded(newBuffer) ==
    /\ lost' = (~frame.key /\ (lost \/ frame.discontinuity \/ newBuffer))
    /\ withheld' = IF m_nWaitForKey' = 0 THEN withheld
                   ELSE IF frame.discontinuity \/ newBuffer THEN 1 ELSE withheld + 1

\* Fault: a frame marked as discontinuous is shown when it is decoded.
WaitOnlyForBuffer(newBuffer) == IF newBuffer THEN WaitForKey ELSE m_nWaitForKey

\* A new buffer is empty, and a discontinuity leaves the references behind.
Wait(newBuffer) ==
    IF newBuffer \/ frame.discontinuity THEN WaitForKey ELSE m_nWaitForKey

StillWaiting(n) == IF n = 0 THEN 0 ELSE IF frame.key THEN 0 ELSE n - 1

\* The buffer arrives, perhaps with a new output type, and Transform decodes
\* into it: the frame is delivered, or withheld because a key frame is waited
\* for or Transform said so.
Decode ==
    /\ pcReceive = "buffer" /\ downState # "Stopped"
    /\ \E newBuffer \in BOOLEAN :
          /\ IF newBuffer THEN ForgetQuality ELSE UNCHANGED quality
          /\ m_nWaitForKey' = StillWaiting(Wait(newBuffer))
          /\ Decoded(newBuffer)
          /\ \/ /\ m_nWaitForKey' = 0 /\ pcReceive' = "deliver" /\ m_bSampleSkipped' = FALSE
                /\ m_bQualityChanged' = (m_bQualityChanged /\ ~newBuffer)
                /\ UNCHANGED <<frame, stale>>
             \/ Returned /\ m_bSampleSkipped' = TRUE /\ m_bQualityChanged' = TRUE
    /\ UNCHANGED <<graph, control, upstream>>

\* StartStreaming after the type, or Transform, fails.
DecodeFails ==
    /\ pcReceive = "buffer" /\ downState # "Stopped"
    /\ Returned /\ upstream' = "failed" /\ lost' = TRUE
    /\ UNCHANGED <<graph, control, quality, m_nWaitForKey, m_bSampleSkipped,
                   m_bQualityChanged, withheld>>

\* Fault: a frame that is refused is offered again.
DeliverAgain ==
    /\ pcReceive = "deliver" /\ ~DownstreamBlocks
    /\ pcReceive' = IF downFlushing \/ downState = "Stopped" THEN "deliver" ELSE "out"
    /\ UNCHANGED <<graph, control, upstream, frame, quality, m_nWaitForKey, m_bSampleSkipped,
                   m_bQualityChanged, observed, stale>>

Deliver ==
    /\ pcReceive = "deliver" /\ ~DownstreamBlocks
    /\ Returned
    /\ upstream' = IF downFlushing \/ downState = "Stopped" THEN "failed" ELSE upstream
    /\ UNCHANGED <<graph, control, quality, m_nWaitForKey, m_bSampleSkipped,
                   m_bQualityChanged, observed>>
-----------------------------------------------------------------------------
\* Control calls.  The graph gives a command to the downstream filter first.

Idle == pcApp = "idle"
UnchangedStream == UNCHANGED <<pcReceive, frame, m_nWaitForKey, observed>>

DownstreamChanges(state) ==
    /\ Idle /\ ~m_bFlushing /\ downState # state /\ downState' = state
    /\ UNCHANGED <<graph, m_State, m_bFlushing, m_bEOSDelivered, downFlushing, pcApp, upstream,
                   quality, m_bSampleSkipped, m_bQualityChanged, stale>> /\ UnchangedStream

\* Pause from paused or running, or with a pin that is not connected.
PauseOther ==
    /\ Idle /\ downState # "Stopped" /\ (m_State = "Running" \/ ~Connected)
    /\ m_State # "Paused" /\ m_State' = "Paused"
    /\ m_bEOSDelivered' = (m_bEOSDelivered \/ ~inConnected)
    /\ m_bSampleSkipped' = FALSE /\ m_bQualityChanged' = FALSE
    /\ UNCHANGED <<graph, m_bFlushing, downState, downFlushing, pcApp, upstream, quality, stale>>
    /\ UnchangedStream

\* Pause from stopped: m_csReceive for StartStreaming, then the pins.
PauseFromStopped ==
    /\ Idle /\ downState # "Stopped" /\ m_State = "Stopped" /\ Connected /\ csReceiveFree
    /\ \/ /\ StartStreaming /\ m_State' = "Paused" /\ upstream' = "new"
       \/ /\ m_bSampleSkipped' = FALSE /\ m_bQualityChanged' = FALSE
          /\ UNCHANGED <<m_State, quality, upstream>>
    /\ UNCHANGED <<graph, m_bFlushing, m_bEOSDelivered, downState, downFlushing, pcApp, stale>>
    /\ UnchangedStream

Run ==
    /\ Idle /\ m_State = "Paused" /\ downState = "Running" /\ m_State' = "Running"
    /\ UNCHANGED <<graph, m_bFlushing, m_bEOSDelivered, downState, downFlushing, pcApp, upstream,
                   quality, m_bSampleSkipped, m_bQualityChanged, stale>> /\ UnchangedStream

\* Stop: the input pin is inactive, then m_csReceive is waited for.
Stop ==
    /\ Idle /\ downState = "Stopped" /\ m_State # "Stopped" /\ Connected
    /\ pcApp' = "stop" /\ m_bFlushing' = FALSE
    /\ UNCHANGED <<graph, m_State, m_bEOSDelivered, downState, downFlushing, upstream, quality,
                   m_bSampleSkipped, m_bQualityChanged, stale>> /\ UnchangedStream

StopReturns ==
    /\ \/ pcApp = "stop" /\ csReceiveFree
       \/ Idle /\ downState = "Stopped" /\ m_State # "Stopped" /\ ~Connected
    /\ pcApp' = "idle" /\ m_State' = "Stopped" /\ m_bEOSDelivered' = FALSE
    /\ UNCHANGED <<graph, m_bFlushing, downState, downFlushing, upstream, quality,
                   m_bSampleSkipped, m_bQualityChanged, stale>> /\ UnchangedStream

BeginFlush ==
    /\ Idle /\ Connected /\ ~m_bFlushing
    /\ m_bFlushing' = TRUE /\ downFlushing' = TRUE /\ pcApp' = "endFlush"
    /\ stale' = (pcReceive # "out")
    /\ UNCHANGED <<graph, m_State, m_bEOSDelivered, downState, upstream, quality,
                   m_bSampleSkipped, m_bQualityChanged>> /\ UnchangedStream

\* Fault: CTransformFilter::EndFlush alone, which needs no lock.
EndFlushUnlocked ==
    /\ pcApp = "endFlush" /\ pcApp' = "idle"
    /\ StartStreaming /\ downFlushing' = FALSE /\ m_bFlushing' = FALSE /\ upstream' = "new"
    /\ UNCHANGED <<graph, m_State, m_bEOSDelivered, downState, stale>> /\ UnchangedStream

EndFlush ==
    /\ pcApp = "endFlush" /\ csReceiveFree /\ pcApp' = "idle"
    /\ StartStreaming /\ downFlushing' = FALSE /\ m_bFlushing' = FALSE /\ upstream' = "new"
    /\ UNCHANGED <<graph, m_State, m_bEOSDelivered, downState, stale>> /\ UnchangedStream
-----------------------------------------------------------------------------
SourceThread == Receive \/ ReceiveRefused
InReceive == GetBufferFails \/ Decode \/ DecodeFails \/ Deliver
Control ==
    \/ \E state \in {"Stopped", "Paused", "Running"} : DownstreamChanges(state)
    \/ PauseOther \/ PauseFromStopped \/ Run \/ Stop \/ StopReturns \/ BeginFlush \/ EndFlush

Next == SourceThread \/ InReceive \/ AlterQuality \/ Control

\* The threads go on when they can.
Fairness == /\ WF_vars(InReceive)
            /\ WF_vars(StopReturns) /\ WF_vars(EndFlush)

Spec == Init /\ [][Next]_vars /\ Fairness
-----------------------------------------------------------------------------
\* A frame whose references were skipped, lost upstream or left in another
\* buffer is shown only when a key frame has been waited for long enough
\* (vtrans.cpp lines 224 to 272 and 329 to 428).
ShowsDecodable ==
    pcReceive = "deliver" /\ lost => withheld >= WaitForKey - 1

\* A frame taken before a flush never reaches a downstream filter that has seen
\* the end of that flush (vtrans.cpp lines 55 to 69).
NothingStale == stale => m_bFlushing /\ downFlushing

\* Stop and a flush return though the source thread may be blocked downstream
\* (transfrm.cpp lines 467 to 490 and 503 to 530).
Waits == pcApp # "idle"
=============================================================================
