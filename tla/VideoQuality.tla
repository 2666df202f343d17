---------------------------- MODULE VideoQuality ----------------------------
(***************************************************************************)
(* The quality management of CBaseVideoRenderer: for every frame it        *)
(* decides whether to drop it, to draw it at once or when it is due, tells *)
(* the supplier how late it is, and keeps the statistics that the property *)
(* page shows.                                                             *)
(*                                                                         *)
(* Times are in milliseconds (the code's 10000 UNITs), quotients truncate; *)
(* they have 64 bits, what is made of them for a quality message has 32.   *)
(* A frame is scheduled and, unless it is dropped, rendered; the thread    *)
(* that does both holds the renderer's locks.                              *)
(***************************************************************************)
EXTENDS Integers

CONSTANTS MaxFrames,    \* bound: frames of a streaming period
          MaxRuns,      \* bound: streaming periods
          Elapsed,      \* bound: time between frames
          Lateness,     \* bound: how late a frame is, negative when early
          Durations,    \* bound: the duration a frame is stamped with
          DrawTimes,    \* bound: how long drawing takes
          Proportions,  \* bound: what another renderer's message asks for
          LongMax       \* the greatest number of 32 bits

AVGPERIOD == 4
Quot(a, b) == IF a >= 0 THEN a \div b ELSE -((-a) \div b)
DO_MOVING_AVG(avg, obs) == Quot(obs + (AVGPERIOD - 1) * avg, AVGPERIOD)
Least(a, b) == IF a < b THEN a ELSE b

\* Positive times are cut to 32 bits.
Long(t) == IF t <= LongMax THEN t ELSE ((t + LongMax + 1) % (2 * (LongMax + 1))) - (LongMax + 1)

VARIABLES
    sinceLastDraw,                              \* stream time less m_trLastDraw
    m_trFrameAvg, m_trDuration, m_trWaitAvg, m_trEarliness, m_nNormal,
    m_trRenderAvg, m_trRenderLast, m_trThrottle,
    m_trLate, m_trFrame,                        \* of the frame that is scheduled
    m_cFramesDrawn, m_cFramesDropped,
    m_iTotAcc, m_iSumSqAcc, m_iSumFrameTime, m_iSumSqFrameTime,
    proportion,                                 \* of the last quality message
    pc, runs

pace  == <<m_trFrameAvg, m_trDuration, m_trWaitAvg, m_trEarliness, m_nNormal>>
draw  == <<m_trRenderAvg, m_trRenderLast>>
perf  == <<m_trLate, m_trFrame>>
stats == <<m_cFramesDrawn, m_iTotAcc, m_iSumSqAcc, m_iSumFrameTime, m_iSumSqFrameTime>>
vars  == <<sinceLastDraw, pace, draw, perf, stats, m_trThrottle, m_cFramesDropped, proportion, pc, runs>>

Init ==
    /\ sinceLastDraw = 0 /\ pc = "stopped" /\ runs = 0 /\ proportion = 1000
    /\ m_trFrameAvg = -1 /\ m_trDuration = 0 /\ m_trWaitAvg = 0
    /\ m_trEarliness = 0 /\ m_nNormal = 0 /\ m_trRenderAvg = 0 /\ m_trRenderLast = 0
    /\ m_trThrottle = 0 /\ m_trLate = 0 /\ m_trFrame = 0
    /\ m_cFramesDrawn = 0 /\ m_cFramesDropped = 0 /\ m_iTotAcc = 0 /\ m_iSumSqAcc = 0
    /\ m_iSumFrameTime = 0 /\ m_iSumSqFrameTime = 0

\* The first frame is drawn: as if none had been for ages.
ResetStreamingTimes ==
    /\ pc = "stopped" /\ runs < MaxRuns /\ runs' = runs + 1 /\ pc' = "idle" /\ sinceLastDraw' = 1000
    /\ m_trFrameAvg' = -1 /\ m_trDuration' = 0 /\ m_trWaitAvg' = 0
    /\ m_trEarliness' = 0 /\ m_nNormal' = 0 /\ m_trRenderAvg' = 0 /\ m_trRenderLast' = 0
    /\ m_trThrottle' = 0 /\ m_trLate' = 0 /\ m_trFrame' = 0
    /\ m_cFramesDrawn' = 0 /\ m_cFramesDropped' = 0 /\ m_iTotAcc' = 0 /\ m_iSumSqAcc' = 0
    /\ m_iSumFrameTime' = 0 /\ m_iSumSqFrameTime' = 0
    /\ UNCHANGED proportion

OnStopStreaming ==
    /\ pc = "idle" /\ pc' = "stopped"
    /\ UNCHANGED <<sinceLastDraw, pace, draw, perf, stats, m_trThrottle, m_cFramesDropped, proportion, runs>>
-----------------------------------------------------------------------------
\* SendQuality: the rate asked of the supplier, in thousandths.

\* Fault: a frame that is very late is not thought of.
ProportionUnclipped(late) ==
    IF m_trFrameAvg < 0 THEN 1000 ELSE IF late > 0 THEN 1000 - late ELSE 1000

Proportion(late) ==
    IF m_trFrameAvg < 0 THEN 1000
    ELSE IF late > 0 THEN IF 1000 - Long(late) < 500 THEN 500 ELSE 1000 - Long(late)
    ELSE IF m_trWaitAvg > 2 /\ late < -2
    THEN IF m_trWaitAvg >= m_trFrameAvg THEN 2000
         ELSE IF m_trFrameAvg + 2 > m_trWaitAvg
         THEN Least(2000, Long(1000 * Quot(m_trFrameAvg, m_trFrameAvg + 2 - m_trWaitAvg)))
         ELSE 2000
    ELSE 1000

\* Notify: the audio filter's message sets how long to sleep after each frame.
Throttle(p) == IF p >= 1000 THEN 0 ELSE (-330000 + 388880000 \div (p + 167)) \div 10000

Notify ==
    /\ pc = "idle" /\ \E p \in Proportions : m_trThrottle' = Throttle(p)
    /\ UNCHANGED <<sinceLastDraw, pace, draw, perf, stats, m_cFramesDropped, proportion, pc, runs>>
-----------------------------------------------------------------------------
\* ShouldDrawSampleNow.

\* A change of the frame rate is taken over at once.
Paced(duration) ==
    LET t == m_trDuration \div 32 IN
    IF duration > m_trDuration + t \/ duration < m_trDuration - t
    THEN [avg |-> duration, duration |-> duration]
    ELSE [avg |-> m_trFrameAvg, duration |-> m_trDuration]

\* How early frames are drawn: it slides back after a slow spell.
Earliness(late, justDropped) ==
    IF late > 0 THEN 0
    ELSE IF late >= m_trEarliness \/ justDropped THEN late
    ELSE m_trEarliness - Quot(m_trEarliness, 8)

WaitAvg(late) == DO_MOVING_AVG(m_trWaitAvg, IF late < 0 THEN -late ELSE 0)

\* Dropping it would not help, or it is not that late, or the last one drawn is
\* more than a second ago.
DrawFrame(late, duration, avg, handled, since) ==
    \/ 3 * m_trRenderAvg <= avg
    \/ (IF handled THEN late <= duration * 4 ELSE late + late < duration)
    \/ m_trWaitAvg > 8
    \/ since > 1000

PlayASAP(late, duration, avg, justDropped) ==
    /\ justDropped \/ (avg > duration + duration \div 16 /\ late > -(duration * 10))
    /\ late >= -900

\* Drawn at once, in "slow machine mode".
DrawNow(late, paced, earliness, frame) ==
    /\ m_nNormal' = 0 /\ sinceLastDraw' = 0
    /\ m_trWaitAvg' = DO_MOVING_AVG(m_trWaitAvg, 0)
    /\ m_trFrameAvg' = DO_MOVING_AVG(paced.avg, frame)
    /\ m_trEarliness' = Least(earliness, late)
    /\ m_trLate' = late /\ m_trFrame' = frame

\* Drawn when it is due, somewhat early; or at once when that has passed.
DrawWhenDue(late, paced, earliness, since, frame) ==
    LET early == IF earliness < -paced.duration THEN -paced.duration ELSE earliness
        waits == late < 0
    IN  /\ m_nNormal' = m_nNormal + 1 /\ m_trFrameAvg' = paced.duration
        /\ m_trWaitAvg' = WaitAvg(late) /\ m_trEarliness' = earliness
        /\ sinceLastDraw' = IF waits THEN late - early ELSE 0
        /\ m_trFrame' = IF waits THEN since - late + early ELSE frame
        /\ m_trLate' = IF waits THEN early ELSE late

Drop(late, paced, earliness, since) ==
    /\ m_nNormal' = -1 /\ m_trWaitAvg' = WaitAvg(late) /\ m_trFrameAvg' = paced.avg
    /\ m_trEarliness' = earliness /\ m_cFramesDropped' = m_cFramesDropped + 1 /\ pc' = "idle"
    /\ sinceLastDraw' = since /\ UNCHANGED perf

ScheduleSample ==
    /\ pc = "idle" /\ m_cFramesDrawn + m_cFramesDropped < MaxFrames
    /\ \E e \in Elapsed, late \in Lateness, duration \in Durations, handled, gap \in BOOLEAN :
          LET since == sinceLastDraw + e
              paced == Paced(duration)
              justDropped == (handled /\ gap) \/ m_nNormal = -1
              earliness == Earliness(late, justDropped)
              frame == Least(since, 1000)
          IN  /\ proportion' = Proportion(late) /\ m_trDuration' = paced.duration
              /\ gap => handled
              /\ IF DrawFrame(late, duration, paced.avg, handled, since)
                 THEN /\ pc' = "scheduled" /\ UNCHANGED m_cFramesDropped
                      /\ IF PlayASAP(late, duration, paced.avg, justDropped)
                         THEN DrawNow(late, paced, earliness, frame)
                         ELSE DrawWhenDue(late, [paced EXCEPT !.duration = duration],
                                          earliness, since, frame)
                 ELSE Drop(late, paced, earliness, since)
    /\ UNCHANGED <<draw, stats, m_trThrottle, runs>>
-----------------------------------------------------------------------------
\* Rendering.

Clipped(t) == IF t > 1000 THEN (IF m_cFramesDrawn <= 1 THEN 0 ELSE 1000)
              ELSE IF t < -1000 THEN (IF m_cFramesDrawn <= 1 THEN 0 ELSE -1000) ELSE t

\* Fault: the first frame counts.
RecordEveryFrame ==
    LET late == Clipped(m_trLate) IN
    /\ m_cFramesDrawn' = m_cFramesDrawn + 1 /\ m_iTotAcc' = m_iTotAcc + late
    /\ m_iSumSqAcc' = m_iSumSqAcc + late * late
    /\ UNCHANGED <<m_iSumFrameTime, m_iSumSqFrameTime>>

\* The sums leave out the first frames, whose times mean nothing.
RecordFrameLateness ==
    LET late == Clipped(m_trLate)
        frame == IF m_trFrame > 1000 \/ m_trFrame < 0 THEN 1000 ELSE m_trFrame
        counts == m_cFramesDrawn > 1
        timed == m_cFramesDrawn > 2
    IN  /\ m_iTotAcc' = m_iTotAcc + IF counts THEN late ELSE 0
        /\ m_iSumSqAcc' = m_iSumSqAcc + IF counts THEN late * late ELSE 0
        /\ m_iSumFrameTime' = m_iSumFrameTime + IF timed THEN frame ELSE 0
        /\ m_iSumSqFrameTime' = m_iSumSqFrameTime + IF timed THEN frame * frame ELSE 0
        /\ m_cFramesDrawn' = m_cFramesDrawn + 1

\* The average leaves out a spike, unless the last frame was one too.
OnRenderEnd(tr) ==
    /\ m_trRenderAvg' = IF tr < 2 * m_trRenderAvg \/ tr < 2 * m_trRenderLast
                        THEN DO_MOVING_AVG(m_trRenderAvg, tr) ELSE m_trRenderAvg
    /\ m_trRenderLast' = tr

Render ==
    /\ pc = "scheduled" /\ pc' = "idle" /\ RecordFrameLateness
    /\ \E tr \in DrawTimes : OnRenderEnd(tr) /\ sinceLastDraw' = sinceLastDraw + tr + m_trThrottle
    /\ UNCHANGED <<pace, perf, m_trThrottle, m_cFramesDropped, proportion, runs>>

\* The supplier drew it: the average says nothing, the next time is believed.
OnDirectRender ==
    /\ pc = "scheduled" /\ pc' = "idle" /\ RecordFrameLateness
    /\ m_trRenderAvg' = 0 /\ m_trRenderLast' = 500 /\ sinceLastDraw' = sinceLastDraw + m_trThrottle
    /\ UNCHANGED <<pace, perf, m_trThrottle, m_cFramesDropped, proportion, runs>>
-----------------------------------------------------------------------------
\* The property page.

\* (S - T*T/N) / (N - 1), for which GetStdDev asserts that it is not negative.
Variance(n, sumSq, total) ==
    IF n <= 1 THEN 0 ELSE Quot(sumSq - (total * total) \div n, n - 1)

get_DevSyncOffset == Variance(m_cFramesDrawn - 1, m_iSumSqAcc, m_iTotAcc)
get_Jitter == Variance(m_cFramesDrawn - 2, m_iSumSqFrameTime, m_iSumFrameTime)
get_AvgSyncOffset == IF m_cFramesDrawn <= 1 THEN 0 ELSE Quot(m_iTotAcc, m_cFramesDrawn - 1)
-----------------------------------------------------------------------------
Next == \/ ResetStreamingTimes \/ OnStopStreaming \/ Notify
        \/ ScheduleSample \/ Render \/ OnDirectRender

Spec == Init /\ [][Next]_vars
-----------------------------------------------------------------------------
\* The sums and the count that goes with them never drift apart: no square root
\* of a negative number is asked for (lines 1957 to 1963 and 2784), an average
\* is not further off than the clipping allows, and the rate asked for stays
\* between half and double (lines 2211 and 2240).
QualityInRange ==
    /\ get_DevSyncOffset >= 0 /\ get_Jitter >= 0
    /\ get_AvgSyncOffset \in -1000..1000
    /\ proportion \in 500..2000 /\ m_trThrottle \in 0..200
=============================================================================
