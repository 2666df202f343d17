--------------------------- MODULE StreamControl ---------------------------
(***************************************************************************)
(* CBaseStreamControl (strmctl.cpp): lets an application say from when to  *)
(* when a pin passes its samples on.  The streaming thread asks about each *)
(* sample and is told to let it flow or to discard it, and is held until   *)
(* then where a sample is not to be discarded before its time.  The        *)
(* application's thread asks for a start or a stop, now or at a time,      *)
(* cancels them, runs, pauses and stops the filter, flushes it and changes *)
(* its clock.                                                              *)
(* Times are stream times.  The notification that goes with a start or a   *)
(* stop is left out.                                                       *)
(***************************************************************************)
EXTENDS Integers

CONSTANTS
    LastTime,    \* the last time that is asked for
    Samples      \* the samples, as pairs of a start and a stop time

MAX_TIME == LastTime + 1    \* no start, or no stop, is asked for
Untimed == <<MAX_TIME, MAX_TIME>>    \* a sample without times

VARIABLES
    m_StreamState, m_StreamStateOnStop,    \* "FLOWING" or "DISCARDING"
    m_tStartTime, m_tStopTime,
    m_bStopSendExtra, m_bStopExtraSent,
    m_StreamEvent,                         \* an event that resets itself
    m_FilterState, m_bIsFlushing,
    clock,                                 \* m_pRefClock is not NULL
    now,                                   \* what the clock says
    pc, sample                             \* of the streaming thread

plan == <<m_StreamState, m_StreamStateOnStop, m_tStartTime, m_tStopTime>>
extra == <<m_bStopSendExtra, m_bStopExtraSent>>
graph == <<m_FilterState, m_bIsFlushing, clock>>
stream == <<pc, sample>>
vars == <<plan, extra, m_StreamEvent, graph, now, stream>>

Times == 0..LastTime

Init ==
    /\ m_StreamState = "FLOWING" /\ m_StreamStateOnStop = "FLOWING"
    /\ m_tStartTime = MAX_TIME /\ m_tStopTime = MAX_TIME
    /\ m_bStopSendExtra = FALSE /\ m_bStopExtraSent = FALSE
    /\ m_StreamEvent = FALSE
    /\ m_FilterState = "Stopped" /\ m_bIsFlushing = FALSE /\ clock = TRUE
    /\ now = 0 /\ pc = "idle" /\ sample = Untimed

\* The state of the stream and what is pending, for the functions that change both.
Plan(state, onStop, start, stop) ==
    [state |-> state, onStop |-> onStop, start |-> start, stop |-> stop]

Current == Plan(m_StreamState, m_StreamStateOnStop, m_tStartTime, m_tStopTime)

SetPlan(p) ==
    /\ m_StreamState' = p.state /\ m_StreamStateOnStop' = p.onStop
    /\ m_tStartTime' = p.start /\ m_tStopTime' = p.stop

CancelStop(p) == [p EXCEPT !.stop = MAX_TIME, !.onStop = "FLOWING"]
CancelStart(p) == [p EXCEPT !.start = MAX_TIME]
ExecuteStop(p) == CancelStop([p EXCEPT !.state = p.onStop])
ExecuteStart(p) == CancelStart([p EXCEPT !.state = "FLOWING"])

-----------------------------------------------------------------------------
\* StopAt at a time, StopAt now, and StopAt(MAX_TIME), which cancels it.
StopAt == \E t \in Times, sendExtra \in BOOLEAN :
    /\ SetPlan([Current EXCEPT
           !.state = IF m_FilterState = "Stopped" /\ m_tStartTime > t THEN "FLOWING" ELSE @,
           !.stop = t, !.onStop = "DISCARDING"])
    /\ m_bStopSendExtra' = sendExtra /\ m_bStopExtraSent' = FALSE
    /\ m_StreamEvent' = TRUE
    /\ UNCHANGED <<graph, now, stream>>

StopNow ==
    /\ SetPlan([CancelStop(Current) EXCEPT !.state = "DISCARDING"])
    /\ m_bStopSendExtra' = FALSE /\ m_bStopExtraSent' = FALSE
    /\ m_StreamEvent' = TRUE
    /\ UNCHANGED <<graph, now, stream>>

StopCancelled ==
    /\ SetPlan([CancelStop(Current) EXCEPT
           !.state = IF m_FilterState = "Stopped" /\ m_tStartTime < MAX_TIME
                     THEN "DISCARDING" ELSE @])
    /\ m_bStopSendExtra' = FALSE /\ m_bStopExtraSent' = FALSE
    /\ UNCHANGED <<m_StreamEvent, graph, now, stream>>

StartAt == \E t \in Times :
    /\ SetPlan([Current EXCEPT
           !.state = IF m_FilterState = "Stopped" /\ m_tStopTime >= t
                     THEN "DISCARDING" ELSE @,
           !.start = t])
    /\ m_StreamEvent' = TRUE
    /\ UNCHANGED <<extra, graph, now, stream>>

\* Fault: a sample that is held is not looked at again.
StartQuietly ==
    /\ SetPlan(ExecuteStart(Current))
    /\ UNCHANGED <<extra, m_StreamEvent, graph, now, stream>>

StartNow ==
    /\ SetPlan(ExecuteStart(Current))
    /\ m_StreamEvent' = TRUE
    /\ UNCHANGED <<extra, graph, now, stream>>

StartCancelled ==
    /\ SetPlan([CancelStart(Current) EXCEPT
           !.state = IF m_FilterState = "Stopped" /\ m_tStopTime < MAX_TIME
                     THEN "FLOWING" ELSE @])
    /\ UNCHANGED <<extra, m_StreamEvent, graph, now, stream>>

\* What is pending when the filter stops is executed in its order.
AllExecuted(p) ==
    IF p.start = MAX_TIME /\ p.stop = MAX_TIME THEN p
    ELSE IF p.stop = MAX_TIME THEN ExecuteStart(p)
    ELSE IF p.start = MAX_TIME THEN ExecuteStop(p)
    ELSE IF p.start <= p.stop THEN ExecuteStop(ExecuteStart(p))
    ELSE ExecuteStart(ExecuteStop(p))

NotifyFilterState == \E new \in {"Stopped", "Paused", "Running"} :
    /\ new # m_FilterState
    /\ m_FilterState' = new
    /\ IF new = "Stopped" THEN SetPlan([AllExecuted(Current) EXCEPT !.state = "FLOWING"])
       ELSE UNCHANGED plan
    /\ now' = IF new = "Running" THEN 0 ELSE now
    /\ m_StreamEvent' = TRUE
    /\ UNCHANGED <<extra, m_bIsFlushing, clock, stream>>

\* The filter ends a flush when the streaming thread has left it.
Flushing ==
    /\ m_bIsFlushing => pc = "idle"
    /\ m_bIsFlushing' = ~m_bIsFlushing
    /\ m_StreamEvent' = TRUE
    /\ UNCHANGED <<plan, extra, m_FilterState, clock, now, stream>>

SetSyncSource ==
    /\ clock' = ~clock
    /\ UNCHANGED <<plan, extra, m_StreamEvent, m_FilterState, m_bIsFlushing, now, stream>>

\* Bound: the clock runs until no sample is waited for.
Tick ==
    /\ m_FilterState = "Running" /\ \E s \in Samples : now < s[1]
    /\ now' = now + 1
    /\ UNCHANGED <<plan, extra, m_StreamEvent, graph, stream>>

-----------------------------------------------------------------------------
\* Fault: a stop at the very start of a sample is taken to be before it.
JudgedEarly(p, first, last) ==
    IF p.stop > first
    THEN IF p.start >= last THEN p
         ELSE ExecuteStart(IF p.stop < p.start THEN ExecuteStop(p) ELSE p)
    ELSE IF p.start >= last THEN ExecuteStop(p)
    ELSE IF p.start <= p.stop THEN ExecuteStop(ExecuteStart(p))
    ELSE ExecuteStart(ExecuteStop(p))

\* CheckSampleTimes: what is due by the sample is executed.
Judged(p, first, last) ==
    IF p.stop >= first
    THEN IF p.start >= last THEN p
         ELSE ExecuteStart(IF p.stop < p.start THEN ExecuteStop(p) ELSE p)
    ELSE IF p.start >= last THEN ExecuteStop(p)
    ELSE IF p.start <= p.stop THEN ExecuteStop(ExecuteStart(p))
    ELSE ExecuteStart(ExecuteStop(p))

CheckStreamState == \E s \in Samples \cup {Untimed} :
    /\ pc = "idle" /\ pc' = "check" /\ sample' = s
    /\ UNCHANGED <<plan, extra, m_StreamEvent, graph, now>>

Answered == pc' = "idle" /\ sample' = Untimed

\* The head of the loop looks at the filter without the lock; a sample without
\* times is judged by the state of the stream.
CheckFilter ==
    /\ pc = "check"
    /\ IF m_bIsFlushing \/ m_FilterState = "Stopped" \/ sample = Untimed THEN Answered
       ELSE pc' = "times" /\ UNCHANGED sample
    /\ UNCHANGED <<plan, extra, m_StreamEvent, graph, now>>

\* The sample is judged; one that is to be discarded may be the extra one that a
\* stop asked for, and else waits for its time, or for another state while paused.
CheckTimes == \E p \in {Judged(Current, sample[1], sample[2])} :
    /\ pc = "times"
    /\ SetPlan(p)
    /\ LET sendExtra == m_bStopSendExtra /\ ~m_bStopExtraSent /\ p.stop = MAX_TIME
                            /\ m_FilterState # "Stopped"
           hold == m_FilterState = "Paused" \/ now < sample[1]
       IN  IF p.state = "DISCARDING" /\ ~sendExtra /\ clock /\ hold
           THEN pc' = "wait" /\ UNCHANGED <<sample, extra>>
           ELSE /\ Answered
                /\ m_bStopExtraSent' = (m_bStopExtraSent \/ (p.state = "DISCARDING" /\ sendExtra))
                /\ UNCHANGED m_bStopSendExtra
    /\ UNCHANGED <<m_StreamEvent, graph, now>>

Woken ==
    /\ pc = "wait" /\ m_StreamEvent
    /\ m_StreamEvent' = FALSE /\ pc' = "check"
    /\ UNCHANGED <<plan, extra, graph, now, sample>>

\* The wait lasts to the time of the sample, counted while the filter runs.
TimedOut ==
    /\ pc = "wait" /\ m_FilterState = "Running" /\ now >= sample[1]
    /\ Answered
    /\ UNCHANGED <<plan, extra, m_StreamEvent, graph, now>>

StreamingThread == CheckFilter \/ CheckTimes \/ Woken \/ TimedOut

Next == \/ StopAt \/ StopNow \/ StopCancelled
        \/ StartAt \/ StartNow \/ StartCancelled
        \/ NotifyFilterState \/ Flushing \/ SetSyncSource \/ Tick
        \/ CheckStreamState \/ StreamingThread

Fairness == WF_vars(StreamingThread)

Spec == Init /\ [][Next]_vars /\ Fairness

-----------------------------------------------------------------------------
\* The stream flows at time t: the last start or stop before it says so, and of two
\* at one time the start is first.
FlowsAt(p, t) ==
    IF p.stop < t /\ (p.start < t => p.start <= p.stop) THEN p.onStop = "FLOWING"
    ELSE p.start < t \/ p.state = "FLOWING"

\* A sample flows if any part of it is to be sent, and is discarded otherwise: in
\* all 19 cases that the table before CheckSampleTimes lists, whatever was asked
\* for and cancelled before (strmctl.cpp lines 189 to 273).
FlowsIfAnyPartDoes == \A first, last \in Times : first < last =>
    LET p == Judged(Current, first, last)
    IN  /\ p.state = "FLOWING"
               <=> FlowsAt(Current, first) \/ m_tStartTime \in first..(last - 1)
        /\ \A t \in last..MAX_TIME : FlowsAt(p, t) = FlowsAt(Current, t)

\* A sample that is held is let go when the filter flushes or stops, or when the
\* stream flows again: nobody changes the plan without telling the thread that
\* waits (strmctl.cpp lines 77 to 79, 118 to 120, 287 to 339 and 392 to 401).
Waits ==
    \/ pc # "idle" /\ (m_bIsFlushing \/ m_FilterState = "Stopped")
    \/ pc = "wait" /\ m_StreamState = "FLOWING"
=============================================================================
