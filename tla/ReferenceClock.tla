--------------------------- MODULE ReferenceClock ---------------------------
(***************************************************************************)
(* CBaseReferenceClock (refclock.cpp) with its schedule CAMSchedule        *)
(* (schedule.cpp): a clock that tells its callers when a time has come.    *)
(* Callers add and cancel advises, once or periodic, ask for the time and  *)
(* adjust it; the clock's thread sleeps until the first advise is due or   *)
(* the event of the schedule is set.                                       *)
(* A tick is a millisecond.  The system's millisecond counter wraps: the   *)
(* instances start it shortly before.                                      *)
(***************************************************************************)
EXTENDS Integers, Sequences

CONSTANTS
    Cycle,        \* the values of the system's counter, 2^32 in the code
    FirstTick,    \* its value when the clock is made
    MaxTicks,     \* bound: how long it runs; the last tick stands for all later time
    AdviseTimes,  \* the times that are asked for
    MaxCalls      \* bound: advises asked for and adjustments of the clock, together

LastTick == FirstTick + MaxTicks
INFINITE == 3 * LastTick    \* longer than any other wait

VARIABLES
    advises,               \* the packets between head and z
    m_dwAdviseCount, m_dwNextCookie,
    m_ev,                  \* the event of the schedule, it resets itself
    ticks,                 \* milliseconds, from the start of the system
    m_dwPrevSystemTime, m_rtPrivateTime, m_rtLastGotTime,
    m_bAbort,
    pc, rtNow, dwWait,     \* of the thread
    since,                 \* when its wait began
    deltas, adjusted,      \* how often and by how much the clock was adjusted
    seen,                  \* by how much when the thread last asked for the time
    asked, overdue         \* observed: when the time was asked for; once too late

schedule == <<advises, m_dwAdviseCount, m_dwNextCookie>>
time == <<m_dwPrevSystemTime, m_rtPrivateTime, asked, overdue>>
thread == <<pc, rtNow, dwWait, since, seen>>
adjustments == <<deltas, adjusted>>
vars == <<schedule, m_ev, ticks, time, m_rtLastGotTime, m_bAbort, thread, adjustments>>

Init ==
    /\ advises = << >> /\ m_dwAdviseCount = 0 /\ m_dwNextCookie = 0 /\ m_ev = FALSE
    /\ ticks = FirstTick /\ m_dwPrevSystemTime = FirstTick % Cycle
    /\ m_rtPrivateTime = FirstTick /\ m_rtLastGotTime = 0
    /\ m_bAbort = FALSE
    /\ pc = "wait" /\ rtNow = 0 /\ dwWait = INFINITE /\ since = FirstTick
    /\ deltas = 0 /\ adjusted = 0 /\ seen = 0
    /\ asked = FirstTick /\ overdue = FALSE

Packet(t, period, cookie) == [time |-> t, period |-> period, cookie |-> cookie]

\* The packet goes before the first of the list whose time is t or later.
Inserted(list, p, t) ==
    LET before == {i \in DOMAIN list : \A j \in 1..i : list[j].time < t}
    IN  [i \in 1..(Len(list) + 1) |->
            IF i \in before THEN list[i]
            ELSE IF i - 1 \in before \cup {0} THEN p ELSE list[i - 1]]

\* The schedule is locked while the thread works through it.
Unlocked == pc # "advise"

\* timeGetTime wraps.
SystemTime == ticks % Cycle

\* Fault: the difference is taken as it is.
ElapsedSigned == SystemTime - m_dwPrevSystemTime

\* The difference wraps too, to a DWORD, which Int32x32To64 takes for a signed number.
Elapsed ==
    LET difference == (SystemTime - m_dwPrevSystemTime) % Cycle
    IN  IF 2 * difference < Cycle THEN difference ELSE difference - Cycle

\* The time between two readings is not supposed to be as long as that.
InTime == 2 * (ticks - asked) < Cycle

GetPrivateTime ==
    /\ m_rtPrivateTime' = m_rtPrivateTime + Elapsed
    /\ m_dwPrevSystemTime' = SystemTime
    /\ asked' = ticks /\ overdue' = (overdue \/ ~InTime)

-----------------------------------------------------------------------------
\* Fault: the thread is woken only for the first packet of all.
AddForFirst(t, period) ==
    /\ Unlocked /\ ~m_bAbort /\ m_dwNextCookie + deltas < MaxCalls
    /\ m_dwNextCookie' = m_dwNextCookie + 1
    /\ advises' = Inserted(advises, Packet(t, period, m_dwNextCookie'), t)
    /\ m_dwAdviseCount' = m_dwAdviseCount + 1
    /\ m_ev' = (m_ev \/ advises = << >>)
    /\ UNCHANGED <<ticks, time, m_rtLastGotTime, m_bAbort, thread, adjustments>>

\* AdviseTime and AdvisePeriodic: a packet at the head wakes the thread.
AddAdvisePacket(t, period) ==
    /\ Unlocked /\ ~m_bAbort /\ m_dwNextCookie + deltas < MaxCalls
    /\ m_dwNextCookie' = m_dwNextCookie + 1
    /\ advises' = Inserted(advises, Packet(t, period, m_dwNextCookie'), t)
    /\ m_dwAdviseCount' = m_dwAdviseCount + 1
    /\ m_ev' = (m_ev \/ advises'[1].cookie = m_dwNextCookie')
    /\ UNCHANGED <<ticks, time, m_rtLastGotTime, m_bAbort, thread, adjustments>>

Unadvise == \E i \in DOMAIN advises :
    /\ Unlocked /\ ~m_bAbort
    /\ advises' = SubSeq(advises, 1, i - 1) \o SubSeq(advises, i + 1, Len(advises))
    /\ m_dwAdviseCount' = m_dwAdviseCount - 1
    /\ UNCHANGED <<m_dwNextCookie, m_ev, ticks, time, m_rtLastGotTime, m_bAbort, thread,
                   adjustments>>

GetTime ==
    /\ ~m_bAbort
    /\ GetPrivateTime
    /\ m_rtLastGotTime' = IF m_rtPrivateTime' > m_rtLastGotTime THEN m_rtPrivateTime'
                          ELSE m_rtLastGotTime
    /\ UNCHANGED <<schedule, m_ev, ticks, m_bAbort, thread, adjustments>>

\* Forwards, the thread has to look at its wait again.
SetTimeDelta(delta) ==
    /\ ~m_bAbort /\ m_dwNextCookie + deltas < MaxCalls
    /\ deltas' = deltas + 1 /\ adjusted' = adjusted + delta
    /\ m_rtPrivateTime' = m_rtPrivateTime + delta
    /\ m_ev' = (m_ev \/ (delta > 0 /\ m_dwAdviseCount > 0))
    /\ UNCHANGED <<schedule, ticks, m_dwPrevSystemTime, asked, overdue, m_rtLastGotTime,
                   m_bAbort, thread>>

\* The destructor.
Abort ==
    /\ ~m_bAbort /\ m_bAbort' = TRUE /\ m_ev' = TRUE
    /\ UNCHANGED <<schedule, ticks, time, m_rtLastGotTime, thread, adjustments>>

Tick ==
    /\ ticks < LastTick
    /\ ticks' = ticks + 1
    /\ UNCHANGED <<schedule, m_ev, time, m_rtLastGotTime, m_bAbort, thread, adjustments>>

-----------------------------------------------------------------------------
\* A wait that is over, and the time it was for, are not looked at again.
WaitOver == rtNow' = 0 /\ dwWait' = INFINITE /\ since' = FirstTick /\ seen' = 0

\* AdviseThread: the wait ends with the event or in its time.
Wake ==
    /\ pc = "wait"
    /\ m_ev \/ (dwWait # INFINITE /\ (ticks >= since + dwWait \/ ticks = LastTick))
    /\ m_ev' = FALSE
    /\ pc' = IF m_bAbort THEN "ended" ELSE "woken"
    /\ WaitOver
    /\ UNCHANGED <<schedule, ticks, time, m_rtLastGotTime, m_bAbort, adjustments>>

Now ==
    /\ pc = "woken" /\ pc' = "advise"
    /\ GetPrivateTime /\ rtNow' = m_rtPrivateTime' /\ seen' = adjusted
    /\ UNCHANGED <<schedule, m_ev, ticks, m_rtLastGotTime, m_bAbort, dwWait, since, adjustments>>

\* A millisecond is added, the resolution of the wait.
HeadIsDue == advises # << >> /\ advises[1].time <= rtNow + 1

\* Fault: a periodic packet stays at the head.
ShuntNothing ==
    LET p == [advises[1] EXCEPT !.time = @ + advises[1].period]
    IN  <<p>> \o Tail(advises)

\* Behind every packet that is due no later than it is next.
ShuntHead ==
    LET p == [advises[1] EXCEPT !.time = @ + advises[1].period]
    IN  Inserted(Tail(advises), p, p.time + 1)

AdviseOne ==
    /\ pc = "advise" /\ HeadIsDue
    /\ IF advises[1].period > 0
       THEN advises' = ShuntHead /\ UNCHANGED m_dwAdviseCount
       ELSE advises' = Tail(advises) /\ m_dwAdviseCount' = m_dwAdviseCount - 1
    /\ UNCHANGED <<m_dwNextCookie, m_ev, ticks, time, m_rtLastGotTime, m_bAbort, thread,
                   adjustments>>

AdviseDone ==
    /\ pc = "advise" /\ ~HeadIsDue
    /\ IF m_bAbort THEN pc' = "ended" /\ WaitOver
       ELSE /\ dwWait' = IF advises = << >> THEN INFINITE ELSE advises[1].time - rtNow
            /\ since' = ticks /\ pc' = "wait" /\ UNCHANGED <<rtNow, seen>>
    /\ UNCHANGED <<schedule, m_ev, ticks, time, m_rtLastGotTime, m_bAbort, adjustments>>

AdviseThread == Wake \/ Now \/ AdviseOne \/ AdviseDone

Next == \/ \E t \in AdviseTimes, period \in {0, 2} : AddAdvisePacket(t, period)
        \/ Unadvise \/ GetTime \/ Abort \/ Tick
        \/ \E delta \in {-1, 2} : SetTimeDelta(delta)
        \/ AdviseThread

Fairness == WF_vars(AdviseThread) /\ WF_vars(Tick)

Spec == Init /\ [][Next]_vars /\ Fairness

-----------------------------------------------------------------------------
\* The packets are in the order of their times, also after periodic ones were moved
\* among them, and the count is that of the list (schedule.cpp lines 143 to 262).
ScheduleInOrder ==
    /\ m_dwAdviseCount = Len(advises)
    /\ \A i, j \in DOMAIN advises : i < j =>
        /\ advises[i].time <= advises[j].time \/ (i = 1 /\ pc = "advise")
        /\ advises[i].cookie # advises[j].cookie

\* The clock goes with the system's time and what it was adjusted by, however often
\* it is asked and however often the counter wraps, as long as it is asked at least once
\* in half a cycle of the counter (refclock.cpp lines 232 to 315).
ClockTime == m_rtPrivateTime + Elapsed
TimeKept == ~overdue /\ InTime => ClockTime = ticks + adjusted

\* The thread never sleeps past the advise that is due first: whatever is added, or
\* the clock put forward by, while it is about to sleep (schedule.cpp lines 190 to
\* 215, refclock.cpp lines 304 to 315 and 324 to 365).
SleepsToTheHead ==
    pc = "wait" /\ ~m_ev /\ advises # << >> =>
        dwWait <= advises[1].time - rtNow - (IF adjusted > seen THEN adjusted - seen ELSE 0)

\* An advise whose time has come by the clock is not left on the schedule: it is told,
\* or cancelled, unless the clock is deleted; its thread then ends
\* (refclock.cpp lines 56 to 65 and 324 to 365).
Waits ==
    \/ m_bAbort /\ pc # "ended"
    \/ ~m_bAbort /\ \E i \in DOMAIN advises : advises[i].time <= ClockTime
=============================================================================
