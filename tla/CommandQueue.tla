---------------------------- MODULE CommandQueue ----------------------------
(***************************************************************************)
(* CCmdQueue and its CDeferredCommands: commands to execute at a           *)
(* presentation time or, while the filter runs, at a stream time.  The     *)
(* clock is asked to signal an event at the time of the earliest.          *)
(*                                                                         *)
(* The application queues, postpones and cancels commands; a worker waits  *)
(* in GetDueCommand and invokes what it is given.  The clock may be        *)
(* replaced or removed at any time; another one shows another time.        *)
(* Reference counts are left out.                                          *)
(***************************************************************************)
EXTENDS Integers, Sequences, Functions

CONSTANTS Commands,     \* the commands, each created once
          MaxTime       \* bound: the time at which the model stops

VARIABLES
    m_bStream, m_time,       \* the commands: of which kind, for when
    m_pQueue,                \* "new", "set", or "NULL"
    m_listPresentation, m_listStream,
    postponed,               \* those that Postpone has taken off and not yet put back
    m_pClock, m_bRunning, m_StreamTimeOffset,
    m_tCurrentAdvise, pending, m_evDue,   \* asked for; what the clock will signal
    now,                     \* the time that the clock shows
    pcWorker, pCmd,          \* the worker and the command it was given
    lost                     \* history: is m_tCurrentAdvise of a clock that was unset

queue  == <<m_listPresentation, m_listStream, postponed>>
advise == <<m_tCurrentAdvise, pending, m_evDue, lost>>
worker == <<pcWorker, pCmd>>
vars == <<m_bStream, m_time, m_pQueue, queue, m_pClock, m_bRunning, m_StreamTimeOffset,
          advise, now, worker>>

NoCommand == 0
Times == 1..MaxTime

Init ==
    /\ m_bStream \in [Commands -> BOOLEAN] /\ m_time = [c \in Commands |-> 0]
    /\ m_pQueue = [c \in Commands |-> "new"]
    /\ m_listPresentation = << >> /\ m_listStream = << >> /\ postponed = {}
    /\ m_pClock = FALSE /\ m_bRunning = FALSE /\ m_StreamTimeOffset = 0
    /\ m_tCurrentAdvise = 0 /\ pending = 0 /\ m_evDue = FALSE /\ now = 0
    /\ pcWorker = "out" /\ pCmd = NoCommand /\ lost = FALSE
-----------------------------------------------------------------------------
\* The two lists and the advice.

\* When the first command of each list is due, 0 for never.
PresentationDue(list, time) == IF list = << >> THEN 0 ELSE time[Head(list)]
StreamDue(list, time, running, offset) ==
    IF list = << >> \/ ~running THEN 0 ELSE time[Head(list)] + offset

Earliest(p, s) == IF p = 0 THEN s ELSE IF s = 0 \/ p <= s THEN p ELSE s

\* The event is reset in any case; a different time replaces the advice that was
\* left, which may be none.
Advise(clock, current, left, lostOne) ==
    IF clock /\ current # 0 /\ current # m_tCurrentAdvise
    THEN /\ m_tCurrentAdvise' = current /\ lost' = FALSE
         /\ m_evDue' = (current <= now') /\ pending' = IF current <= now' THEN 0 ELSE current
    ELSE /\ m_evDue' = (m_evDue /\ ~clock) /\ pending' = left /\ lost' = lostOne
         /\ UNCHANGED m_tCurrentAdvise

DueThen == Earliest(PresentationDue(m_listPresentation', m_time'),
                    StreamDue(m_listStream', m_time', m_bRunning', m_StreamTimeOffset'))

SetTimeAdvise == Advise(m_pClock', DueThen, pending, lost)

\* Fault: at the tail.
AtTail(list, c) == Append(list, c)

\* Behind all commands that are due earlier or at the same time.
AfterEquals(list, c) ==
    LET before == {k \in DOMAIN list : \A j \in 1..k : m_time'[list[j]] <= m_time'[c]}
    IN  [k \in 1..(Len(list) + 1) |-> IF k \in before THEN list[k]
                                     ELSE IF k - 1 \in before \cup {0} THEN c ELSE list[k - 1]]

Insert(c, presentation, stream) ==
    /\ m_listStream' = IF m_bStream[c] THEN AfterEquals(stream, c) ELSE stream
    /\ m_listPresentation' = IF m_bStream[c] THEN presentation ELSE AfterEquals(presentation, c)

Without(list, c) ==
    IF c \notin Range(list) THEN list
    ELSE LET before == {k \in DOMAIN list : \A j \in 1..k : list[j] # c}
         IN  [k \in 1..(Len(list) - 1) |-> IF k \in before THEN list[k] ELSE list[k + 1]]

Queued(c) == c \in Range(m_listPresentation) \cup Range(m_listStream)

Remove(c) ==
    /\ m_listPresentation' = Without(m_listPresentation, c)
    /\ m_listStream' = Without(m_listStream, c)
-----------------------------------------------------------------------------
\* The application.
NothingElse == UNCHANGED <<m_bStream, now, worker>>

New(c) ==
    /\ m_pQueue[c] = "new" /\ m_pQueue' = [m_pQueue EXCEPT ![c] = "set"]
    /\ \E t \in Times : m_time' = [m_time EXCEPT ![c] = t]
    /\ Insert(c, m_listPresentation, m_listStream)
    /\ UNCHANGED <<postponed, m_pClock, m_bRunning, m_StreamTimeOffset>>
    /\ NothingElse /\ SetTimeAdvise

Cancel(c) ==
    /\ m_pQueue[c] = "set" /\ Queued(c) /\ m_pQueue' = [m_pQueue EXCEPT ![c] = "NULL"]
    /\ Remove(c)
    /\ UNCHANGED <<postponed, m_time, m_pClock, m_bRunning, m_StreamTimeOffset>>
    /\ NothingElse /\ SetTimeAdvise

\* CheckTime: has the time come.
CheckTime(t, stream) ==
    m_pClock /\ (IF stream THEN m_bRunning /\ t + m_StreamTimeOffset <= now ELSE t <= now)

\* Taken off under the lock, and put back under it with the new time.  A command
\* that was invoked in between has no queue: Insert is then called on NULL.
Postpone(c) ==
    /\ m_pQueue[c] = "set" /\ Queued(c) /\ postponed' = postponed \cup {c}
    /\ \E t \in Times : ~CheckTime(t, m_bStream[c]) /\ m_time' = [m_time EXCEPT ![c] = t]
    /\ Remove(c)
    /\ UNCHANGED <<m_pQueue, m_pClock, m_bRunning, m_StreamTimeOffset>>
    /\ NothingElse /\ SetTimeAdvise

Requeue(c) ==
    /\ c \in postponed /\ m_pQueue[c] = "set" /\ postponed' = postponed \ {c}
    /\ UNCHANGED <<m_time, m_pQueue, m_pClock, m_bRunning, m_StreamTimeOffset>>
    /\ Insert(c, m_listPresentation, m_listStream)
    /\ NothingElse /\ SetTimeAdvise

\* The advice of the old clock is cancelled, and m_tCurrentAdvise stays.
SetSyncSource(pClock) ==
    /\ m_pClock' = pClock /\ now' \in IF pClock THEN 0..(MaxTime + 1) ELSE {now}
    /\ UNCHANGED <<m_bStream, m_time, m_pQueue, queue, m_bRunning, m_StreamTimeOffset, worker>>
    /\ Advise(pClock, DueThen, 0, TRUE)

Run ==
    /\ m_bRunning' = TRUE /\ m_StreamTimeOffset' \in 0..1
    /\ UNCHANGED <<m_time, m_pQueue, queue, m_pClock>>
    /\ NothingElse /\ SetTimeAdvise

EndRun ==
    /\ m_bRunning /\ m_bRunning' = FALSE
    /\ UNCHANGED <<m_time, m_pQueue, queue, m_pClock, m_StreamTimeOffset>>
    /\ NothingElse /\ SetTimeAdvise
-----------------------------------------------------------------------------
\* The clock and the worker.
Tick ==
    /\ now < MaxTime + 1 /\ now' = now + 1
    /\ IF pending # 0 /\ pending <= now' THEN m_evDue' = TRUE /\ pending' = 0
                                         ELSE UNCHANGED <<m_evDue, pending>>
    /\ UNCHANGED <<m_bStream, m_time, m_pQueue, queue, m_pClock, m_bRunning,
                   m_StreamTimeOffset, m_tCurrentAdvise, lost, worker>>

\* The earliest command of both lists, presentation first.
Next1 ==
    LET p == PresentationDue(m_listPresentation, m_time)
        s == StreamDue(m_listStream, m_time, m_bRunning, m_StreamTimeOffset)
    IN  IF p = 0 /\ s = 0 THEN NoCommand
        ELSE IF p # 0 /\ (s = 0 \/ p <= s) THEN Head(m_listPresentation) ELSE Head(m_listStream)

UnchangedQueue == UNCHANGED <<m_bStream, m_time, m_pQueue, queue, m_pClock, m_bRunning,
                              m_StreamTimeOffset, advise, now>>

\* GetDueCommand gives out the earliest command when it is due, and waits
\* otherwise; woken it looks again, as a new call does.
GetDueCommand ==
    /\ pcWorker = "out"
    /\ LET due == Next1 # NoCommand /\ CheckTime(m_time[Next1], m_bStream[Next1])
       IN  /\ pcWorker' = IF due THEN "invoke" ELSE "wait"
           /\ pCmd' = IF due THEN Next1 ELSE NoCommand
    /\ UnchangedQueue

Wake     == pcWorker = "wait" /\ m_evDue /\ pcWorker' = "out" /\ UNCHANGED pCmd /\ UnchangedQueue
TimesOut == pcWorker = "wait" /\ pcWorker' = "out" /\ UNCHANGED pCmd /\ UnchangedQueue

\* GetCommandDueFor(tStream) does not wait.
GetCommandDueFor(tStream) ==
    /\ pcWorker = "out"
    /\ LET p == IF m_listPresentation = << >> THEN NoCommand ELSE Head(m_listPresentation)
           s == IF m_listStream = << >> THEN NoCommand ELSE Head(m_listStream)
       IN  \/ p # NoCommand /\ CheckTime(m_time[p], FALSE) /\ pCmd' = p
           \/ /\ p # NoCommand => ~CheckTime(m_time[p], FALSE)
              /\ s # NoCommand /\ m_time[s] <= tStream /\ pCmd' = s
           \/ /\ p # NoCommand /\ ~CheckTime(m_time[p], FALSE)
              /\ s # NoCommand => m_time[s] > tStream
              /\ m_bRunning /\ m_time[p] <= tStream + m_StreamTimeOffset /\ pCmd' = p
    /\ pcWorker' = "invoke" /\ UnchangedQueue

\* Invoke of a command that has been cancelled meanwhile does nothing; one that is
\* being postponed is invoked, and there is nothing to remove and to advise.
InvokeCancelled ==
    /\ pcWorker = "invoke" /\ m_pQueue[pCmd] = "NULL"
    /\ pcWorker' = "out" /\ pCmd' = NoCommand /\ UnchangedQueue

Invoke ==
    /\ pcWorker = "invoke" /\ m_pQueue[pCmd] = "set"
    /\ pcWorker' = "out" /\ pCmd' = NoCommand
    /\ m_pQueue' = [m_pQueue EXCEPT ![pCmd] = "NULL"] /\ Remove(pCmd)
    /\ UNCHANGED <<postponed, m_bStream, m_time, m_pClock, m_bRunning, m_StreamTimeOffset, now>>
    /\ IF Queued(pCmd) THEN SetTimeAdvise ELSE UNCHANGED advise
-----------------------------------------------------------------------------
Next ==
    \/ \E c \in Commands : New(c) \/ Cancel(c) \/ Postpone(c) \/ Requeue(c)
    \/ \E pClock \in BOOLEAN : SetSyncSource(pClock)
    \/ Run \/ EndRun \/ Tick
    \/ GetDueCommand \/ Wake \/ TimesOut \/ Invoke \/ InvokeCancelled
    \/ \E t \in Times : GetCommandDueFor(t)

Spec == Init /\ [][Next]_vars
-----------------------------------------------------------------------------
\* A command that is on the queue and not being postponed is on a list once, in the
\* order of the times and of the calls; and as long as the earliest is not due the
\* clock has been asked for its time (lines 2226 to 2257 and 2328 to 2385), unless
\* that was asked of a clock that has been unset and is what is asked for still.
Ordered(list) ==
    \A i, j \in DOMAIN list : i < j => list[i] # list[j] /\ m_time[list[i]] <= m_time[list[j]]

EarliestIsAdvised ==
    LET next == Earliest(PresentationDue(m_listPresentation, m_time),
                         StreamDue(m_listStream, m_time, m_bRunning, m_StreamTimeOffset))
    IN  /\ Ordered(m_listPresentation) /\ Ordered(m_listStream)
        /\ \A c \in Commands : Queued(c) <=> m_pQueue[c] = "set" /\ c \notin postponed
        /\ m_pClock /\ next > now => pending = next \/ (lost /\ m_tCurrentAdvise = next)
=============================================================================
