----------------------------- MODULE MsgThread -----------------------------
(***************************************************************************)
(* CMsgThread (msgthrd.h, wxutil.cpp): a thread that handles the messages  *)
(* other threads put into its queue, until its client's handler tells it   *)
(* to stop; and CAMMsgEvent::WaitMsg, with which a thread may wait for the *)
(* event that goes with a message, for a time, while it handles messages   *)
(* sent to its own windows.                                                *)
(* The clock is timeGetTime's, which starts again after Cycle.             *)
(***************************************************************************)
EXTENDS Integers, Sequences

CONSTANTS
    Posters,
    MaxMessages,    \* bound: messages put
    Cycle, FirstTick, Timeout

VARIABLES
    m_ThreadQueue, m_lWaiting, m_hSem,
    pcThread, msg,                       \* the thread and the message it has
    pcPoster, signalled,                 \* each poster, and its event
    timeGetTime, dwStartTime, dwWaitTime,
    put, waited                          \* observed: messages put; how long each waits

queue == <<m_ThreadQueue, m_lWaiting, m_hSem>>
thread == <<pcThread, msg>>
waits == <<dwStartTime, dwWaitTime, waited>>
vars == <<queue, thread, pcPoster, signalled, timeGetTime, waits, put>>

NoMessage == [number |-> 0, from |-> 0, kind |-> "none"]
Message(from, kind) == [number |-> put + 1, from |-> from, kind |-> kind]

Init ==
    /\ m_ThreadQueue = << >> /\ m_lWaiting = 0 /\ m_hSem = 0
    /\ pcThread = "get" /\ msg = NoMessage
    /\ pcPoster = [p \in Posters |-> "idle"] /\ signalled = [p \in Posters |-> FALSE]
    /\ timeGetTime = FirstTick
    /\ dwStartTime = [p \in Posters |-> 0] /\ dwWaitTime = [p \in Posters |-> 0]
    /\ waited = [p \in Posters |-> 0] /\ put = 0

-----------------------------------------------------------------------------
\* Fault: the message is put in at the head.
PutThreadMsgAtHead(m) ==
    /\ m_ThreadQueue' = <<m>> \o m_ThreadQueue
    /\ m_hSem' = m_hSem + m_lWaiting /\ m_lWaiting' = 0

PutThreadMsg(m) ==
    /\ m_ThreadQueue' = Append(m_ThreadQueue, m)
    /\ m_hSem' = m_hSem + m_lWaiting /\ m_lWaiting' = 0

\* A poster puts a message, and may begin to wait for its event.
Post(p, kind, wait) ==
    /\ pcPoster[p] = "idle" /\ put < MaxMessages /\ put' = put + 1
    /\ PutThreadMsg(Message(p, kind))
    /\ IF wait
       THEN /\ pcPoster' = [pcPoster EXCEPT ![p] = "waiting"]
            /\ dwStartTime' = [dwStartTime EXCEPT ![p] = timeGetTime]
            /\ dwWaitTime' = [dwWaitTime EXCEPT ![p] = Timeout]
            /\ waited' = [waited EXCEPT ![p] = 0]
       ELSE UNCHANGED <<pcPoster, waits>>
    /\ UNCHANGED <<thread, signalled, timeGetTime>>

\* Fault: the time that is left is counted from here.
SentAgain(p) ==
    /\ pcPoster[p] = "waiting"
    /\ dwWaitTime' = [dwWaitTime EXCEPT ![p] = Timeout]
    /\ UNCHANGED <<queue, thread, pcPoster, signalled, timeGetTime, dwStartTime, waited, put>>

\* WaitMsg wakes up for a sent message, and waits again for the time that is left.
SentMessage(p) ==
    LET elapsed == (timeGetTime - dwStartTime[p]) % Cycle
    IN  /\ pcPoster[p] = "waiting"
        /\ dwWaitTime' = [dwWaitTime EXCEPT ![p] = IF elapsed >= Timeout THEN 0
                                                   ELSE Timeout - elapsed]
        /\ UNCHANGED <<queue, thread, pcPoster, signalled, timeGetTime, dwStartTime, waited, put>>

\* WaitMsg returns, for the event or because the time is over; a poster that has
\* given up leaves.
WaitMsgReturns(p) ==
    /\ pcPoster[p] = "waiting"
    /\ \/ signalled[p] /\ pcPoster' = [pcPoster EXCEPT ![p] = "idle"]
       \/ ~signalled[p] /\ dwWaitTime[p] = 0 /\ pcPoster' = [pcPoster EXCEPT ![p] = "left"]
    /\ signalled' = [signalled EXCEPT ![p] = FALSE]
    /\ dwStartTime' = [dwStartTime EXCEPT ![p] = 0] /\ dwWaitTime' = [dwWaitTime EXCEPT ![p] = 0]
    /\ waited' = [waited EXCEPT ![p] = 0]
    /\ UNCHANGED <<queue, thread, timeGetTime, put>>

Waiting == {p \in Posters : pcPoster[p] = "waiting"}

\* Time passes only while someone waits, and no wait is overrun by it.
Tick ==
    /\ Waiting # {} /\ \A p \in Waiting : dwWaitTime[p] > 0
    /\ timeGetTime' = (timeGetTime + 1) % Cycle
    /\ dwWaitTime' = [p \in Posters |-> IF p \in Waiting THEN dwWaitTime[p] - 1 ELSE 0]
    /\ waited' = [p \in Posters |-> IF p \in Waiting THEN waited[p] + 1 ELSE 0]
    /\ UNCHANGED <<queue, thread, pcPoster, signalled, dwStartTime, put>>

-----------------------------------------------------------------------------
\* Fault: the caller does not say that it is going to wait.
GetUncounted ==
    /\ pcThread = "get"
    /\ IF m_ThreadQueue = << >>
       THEN pcThread' = "wait" /\ UNCHANGED <<m_ThreadQueue, msg>>
       ELSE /\ pcThread' = "handle" /\ msg' = Head(m_ThreadQueue)
            /\ m_ThreadQueue' = Tail(m_ThreadQueue)
    /\ UNCHANGED <<m_lWaiting, m_hSem, pcPoster, signalled, timeGetTime, waits, put>>

\* GetThreadMsg, under the lock.
GetThreadMsg ==
    /\ pcThread = "get"
    /\ IF m_ThreadQueue = << >>
       THEN pcThread' = "wait" /\ m_lWaiting' = m_lWaiting + 1 /\ UNCHANGED <<m_ThreadQueue, msg>>
       ELSE /\ pcThread' = "handle" /\ msg' = Head(m_ThreadQueue)
            /\ m_ThreadQueue' = Tail(m_ThreadQueue) /\ UNCHANGED m_lWaiting
    /\ UNCHANGED <<m_hSem, pcPoster, signalled, timeGetTime, waits, put>>

\* ... and without it, on the semaphore.
Woken ==
    /\ pcThread = "wait" /\ m_hSem > 0 /\ m_hSem' = m_hSem - 1 /\ pcThread' = "get"
    /\ UNCHANGED <<m_ThreadQueue, m_lWaiting, msg, pcPoster, signalled, timeGetTime, waits, put>>

\* ThreadMessageProc: the client's handler sets the event, and ends the thread when
\* it is told to.
ThreadMessageProc ==
    /\ pcThread = "handle"
    /\ pcThread' = (IF msg.kind = "quit" THEN "ended" ELSE "get") /\ msg' = NoMessage
    /\ signalled' = [p \in Posters |-> signalled[p] \/ (msg.from = p /\ pcPoster[p] = "waiting")]
    /\ UNCHANGED <<queue, pcPoster, timeGetTime, waits, put>>

Thread == GetThreadMsg \/ Woken \/ ThreadMessageProc

Next ==
    \/ \E p \in Posters, kind \in {"work", "quit"}, wait \in BOOLEAN : Post(p, kind, wait)
    \/ \E p \in Posters : SentMessage(p) \/ WaitMsgReturns(p)
    \/ Tick \/ Thread

\* The thread runs, time passes for those who wait, and a wait that is over returns.
Fairness == WF_vars(Thread) /\ WF_vars(Tick) /\ \A p \in Posters : WF_vars(WaitMsgReturns(p))
Spec == Init /\ [][Next]_vars /\ Fairness

-----------------------------------------------------------------------------
\* The messages are handled in the order they were put in, and the thread does not
\* sleep while there is one: each time it goes to sleep it is owed one wake-up
\* (wxutil.cpp lines 331 to 356, msgthrd.h lines 102 to 111).
MessagesInOrder ==
    /\ \A i \in DOMAIN m_ThreadQueue :
           m_ThreadQueue[i].number = put - Len(m_ThreadQueue) + i
    /\ msg # NoMessage => msg.number = put - Len(m_ThreadQueue)
    /\ pcThread = "wait" => m_lWaiting + m_hSem = 1
    /\ pcThread = "wait" /\ m_ThreadQueue # << >> => m_hSem = 1

\* Messages sent to a thread that waits neither lengthen nor shorten its wait, also
\* when the clock starts again (wxutil.cpp lines 52 to 94).
WaitsAsLongAsAsked ==
    \A p \in Waiting : waited[p] + dwWaitTime[p] = Timeout

\* What is put in is handled, or the thread has ended; and whoever waits goes on, at
\* the latest when the time is over (wxutil.cpp lines 52 to 94 and 300 to 360).
Waits == Waiting # {} \/ (m_ThreadQueue # << >> /\ pcThread # "ended")
=============================================================================
