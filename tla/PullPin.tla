------------------------------- MODULE PullPin -------------------------------
(***************************************************************************)
(* CPullPin: a worker thread that pulls data from an IAsyncReader, keeping *)
(* up to two requests outstanding (or reading synchronously), and an       *)
(* application thread that starts, seeks and stops it.                     *)
(*                                                                         *)
(* The reader, the allocator and the pin that receives are outside: the    *)
(* reader completes requests in their order and cancels those it has on    *)
(* BeginFlush, which may fail; the receiver may keep a sample for a while. *)
(*                                                                         *)
(* Positions are in bytes (the code multiplies them by UNITS).             *)
(***************************************************************************)
EXTENDS Integers, SequencesExt

CONSTANTS Readers,     \* the sources and allocators to look at
          MaxCalls     \* bound: calls of the application

VARIABLE reader        \* the one that is there

Duration   == reader.duration    \* length of the source
Align      == reader.align       \* the allocator's alignment
SampleSize == reader.size        \* its buffers' size: a whole number of the
                                 \* reader's blocks; otherwise a sample may lie
                                 \* in the last block beyond the stop altogether
Buffers    == reader.buffers     \* and how many there are (cBuffers)
Sync       == reader.sync        \* m_bSync

AlignDown(t) == t - (t % Align)
AlignUp(t)   == AlignDown(t + Align - 1)
MinOf(a, b)  == IF a < b THEN a ELSE b

Positions == 0..AlignUp(Duration)
Ranges == [start : Positions, stop : Positions]
Requests == [range : Ranges, result : {"pending", "done", "cancelled", "error"}]

VARIABLES
    m_State,             \* the last command: "start", "pause" or "exit"
    m_tStart, m_tStop,   \* what to play
    target,              \* the arguments of the Seek that is running
    connected,           \* are m_pReader and m_pAlloc set
    pcApp, goal, calls,  \* the application: program counter, where to return to
    request, answered,   \* CAMThread: a command posted, its reply
    pcThread,            \* the worker
    play,                \* what it plays: Process's own tStart and tStop
    tCurrent, sample,    \* its position, the sample in its hands
    first, hr,           \* is this the first of two requests; the last result
    queue, flushing,     \* the reader: requests in order, is it flushing
    committed, free,     \* the allocator
    held,                \* samples the receiver keeps
    delivered, eos,      \* history: ranges received since the last start, its end
    refused              \* history: the reader has refused to flush

threadVars == <<pcThread, play, tCurrent, sample, first, hr>>
readerVars == <<queue, flushing>>
poolVars   == <<committed, free, held>>
outVars    == <<delivered, eos>>
appVars    == <<m_State, m_tStart, m_tStop, target, connected, pcApp, goal, calls>>
callVars   == <<request, answered>>
vars == <<reader, threadVars, readerVars, poolVars, outVars, appVars, callVars, refused>>

None == [start |-> 0, stop |-> 0]

Init ==
    /\ reader \in Readers
    /\ m_State = "exit" /\ m_tStart = 0 /\ m_tStop = Duration /\ connected = FALSE
    /\ target = None /\ pcApp = "idle" /\ goal = "idle" /\ calls = 0
    /\ request = "none" /\ answered = FALSE
    /\ pcThread = "none" /\ play = None /\ tCurrent = 0 /\ sample = None /\ first = FALSE /\ hr = "S_OK"
    /\ queue = << >> /\ flushing = FALSE
    /\ committed = FALSE /\ free = Buffers /\ held = 0
    /\ delivered = << >> /\ eos = FALSE /\ refused = FALSE

ThreadExists == pcThread # "none"
-----------------------------------------------------------------------------
\* The application thread, under m_AccessLock.

OutsideUnchanged == <<threadVars, readerVars, poolVars, outVars, refused>>

Begin == pcApp = "idle" /\ calls < MaxCalls /\ calls' = calls + 1

Connect ==
    /\ Begin /\ ~connected
    /\ connected' = TRUE /\ m_tStart' = 0 /\ m_tStop' = Duration
    /\ UNCHANGED <<OutsideUnchanged, m_State, target, pcApp, goal, callVars>>

\* Active: StartThread, which makes the thread; there should be none yet, so it is not
\* called again after an Inactive that has left it there.
Active ==
    /\ Begin /\ connected /\ ~ThreadExists
    /\ pcApp' = "start" /\ goal' = "idle"
    /\ UNCHANGED <<OutsideUnchanged, m_State, m_tStart, m_tStop, target, connected, callVars>>

\* Seek a running pin: flush, pause, note the times, start again.
Seek(start, stop) ==
    /\ Begin /\ connected
    /\ target' = [start |-> start, stop |-> stop]
    /\ IF m_State = "start"
       THEN pcApp' = "flush" /\ goal' = "pause" /\ UNCHANGED <<m_tStart, m_tStop>>
       ELSE m_tStart' = start /\ m_tStop' = stop /\ UNCHANGED <<pcApp, goal>>
    /\ UNCHANGED <<OutsideUnchanged, m_State, connected, callVars>>

\* Inactive and Disconnect: StopThread, when there is one.
Inactive ==
    /\ Begin /\ ThreadExists
    /\ pcApp' = "flush" /\ goal' = "exit"
    /\ UNCHANGED <<OutsideUnchanged, m_State, m_tStart, m_tStop, target, connected, callVars>>

Disconnect ==
    /\ Begin /\ connected
    /\ IF ThreadExists THEN pcApp' = "flush" /\ goal' = "disconnect" /\ UNCHANGED connected
                       ELSE connected' = FALSE /\ UNCHANGED <<pcApp, goal>>
    /\ UNCHANGED <<OutsideUnchanged, m_State, m_tStart, m_tStop, target, callVars>>

StartThread ==
    /\ pcApp = "start"
    /\ committed' = TRUE
    /\ pcThread' = IF ThreadExists THEN pcThread ELSE "get"
    /\ m_State' = "start" /\ request' = "start" /\ answered' = FALSE
    /\ pcApp' = "answer"
    /\ UNCHANGED <<play, tCurrent, sample, first, hr, readerVars, free, held, outVars,
                   refused, m_tStart, m_tStop, target, connected, goal, calls>>

\* IAsyncReader::BeginFlush: what has not been read is cancelled.
Cancelled(q) ==
    [k \in DOMAIN q |-> IF q[k].result = "pending" THEN [q[k] EXCEPT !.result = "cancelled"]
                                                   ELSE q[k]]

\* Fault: the reader is not flushed before the worker is called.
FlushNothing ==
    /\ pcApp = "flush"
    /\ pcApp' = "call"
    /\ UNCHANGED <<OutsideUnchanged, m_State, m_tStart, m_tStop, target, connected, goal, calls,
                   callVars>>

FlushReader ==
    /\ pcApp = "flush"
    /\ flushing' = TRUE /\ queue' = Cancelled(queue)
    /\ pcApp' = "call"
    /\ UNCHANGED <<threadVars, poolVars, outVars, refused, m_State, m_tStart, m_tStop, target,
                   connected, goal, calls, callVars>>

\* When BeginFlush fails, the thread is neither paused nor stopped, and nobody looks at
\* that: Seek goes on to start it, Disconnect takes the reader and the allocator from it.
FlushRefused ==
    /\ pcApp = "flush"
    /\ refused' = TRUE
    /\ IF goal = "pause"
       THEN pcApp' = "start" /\ m_tStart' = target.start /\ m_tStop' = target.stop
       ELSE pcApp' = "idle" /\ UNCHANGED <<m_tStart, m_tStop>>
    /\ connected' = (goal # "disconnect")
    /\ UNCHANGED <<threadVars, readerVars, poolVars, outVars, m_State, target, goal, calls,
                   callVars>>

\* The thread's next use of either is of a null pointer.
Alive == ThreadExists => connected

CallWorker ==
    /\ pcApp = "call"
    /\ m_State' = (IF goal = "pause" THEN "pause" ELSE "exit")
    /\ request' = m_State' /\ answered' = FALSE
    /\ pcApp' = "answer"
    /\ UNCHANGED <<OutsideUnchanged, m_tStart, m_tStop, target, connected, goal, calls>>

Answered ==
    /\ pcApp = "answer" /\ answered
    /\ pcApp' = IF m_State = "start" THEN "idle" ELSE "endFlush"
    /\ UNCHANGED <<OutsideUnchanged, m_State, m_tStart, m_tStop, target, connected, goal, calls,
                   callVars>>

EndFlush ==
    /\ pcApp = "endFlush"
    /\ flushing' = FALSE
    /\ IF goal = "pause"
       THEN pcApp' = "start" /\ m_tStart' = target.start /\ m_tStop' = target.stop
       ELSE pcApp' = "close" /\ UNCHANGED <<m_tStart, m_tStop>>
    /\ UNCHANGED <<threadVars, queue, poolVars, outVars, refused, m_State, target, connected,
                   goal, calls, callVars>>

\* Close waits for the thread; the allocator is decommitted after that.
Close ==
    /\ pcApp = "close" /\ ~ThreadExists
    /\ committed' = FALSE
    /\ connected' = (goal # "disconnect") /\ pcApp' = "idle"
    /\ UNCHANGED <<threadVars, readerVars, free, held, outVars, refused, m_State, m_tStart,
                   m_tStop, target, goal, calls, callVars>>
-----------------------------------------------------------------------------
\* The worker: ThreadProc.

ThreadUnchanged == <<appVars, readerVars, poolVars, refused>>

Reply == request' = "none" /\ answered' = TRUE

\* AlignedStart and AlignedStop are the ends of what Process reads.
AlignedStart == AlignDown(play.start)
Stop         == MinOf(play.stop, Duration)
AlignedStop  == AlignUp(Stop)

GetRequest ==
    /\ pcThread = "get" /\ request # "none"
    /\ Reply
    /\ pcThread' = CASE request = "exit"  -> "none"
                     [] request = "pause" -> "cleanup"
                     [] request = "start" -> "process"
    /\ UNCHANGED <<ThreadUnchanged, play, tCurrent, sample, first, hr, outVars>>

\* Process takes its times, which an application whose flush was refused may be changing.
Process ==
    /\ pcThread = "process"
    /\ play' = [start |-> m_tStart, stop |-> m_tStop]
    /\ tCurrent' = AlignDown(m_tStart) /\ hr' = "S_OK" /\ sample' = None
    /\ first' = FALSE /\ delivered' = << >> /\ eos' = FALSE
    /\ pcThread' = IF m_tStop <= m_tStart THEN "eos" ELSE "loop"
    /\ UNCHANGED <<ThreadUnchanged, callVars>>

\* The outer loop: its condition, CheckRequest, and a first request if there
\* are buffers for two.
Loop ==
    /\ pcThread = "loop"
    /\ IF tCurrent >= AlignedStop THEN pcThread' = "eos" /\ UNCHANGED first
       ELSE IF request # "none" THEN pcThread' = "cleanup" /\ UNCHANGED first
       ELSE pcThread' = "buffer" /\ first' = (~Sync /\ Buffers > 1)
    /\ UNCHANGED <<ThreadUnchanged, play, tCurrent, sample, hr, outVars, callVars>>

\* The inner loop does not look for requests; behind it the last is collected.
Inner ==
    /\ pcThread = "inner"
    /\ IF tCurrent < AlignedStop THEN pcThread' = "buffer"
       ELSE pcThread' = IF Buffers > 1 THEN "last" ELSE "eos"
    /\ UNCHANGED <<ThreadUnchanged, play, tCurrent, sample, first, hr, outVars, callVars>>

\* GetBuffer waits for a buffer; the sample gets its times.
GetBuffer ==
    /\ pcThread = "buffer" /\ free > 0
    /\ free' = free - 1
    /\ sample' = [start |-> tCurrent, stop |-> MinOf(tCurrent + SampleSize, AlignedStop)]
    /\ tCurrent' = sample'.stop
    /\ pcThread' = IF Sync THEN "read" ELSE "request"
    /\ UNCHANGED <<appVars, readerVars, committed, held, play, first, hr, outVars, refused,
                   callVars>>

\* Fault: a sample the reader has refused is not released.
RequestLeaks ==
    /\ pcThread = "request"
    /\ IF flushing
       THEN pcThread' = "cleanup" /\ UNCHANGED queue
       ELSE /\ queue' = Append(queue, [range |-> sample, result |-> "pending"])
            /\ pcThread' = IF first THEN "inner" ELSE "collect"
    /\ first' = FALSE /\ sample' = None
    /\ UNCHANGED <<appVars, flushing, poolVars, play, tCurrent, hr, outVars, refused, callVars>>

\* A reader that flushes refuses the request.
Request ==
    /\ pcThread = "request"
    /\ IF flushing
       THEN free' = free + 1 /\ pcThread' = "cleanup" /\ UNCHANGED queue
       ELSE /\ queue' = Append(queue, [range |-> sample, result |-> "pending"])
            /\ pcThread' = IF first THEN "inner" ELSE "collect"
            /\ UNCHANGED free
    /\ first' = FALSE /\ sample' = None
    /\ UNCHANGED <<appVars, flushing, committed, held, play, tCurrent, hr, outVars, refused,
                   callVars>>

\* WaitForNext: the oldest request when it is done; nothing, when the reader
\* flushes and has none.
Collect ==
    /\ pcThread \in {"collect", "last"}
    /\ \/ /\ queue # << >> /\ Head(queue).result = "done"
          /\ sample' = Head(queue).range /\ queue' = Tail(queue)
          /\ pcThread' = IF pcThread = "last" THEN "deliverLast" ELSE "deliver"
          /\ UNCHANGED free
       \/ /\ queue # << >> /\ Head(queue).result \in {"cancelled", "error"}
          /\ queue' = Tail(queue) /\ free' = free + 1 /\ pcThread' = "cleanup"
          /\ UNCHANGED sample
       \/ /\ queue = << >> /\ flushing
          /\ pcThread' = "cleanup"
          /\ UNCHANGED <<queue, free, sample>>
    /\ UNCHANGED <<appVars, flushing, committed, held, play, tCurrent, first, hr, outVars,
                   refused, callVars>>

\* SyncReadAligned.
SyncRead ==
    /\ pcThread = "read"
    /\ \/ pcThread' = "deliver" /\ UNCHANGED <<free, sample>>
       \/ pcThread' = "cleanup" /\ free' = free + 1 /\ sample' = None
    /\ UNCHANGED <<appVars, readerVars, committed, held, play, tCurrent, first, hr, outVars,
                   refused, callVars>>

\* Fault: a sample that reaches past the stop is delivered whole.
DeliverWhole ==
    /\ pcThread \in {"deliver", "deliverLast"}
    /\ delivered' = Append(delivered, sample)
    /\ sample' = None
    /\ hr' \in {"S_OK", "S_FALSE", "error"}
    /\ \/ free' = free + 1 /\ UNCHANGED held
       \/ held' = held + 1 /\ hr' = "S_OK" /\ UNCHANGED free
    /\ pcThread' = CASE pcThread = "deliverLast" -> IF hr' = "error" THEN "cleanup" ELSE "eos"
                     [] hr' # "S_OK" -> "cleanup"
                     [] OTHER -> IF Sync THEN "loop" ELSE "inner"
    /\ UNCHANGED <<appVars, readerVars, committed, play, tCurrent, first, eos, refused,
                   callVars>>

\* DeliverSample clips the sample to the stop time.  The receiver may keep it,
\* refuse more, or fail; refusing more ends the inner loop, and is not looked
\* at after the last sample.
DeliverSample ==
    /\ pcThread \in {"deliver", "deliverLast"}
    /\ delivered' = Append(delivered, [sample EXCEPT !.stop = MinOf(@, Stop)])
    /\ sample' = None
    /\ hr' \in {"S_OK", "S_FALSE", "error"}
    /\ \/ free' = free + 1 /\ UNCHANGED held
       \/ held' = held + 1 /\ hr' = "S_OK" /\ UNCHANGED free
    /\ pcThread' = CASE pcThread = "deliverLast" -> IF hr' = "error" THEN "cleanup" ELSE "eos"
                     [] hr' # "S_OK" -> "cleanup"
                     [] OTHER -> IF Sync THEN "loop" ELSE "inner"
    /\ UNCHANGED <<appVars, readerVars, committed, play, tCurrent, first, eos, refused,
                   callVars>>

EndOfStream ==
    /\ pcThread = "eos"
    /\ eos' = TRUE /\ pcThread' = "cleanup"
    /\ UNCHANGED <<ThreadUnchanged, play, tCurrent, sample, first, hr, delivered, callVars>>

\* The worker flushes the reader by itself, collects what was cancelled and ends the
\* flush, also one the application is in.  If the reader refuses, what it has not read
\* stays with it.
CleanupCancelled ==
    /\ pcThread = "cleanup"
    /\ \/ queue' = << >> /\ UNCHANGED refused
       \/ /\ \E k \in 1..Len(queue) + 1 :
                /\ \A j \in 1..k - 1 : queue[j].result # "pending"
                /\ k <= Len(queue) => queue[k].result = "pending"
                /\ queue' = SubSeq(queue, k, Len(queue))
          /\ refused' = TRUE
    /\ free' = free + Len(queue) - Len(queue') /\ flushing' = FALSE
    /\ pcThread' = "get"
    /\ UNCHANGED <<appVars, committed, held, play, tCurrent, sample, first, hr, outVars,
                   callVars>>
-----------------------------------------------------------------------------
\* The reader and the receiver.

ReaderCompletes ==
    /\ \E k \in DOMAIN queue :
          /\ queue[k].result = "pending"
          /\ \A j \in 1..k - 1 : queue[j].result # "pending"
          /\ \E r \in {"done", "error"} : queue' = [queue EXCEPT ![k].result = r]
    /\ UNCHANGED <<threadVars, flushing, poolVars, outVars, refused, appVars, callVars>>

Release ==
    /\ held > 0
    /\ held' = held - 1 /\ free' = free + 1
    /\ UNCHANGED <<threadVars, readerVars, committed, outVars, refused, appVars, callVars>>
-----------------------------------------------------------------------------
App == StartThread \/ FlushReader \/ FlushRefused \/ CallWorker \/ Answered \/ EndFlush \/ Close

Thread == \/ GetRequest \/ Process \/ Loop \/ Inner \/ GetBuffer \/ Request \/ Collect \/ SyncRead
          \/ DeliverSample \/ EndOfStream \/ CleanupCancelled

Step == \/ Connect \/ Active \/ Inactive \/ Disconnect
        \/ \E start, stop \in 0..Duration : Seek(start, stop)
        \/ App \/ Thread \/ ReaderCompletes \/ Release

Next == Alive /\ Step /\ UNCHANGED reader

Spec == Init /\ [][Next]_vars

\* The threads run and the receiver gives its samples back.  The reader may
\* hang: it answers only a flush.
Fairness ==
    /\ WF_vars(Alive /\ App /\ UNCHANGED reader)
    /\ WF_vars(Alive /\ Thread /\ UNCHANGED reader)
    /\ WF_vars(Alive /\ Release /\ UNCHANGED reader)
-----------------------------------------------------------------------------
\* No buffer is lost or doubled, and two requests at most are outstanding, as long as the
\* reader flushes when it is asked to.
BuffersAccounted ==
    /\ free + held + Len(queue)
         + (IF pcThread \in {"request", "read", "deliver", "deliverLast"} THEN 1 ELSE 0)
         = Buffers
    /\ refused \/ Len(queue) <= 2

\* What is received follows without a gap from the aligned start, none of it
\* twice or beyond the stop, and reaches the stop when the stream ends, as long as the
\* reader flushes when it is asked to.
Contiguous ==
    ~refused =>
    /\ \A k \in DOMAIN delivered :
          /\ k > 1 => delivered[k].start = delivered[k - 1].stop
          /\ delivered[k].start < delivered[k].stop
    /\ pcThread = "eos" /\ delivered # << >> =>
          Head(delivered).start = AlignedStart /\ Last(delivered).stop = Stop

\* Seek and stop return, though the reader may hang on a request, unless it refuses to
\* flush (pullpin.cpp lines 160 to 330).
Waits == pcApp # "idle" /\ ~refused
=============================================================================
