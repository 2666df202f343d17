------------------------------- MODULE SinkPin -------------------------------
(***************************************************************************)
(* One CVirtualStreamSinkInputPin and everything that touches it:          *)
(*                                                                         *)
(*   - the graph's application thread: connects, negotiates the allocator, *)
(*     changes the filter's state, flushes, disconnects, deletes;          *)
(*   - the upstream filter's streaming thread: Receive, EndOfStream;       *)
(*   - the pin's pipe server thread (InstanceThread);                      *)
(*   - the pin's writer thread (InstanceWritePipeThread);                  *)
(*   - the client at the other end of the pin's pipe.                      *)
(*                                                                         *)
(* m_pinLock is held for a whole action, except where its holder waits for *)
(* another thread (BreakConnect, and StopServer called from Receive): the  *)
(* wait is then a state of its own and "lock" names the holder.            *)
(***************************************************************************)
EXTENDS NamedPipe

CONSTANTS Writer,        \* identities of writer threads
          MaxSamples,    \* bound: how many samples the upstream filter delivers
          PipeCapacity   \* bound: messages the pipe's output buffer holds

ASSUME WriterAssumption   == {"null", "garbage"} \cap Writer = {}
ASSUME BoundsAssumption   == MaxSamples \in Nat /\ PipeCapacity \in Nat \ {0}

Samples  == [id : Nat, data : BOOLEAN]   \* data: m_actualDataLength > 0
NoSample == [id |-> 0, data |-> FALSE]
Messages == [kind : {"info", "data"}, id : Nat, data : BOOLEAN]
Info(s)  == [kind |-> "info", id |-> s.id, data |-> s.data]
Data(s)  == [kind |-> "data", id |-> s.id, data |-> TRUE]

VARIABLES
    filterActive,    \* the filter's m_State is not State_Stopped
    upstream,        \* the upstream filter's streaming thread is running
    connected,       \* m_Connected # NULL
    allocator,       \* m_pAllocator # NULL
    flushing,        \* m_bFlushing
    runTimeError,    \* m_bRunTimeError
    lock,            \* who holds m_pinLock while it waits
    pcApp,           \* the application thread
    buffer,          \* m_writeBuffer
    writeBuffering,  \* m_bWriteBuffering
    hThread2,        \* m_hThread2, which the constructor does not set
    pcW, cur,        \* per writer thread: where it is, the sample it took
    hPipe, pipe,     \* m_hPipe, and the pipe instance it names
    serverRunning,   \* m_bPipeServerRunning
    bConnected,      \* m_bConnected
    pcServer,        \* the server thread
    pcStop,          \* the StopServer call in progress, whoever makes it
    nextId, sent,    \* history: samples received, numbers of those sent
    torn             \* history: a writer died between the two messages of a
                     \* sample during the current connection

filterVars == <<filterActive, upstream, connected, allocator, flushing, runTimeError>>
writerVars == <<buffer, writeBuffering, hThread2, pcW, cur>>
serverVars == <<hPipe, serverRunning, bConnected, pcServer>>
historyVars == <<nextId, sent, torn>>
vars == <<filterVars, lock, pcApp, writerVars, serverVars, pipe, pcStop, historyVars>>

FlagsOK ==
    /\ filterActive \in BOOLEAN /\ upstream \in BOOLEAN
    /\ connected \in BOOLEAN /\ allocator \in BOOLEAN
    /\ flushing \in BOOLEAN /\ runTimeError \in BOOLEAN
    /\ writeBuffering \in BOOLEAN /\ serverRunning \in BOOLEAN
    /\ bConnected \in BOOLEAN /\ torn \in BOOLEAN

DataOK ==
    /\ lock \in {"free", "app", "stream"}
    /\ pcApp \in {"idle", "break", "delete", "gone"}
    /\ buffer \in Seq(Samples)
    /\ hThread2 \in Writer \cup {"null", "garbage"}
    /\ pcW \in [Writer -> {"none", "check", "take", "test", "info", "data"}]
    /\ cur \in [Writer -> Samples]
    /\ hPipe \in {"null", "open", "closed"}
    /\ pipe \in Pipes(Messages) /\ Len(pipe.queue) <= PipeCapacity
    /\ pcServer \in {"none", "start", "loop", "connect", "listen", "after"}
    /\ pcStop \in {"idle", "open", "close", "wait", "disconnect", "handle", "null"}
    /\ nextId \in Nat
    /\ sent \in Seq(Nat)

TypeOK == FlagsOK /\ DataOK

\* The constructor initialises m_hThread but not m_hThread2.
Init ==
    /\ filterActive = FALSE /\ upstream = FALSE /\ connected = FALSE
    /\ allocator = FALSE /\ flushing = FALSE /\ runTimeError = FALSE
    /\ lock = "free" /\ pcApp = "idle"
    /\ buffer = << >> /\ writeBuffering = FALSE
    /\ hThread2 \in {"null", "garbage"}
    /\ pcW = [w \in Writer |-> "none"] /\ cur = [w \in Writer |-> NoSample]
    /\ hPipe = "null" /\ pipe = NoPipe
    /\ serverRunning = FALSE /\ bConnected = FALSE /\ pcServer = "none"
    /\ pcStop = "idle"
    /\ nextId = 0 /\ sent = << >> /\ torn = FALSE

-----------------------------------------------------------------------------
\* The application thread.

AppReady == pcApp = "idle" /\ lock = "free"

\* CBasePin::ReceiveConnection: m_Connected is set, SetMediaType and
\* CompleteConnect succeed.
AcceptConnection ==
    /\ AppReady /\ ~connected /\ ~filterActive
    /\ connected' = TRUE
    /\ UNCHANGED <<filterActive, upstream, allocator, flushing, runTimeError, lock,
                   pcApp, writerVars, serverVars, pipe, pcStop, historyVars>>

\* ReceiveConnection refuses the media type and calls BreakConnect on a pin
\* that was not connected: the first time, it waits for a handle the
\* constructor never set, and then clears it.
RejectConnection ==
    /\ AppReady /\ ~connected /\ ~filterActive
    /\ hThread2' = "null"
    /\ writeBuffering' = IF hThread2 = "null" THEN writeBuffering ELSE FALSE
    /\ UNCHANGED <<filterVars, lock, pcApp, buffer, pcW, cur, serverVars, pipe,
                   pcStop, historyVars>>

\* The output pin hands over the allocator: the pipe and its server thread are
\* created, unless an earlier connection left them running.
NotifyAllocator ==
    /\ AppReady /\ connected /\ ~allocator
    /\ allocator' = TRUE
    /\ IF hPipe = "null"
       THEN hPipe' = "open" /\ pipe' = Listening /\ pcServer' = "start"
       ELSE UNCHANGED <<hPipe, pipe, pcServer>>
    /\ UNCHANGED <<filterActive, upstream, connected, flushing, runTimeError, lock,
                   pcApp, writerVars, serverRunning, bConnected, pcStop, historyVars>>

\* Pause or Run of the filter; the pin's Active and Reset change no state kept
\* here (m_writeBuffer.empty() asks whether the queue is empty).
FilterStart ==
    /\ AppReady /\ ~filterActive
    /\ filterActive' = TRUE
    /\ UNCHANGED <<upstream, connected, allocator, flushing, runTimeError, lock, pcApp,
                   writerVars, serverVars, pipe, pcStop, historyVars>>

\* CVirtualStreamSink::Stop sets m_State before it calls CBaseFilter::Stop,
\* which therefore finds the filter stopped and calls Inactive on no pin.
FilterStop ==
    /\ pcApp = "idle" /\ filterActive
    /\ filterActive' = FALSE
    /\ UNCHANGED <<upstream, connected, allocator, flushing, runTimeError, lock, pcApp,
                   writerVars, serverVars, pipe, pcStop, historyVars>>

\* The graph starts filters from the renderers up and stops them in the same
\* order, so samples may still arrive at a stopped sink.
UpstreamStart ==
    /\ pcApp = "idle" /\ ~upstream /\ filterActive /\ connected /\ allocator /\ ~flushing
    /\ upstream' = TRUE
    /\ UNCHANGED <<filterActive, connected, allocator, flushing, runTimeError, lock,
                   pcApp, writerVars, serverVars, pipe, pcStop, historyVars>>

UpstreamStop ==
    /\ pcApp = "idle" /\ upstream /\ pcStop = "idle"
    /\ upstream' = FALSE
    /\ UNCHANGED <<filterActive, connected, allocator, flushing, runTimeError, lock,
                   pcApp, writerVars, serverVars, pipe, pcStop, historyVars>>

BeginFlush ==
    /\ AppReady /\ connected /\ ~flushing
    /\ flushing' = TRUE
    /\ UNCHANGED <<filterActive, upstream, connected, allocator, runTimeError, lock,
                   pcApp, writerVars, serverVars, pipe, pcStop, historyVars>>

\* The upstream filter stops pushing before it ends the flush.
EndFlush ==
    /\ AppReady /\ connected /\ flushing /\ ~upstream
    /\ flushing' = FALSE
    /\ runTimeError' = FALSE
    /\ UNCHANGED <<filterActive, upstream, connected, allocator, lock, pcApp,
                   writerVars, serverVars, pipe, pcStop, historyVars>>

\* CBasePin::Disconnect up to BreakConnect's wait for the writer thread.
Disconnect ==
    /\ AppReady /\ connected /\ ~filterActive /\ ~upstream /\ ~flushing
    /\ lock' = "app"
    /\ pcApp' = "break"
    /\ allocator' = FALSE
    /\ writeBuffering' = IF hThread2 = "null" THEN writeBuffering ELSE FALSE
    /\ UNCHANGED <<filterActive, upstream, connected, flushing, runTimeError, buffer,
                   hThread2, pcW, cur, serverVars, pipe, pcStop, historyVars>>

\* The rest of BreakConnect (m_writeBuffer.empty() leaves the queue as it is)
\* and of Disconnect.
FinishBreak ==
    /\ lock' = "free"
    /\ pcApp' = "idle"
    /\ connected' = FALSE
    /\ hThread2' = "null"
    /\ UNCHANGED <<filterActive, upstream, allocator, flushing, runTimeError, buffer,
                   writeBuffering, serverVars, pipe, pcStop, nextId, sent>>

\* Fault: BreakConnect does not wait for the writer.
BreakWithoutWaiting ==
    /\ pcApp = "break"
    /\ FinishBreak
    /\ UNCHANGED <<pcW, cur, torn>>

\* The writer has ended, or the handle never named a thread.
BreakWriterGone ==
    /\ pcApp = "break"
    /\ hThread2 \in Writer => pcW[hThread2] = "none"
    /\ FinishBreak
    /\ UNCHANGED <<pcW, cur, torn>>

\* A writer that wants the lock BreakConnect holds, or that writes to a client
\* that does not read, is still there after ten seconds.
WriterStuck(w) ==
    \/ pcW[w] = "take" /\ lock # "free"
    \/ pcW[w] \in {"info", "data"} /\ WriteBlocked(pipe, PipeCapacity)

\* Fault: BreakConnect waits for the writer without a limit.
BreakNeverTimesOut == FALSE

BreakTimeout ==
    /\ pcApp = "break" /\ hThread2 \in Writer
    /\ WriterStuck(hThread2)
    /\ pcW' = [pcW EXCEPT ![hThread2] = "none"]
    /\ cur' = [cur EXCEPT ![hThread2] = NoSample]
    /\ torn' = (torn \/ pcW[hThread2] = "data")
    /\ FinishBreak

\* Fault: the destructor forgets the server.
DeleteWithoutStopping ==
    /\ AppReady /\ ~connected /\ ~filterActive /\ ~upstream
    /\ pcApp' = "gone"
    /\ UNCHANGED <<filterVars, lock, writerVars, serverVars, pipe, pcStop, historyVars>>

\* The pin's destructor: it stops the server, but not the writer.
Delete ==
    /\ AppReady /\ ~connected /\ ~filterActive /\ ~upstream
    /\ IF hPipe = "null"
       THEN pcApp' = "gone" /\ UNCHANGED <<pcStop, serverRunning>>
       ELSE pcApp' = "delete" /\ pcStop' = "open" /\ serverRunning' = FALSE
    /\ UNCHANGED <<filterVars, lock, writerVars, hPipe, bConnected, pcServer, pipe,
                   historyVars>>

Deleted == pcApp = "gone" /\ UNCHANGED vars
-----------------------------------------------------------------------------
\* The upstream filter's streaming thread.

StreamReady == upstream /\ pcStop = "idle"

\* CBaseInputPin::CheckStreaming returns S_OK.
Streaming == filterActive /\ ~flushing /\ ~runTimeError

\* Fault: every sample gets a writer thread.
EnqueueWithNewWriter(hasData) ==
    /\ nextId < MaxSamples
    /\ nextId' = nextId + 1
    /\ buffer' = Append(buffer, [id |-> nextId + 1, data |-> hasData])
    /\ writeBuffering' = TRUE
    /\ \E w \in Writer :
           /\ pcW[w] = "none"
           /\ pcW' = [pcW EXCEPT ![w] = "check"]
           /\ hThread2' = w
    /\ UNCHANGED <<cur, sent, torn>>

\* Receive queues the sample before the base class has had its say, and starts
\* a writer thread first if none is meant to be running.
Enqueue(hasData) ==
    /\ nextId < MaxSamples
    /\ nextId' = nextId + 1
    /\ buffer' = Append(buffer, [id |-> nextId + 1, data |-> hasData])
    /\ IF writeBuffering
       THEN UNCHANGED <<writeBuffering, hThread2, pcW>>
       ELSE /\ writeBuffering' = TRUE
            /\ \E w \in Writer :
                   /\ pcW[w] = "none"
                   /\ pcW' = [pcW EXCEPT ![w] = "check"]
                   /\ hThread2' = w
    /\ UNCHANGED <<cur, sent, torn>>

Receive ==
    /\ StreamReady /\ lock = "free"
    /\ \E hasData \in BOOLEAN : Enqueue(hasData)
    /\ UNCHANGED <<filterVars, lock, pcApp, serverVars, pipe, pcStop>>

\* The base class does not like the sample's format: it raises a run-time
\* error and calls EndOfStream, with m_pinLock still held by Receive.
ReceiveBadFormat ==
    /\ StreamReady /\ lock = "free" /\ Streaming
    /\ \E hasData \in BOOLEAN : Enqueue(hasData)
    /\ runTimeError' = TRUE
    /\ IF hPipe = "null"
       THEN UNCHANGED <<lock, pcStop, serverRunning>>
       ELSE lock' = "stream" /\ pcStop' = "open" /\ serverRunning' = FALSE
    /\ UNCHANGED <<filterActive, upstream, connected, allocator, flushing, pcApp,
                   hPipe, bConnected, pcServer, pipe>>

\* EndOfStream takes no lock.
EndOfStream ==
    /\ StreamReady /\ hPipe # "null"
    /\ pcStop' = "open"
    /\ serverRunning' = FALSE
    /\ UNCHANGED <<filterVars, lock, pcApp, writerVars, hPipe, bConnected, pcServer,
                   pipe, historyVars>>

-----------------------------------------------------------------------------
\* StopServer, on the thread that called it: the destructor's (pcApp is
\* "delete"), or the streaming thread.  Its callers set serverRunning.

StopUnchanged == <<filterVars, writerVars, nextId, sent>>

\* CreateFile on the pin's own pipe, to wake the listener.
StopOpen ==
    /\ pcStop = "open"
    /\ IF CanOpen(pipe)
       THEN pipe' = Opened("self") /\ torn' = FALSE /\ pcStop' = "close"
       ELSE pcStop' = "wait" /\ UNCHANGED <<pipe, torn>>
    /\ UNCHANGED <<StopUnchanged, lock, pcApp, serverVars>>

StopClose ==
    /\ pcStop = "close"
    /\ pipe' = ClientClosed
    /\ pcStop' = "wait"
    /\ UNCHANGED <<StopUnchanged, lock, pcApp, serverVars, torn>>

\* Fault: StopServer does not wait for the server thread.
StopWithoutWaiting ==
    /\ pcStop = "wait"
    /\ pcStop' = "disconnect"
    /\ UNCHANGED <<StopUnchanged, lock, pcApp, serverVars, pipe, torn>>

StopServerGone ==
    /\ pcStop = "wait" /\ pcServer = "none"
    /\ pcStop' = "disconnect"
    /\ UNCHANGED <<StopUnchanged, lock, pcApp, serverVars, pipe, torn>>

\* The thread is still there after ten seconds when it listens again, or when
\* it started so late that it set m_bPipeServerRunning itself.
ServerStuck == pcServer = "listen" \/ (pcServer # "start" /\ serverRunning)

\* Fault: StopServer waits for the server thread without a limit.
StopNeverTimesOut == FALSE

StopTimeout ==
    /\ pcStop = "wait" /\ pcServer # "none" /\ ServerStuck
    /\ pcServer' = "none"
    /\ pcStop' = "disconnect"
    /\ UNCHANGED <<StopUnchanged, lock, pcApp, hPipe, serverRunning, bConnected, pipe,
                   torn>>

StopDisconnect ==
    /\ pcStop = "disconnect"
    /\ pipe' = Disconnected
    /\ pcStop' = "handle"
    /\ UNCHANGED <<StopUnchanged, lock, pcApp, serverVars, torn>>

StopCloseHandle ==
    /\ pcStop = "handle"
    /\ pipe' = NoPipe
    /\ hPipe' = "closed"
    /\ pcStop' = "null"
    /\ UNCHANGED <<StopUnchanged, lock, pcApp, serverRunning, bConnected, pcServer, torn>>

\* m_hPipe = NULL, and the caller returns.
StopDone ==
    /\ pcStop = "null"
    /\ hPipe' = "null"
    /\ pcStop' = "idle"
    /\ pcApp' = IF pcApp = "delete" THEN "gone" ELSE pcApp
    /\ lock' = IF lock = "stream" THEN "free" ELSE lock
    /\ UNCHANGED <<StopUnchanged, serverRunning, bConnected, pcServer, pipe, torn>>

-----------------------------------------------------------------------------
\* The server thread, InstanceThread.

ServerUnchanged == <<filterVars, lock, pcApp, writerVars, hPipe, pcStop, historyVars>>

ServerStart ==
    /\ pcServer = "start"
    /\ serverRunning' = TRUE
    /\ pcServer' = "loop"
    /\ UNCHANGED <<ServerUnchanged, bConnected, pipe>>

\* The while condition; the thread ends when it is false.
ServerLoop ==
    /\ pcServer = "loop"
    /\ IF serverRunning /\ hPipe # "null"
       THEN pcServer' = "connect" /\ UNCHANGED serverRunning
       ELSE pcServer' = "none" /\ serverRunning' = FALSE
    /\ UNCHANGED <<ServerUnchanged, bConnected, pipe>>

\* ConnectNamedPipe blocks when there is no client, answers
\* ERROR_PIPE_CONNECTED when there is one, and fails when one came and went.
ServerConnect ==
    /\ pcServer = "connect"
    /\ IF hPipe = "open" /\ pipe.state \in {"listening", "disconnected"}
       THEN pipe' = Listening /\ pcServer' = "listen" /\ UNCHANGED bConnected
       ELSE /\ bConnected' = (hPipe = "open" /\ pipe.state = "connected")
            /\ pcServer' = "after"
            /\ UNCHANGED pipe
    /\ UNCHANGED <<ServerUnchanged, serverRunning>>

\* A client opened the pipe (and may have closed it since).
ServerAccepted ==
    /\ pcServer = "listen" /\ pipe.state \in {"connected", "closing"}
    /\ bConnected' = TRUE
    /\ pcServer' = "after"
    /\ UNCHANGED <<ServerUnchanged, serverRunning, pipe>>

\* Fault: the server does not let go of a client that left.
ServerAfterNoDisconnect ==
    /\ pcServer = "after"
    /\ pcServer' = "loop"
    /\ UNCHANGED <<ServerUnchanged, serverRunning, bConnected, pipe>>

\* The rest of the loop's body.
ServerAfter ==
    /\ pcServer = "after"
    /\ pipe' = IF serverRunning /\ ~bConnected /\ hPipe = "open" THEN Disconnected ELSE pipe
    /\ pcServer' = "loop"
    /\ UNCHANGED <<ServerUnchanged, serverRunning, bConnected>>

-----------------------------------------------------------------------------
\* A writer thread, InstanceWritePipeThread.

WriterUnchanged ==
    <<filterVars, lock, pcApp, writeBuffering, hThread2, serverVars, pcStop, nextId, torn>>

Goto(w, place) == pcW' = [pcW EXCEPT ![w] = place]
Drop(w)        == Goto(w, "check") /\ cur' = [cur EXCEPT ![w] = NoSample]

\* Both while conditions test m_bWriteBuffering; the thread ends when it is
\* clear.
WriterCheck(w) ==
    /\ pcW[w] = "check"
    /\ Goto(w, IF writeBuffering THEN "take" ELSE "none")
    /\ UNCHANGED <<WriterUnchanged, cur, buffer, pipe, sent>>

\* Fault: GetNextWriteBufferSample returns the front without popping it.
WriterPeek(w) ==
    /\ pcW[w] = "take" /\ lock = "free"
    /\ IF buffer = << >>
       THEN Goto(w, "check") /\ UNCHANGED cur
       ELSE Goto(w, "test") /\ cur' = [cur EXCEPT ![w] = Head(buffer)]
    /\ UNCHANGED <<WriterUnchanged, buffer, pipe, sent>>

\* Fault: the writer ends when it finds the queue empty.
WriterTakeOrEnd(w) ==
    /\ pcW[w] = "take" /\ lock = "free"
    /\ IF buffer = << >>
       THEN Goto(w, "none") /\ UNCHANGED <<buffer, cur>>
       ELSE /\ Goto(w, "test")
            /\ cur' = [cur EXCEPT ![w] = Head(buffer)]
            /\ buffer' = Tail(buffer)
    /\ UNCHANGED <<WriterUnchanged, pipe, sent>>

\* GetNextWriteBufferSample, under m_pinLock.
WriterTake(w) ==
    /\ pcW[w] = "take" /\ lock = "free"
    /\ IF buffer = << >>
       THEN Goto(w, "check") /\ UNCHANGED <<buffer, cur>>
       ELSE /\ Goto(w, "test")
            /\ cur' = [cur EXCEPT ![w] = Head(buffer)]
            /\ buffer' = Tail(buffer)
    /\ UNCHANGED <<WriterUnchanged, pipe, sent>>

\* A sample nobody is connected for is deleted.
WriterTest(w) ==
    /\ pcW[w] = "test"
    /\ IF bConnected THEN Goto(w, "info") /\ UNCHANGED cur ELSE Drop(w)
    /\ UNCHANGED <<WriterUnchanged, buffer, pipe, sent>>

\* Fault: an overlapped WriteFile, which does not wait for room.
WriterInfoNoWait(w) ==
    /\ pcW[w] = "info"
    /\ IF WriteFails(pipe)
       THEN UNCHANGED <<pipe, sent>>
       ELSE pipe' = Written(pipe, Info(cur[w])) /\ sent' = Append(sent, cur[w].id)
    /\ IF cur[w].data THEN Goto(w, "data") /\ UNCHANGED cur ELSE Drop(w)
    /\ UNCHANGED <<WriterUnchanged, buffer>>

\* WriteFile of the MediaSampleInfo; its result is not looked at.
WriterInfo(w) ==
    /\ pcW[w] = "info"
    /\ \/ WriteFails(pipe) /\ UNCHANGED <<pipe, sent>>
       \/ /\ WriteRoom(pipe, PipeCapacity)
          /\ pipe' = Written(pipe, Info(cur[w]))
          /\ sent' = Append(sent, cur[w].id)
    /\ IF cur[w].data THEN Goto(w, "data") /\ UNCHANGED cur ELSE Drop(w)
    /\ UNCHANGED <<WriterUnchanged, buffer>>

\* WriteFile of the sample's bytes; the sample is deleted either way.
WriterData(w) ==
    /\ pcW[w] = "data"
    /\ \/ WriteFails(pipe) /\ UNCHANGED pipe
       \/ WriteRoom(pipe, PipeCapacity) /\ pipe' = Written(pipe, Data(cur[w]))
    /\ Drop(w)
    /\ UNCHANGED <<WriterUnchanged, buffer, sent>>

-----------------------------------------------------------------------------
\* The client: the source filter's pin in another process.

ClientUnchanged ==
    <<filterVars, lock, pcApp, writerVars, serverVars, pcStop, nextId, sent>>

ClientOpen ==
    /\ CanOpen(pipe)
    /\ pipe' = Opened("source")
    /\ torn' = FALSE
    /\ UNCHANGED ClientUnchanged

ClientRead ==
    /\ pipe.client = "source" /\ pipe.queue # << >>
    /\ pipe' = ReadMsg(pipe)
    /\ UNCHANGED <<ClientUnchanged, torn>>

ClientClose ==
    /\ pipe.client = "source"
    /\ pipe' = ClientClosed
    /\ UNCHANGED <<ClientUnchanged, torn>>

-----------------------------------------------------------------------------
App == \/ AcceptConnection \/ RejectConnection \/ NotifyAllocator
       \/ FilterStart \/ FilterStop \/ UpstreamStart \/ UpstreamStop
       \/ BeginFlush \/ EndFlush \/ Disconnect \/ BreakWriterGone \/ BreakTimeout
       \/ Delete \/ Deleted
Stream == Receive \/ ReceiveBadFormat \/ EndOfStream
StopServer == \/ StopOpen \/ StopClose \/ StopServerGone \/ StopTimeout
              \/ StopDisconnect \/ StopCloseHandle \/ StopDone
Server == ServerStart \/ ServerLoop \/ ServerConnect \/ ServerAccepted \/ ServerAfter
WriterStep(w) == \/ WriterCheck(w) \/ WriterTake(w) \/ WriterTest(w)
                 \/ WriterInfo(w) \/ WriterData(w)
Client == ClientOpen \/ ClientRead \/ ClientClose

Next == App \/ Stream \/ StopServer \/ Server \/ Client \/ \E w \in Writer : WriterStep(w)

Spec == Init /\ [][Next]_vars

\* The operating system runs every thread that can run, a wait of ten seconds
\* ends, and the client that has opened the pipe reads what is in it.
FairSpec ==
    /\ Spec
    /\ WF_vars(BreakWriterGone \/ BreakTimeout)
    /\ WF_vars(StopServer)
    /\ WF_vars(Server)
    /\ WF_vars(ClientRead)
    /\ \A w \in Writer : WF_vars(WriterStep(w))

-----------------------------------------------------------------------------
\* Properties.

\* At most one writer thread is alive, and it is the one m_hThread2 names: two
\* of them would interleave the messages of two samples, and BreakConnect
\* would wait for one only.
AtMostOneWriter == \A w \in Writer : pcW[w] # "none" => hThread2 = w

\* A live server thread finds its pipe open: StopServer closes the handle only
\* when the thread has ended, and no second server is ever created.
ServerOwnsPipe == pcServer # "none" => hPipe = "open"

\* In the stream a client reads, the bytes of a sample come right after its own
\* MediaSampleInfo or first of all, and an info that announces bytes is
\* followed by them.  Only a writer terminated between the two breaks the
\* second half.
Framing ==
    \A i \in 1 .. Len(pipe.queue) - 1 :
        LET m == pipe.queue[i]
            n == pipe.queue[i + 1]
        IN  /\ n.kind = "data" => m.kind = "info" /\ m.id = n.id /\ m.data
            /\ m.kind = "info" /\ m.data => torn \/ (n.kind = "data" /\ n.id = m.id)

\* The destructor leaves no thread of the pin behind.
NoThreadAfterDelete ==
    pcApp = "gone" => pcServer = "none" /\ \A w \in Writer : pcW[w] = "none"

\* What the pin promises: samples go out in the order they came in, each at
\* most once, whatever happens to connections, threads and pipes in between.
Channel == INSTANCE SampleChannel WITH received <- nextId
InOrder == Channel!Spec

\* StopServer returns, although the thread it waits for may not end, and so does
\* Disconnect, although it waits for a writer that may want its lock.
Waits == pcStop # "idle" \/ pcApp = "break"
CallsReturn == Waits ~> ~Waits

\* A client that left the pipe does not lock the next one out: the server lets
\* go of it and listens again, unless the pipe is being closed.
ClientCanReturn ==
    (hPipe = "open" /\ pipe.state \in {"closing", "disconnected"})
        ~> (CanOpen(pipe) \/ hPipe # "open")

\* The writer takes the samples that are queued, unless the pin is disconnected.
QueuedSampleIsTaken == buffer # << >> ~> buffer = << >> \/ ~writeBuffering

-----------------------------------------------------------------------------
\* The inductive invariant behind the safety properties.

\* Who may call the pin when.
Lifecycle ==
    /\ upstream => connected
    /\ pcApp = "break" => lock = "app" /\ connected /\ ~upstream
    /\ pcApp \in {"delete", "gone"} => ~connected
    /\ pcApp = "gone" => hPipe = "null"

\* Without m_bWriteBuffering no writer is left, but for the one BreakConnect
\* is waiting for; with it, m_hThread2 names the one there is.
OneWriter ==
    /\ AtMostOneWriter
    /\ ~writeBuffering /\ pcApp # "break" => \A w \in Writer : pcW[w] = "none"
    /\ writeBuffering => hThread2 \in Writer /\ connected /\ pcApp # "break"

\* StopServer runs once at a time, on an open pipe, and closes it when the
\* server thread is gone.
StopInv ==
    /\ ServerOwnsPipe
    /\ pcStop = "idle" => hPipe # "closed" /\ pcApp # "delete"
    /\ pcStop \in {"open", "close", "wait", "disconnect", "handle"} => hPipe = "open"
    /\ pcStop = "null" => hPipe = "closed"
    /\ pcStop \in {"disconnect", "handle", "null"} => pcServer = "none"
    /\ pcStop # "idle" => upstream \/ pcApp = "delete"

\* Numbers grow from those sent, through the one in the writer's hands, to the
\* queued ones.
Holding(w) == pcW[w] \in {"test", "info", "data"}

QueueOrder ==
    /\ \A i \in DOMAIN buffer : buffer[i].id \in 1 .. nextId
    /\ \A i, j \in DOMAIN buffer : i < j => buffer[i].id < buffer[j].id

SentOrder ==
    \A k \in DOMAIN sent :
        /\ sent[k] \in 1 .. nextId
        /\ \A i \in DOMAIN buffer : sent[k] < buffer[i].id

HeldOrder ==
    \A w \in Writer : Holding(w) =>
        /\ cur[w].id \in 1 .. nextId
        /\ \A i \in DOMAIN buffer : cur[w].id < buffer[i].id
        /\ pcW[w] # "data" => \A k \in DOMAIN sent : sent[k] < cur[w].id

OrderInv == QueueOrder /\ SentOrder /\ HeldOrder

\* What the last message in the pipe says of the writer.
LastMsg == pipe.queue[Len(pipe.queue)]
FramingInv ==
    /\ Framing
    /\ pipe.queue # << >> => pipe.state = "connected"
    /\ \A w \in Writer : pcW[w] = "data" =>
           cur[w].data /\ (pipe.queue # << >> => LastMsg = Info(cur[w]))
    /\ pipe.queue # << >> /\ LastMsg.kind = "info" /\ LastMsg.data =>
           torn \/ \E w \in Writer : pcW[w] = "data"

IInv == TypeOK /\ Lifecycle /\ OneWriter /\ StopInv /\ OrderInv /\ FramingInv

-----------------------------------------------------------------------------
\* "releases the blocking pipe connection listener": once StopServer has tried
\* to open the pipe, the server thread does not block in ConnectNamedPipe.
ListenerReleased == pcStop = "wait" /\ pcServer = "listen" => pipe.state # "listening"
=============================================================================
