------------------------------ MODULE SourcePin ------------------------------
(***************************************************************************)
(* One CVirtualStreamSourceOutputPin: a CSourceStream whose worker thread  *)
(* reads the samples from the sink's pipe and delivers them downstream.    *)
(*                                                                         *)
(*   - the application thread pauses, runs, stops and deletes the filter;  *)
(*     it talks to the worker through CAMThread's two events;              *)
(*   - the worker is ThreadProc, DoBufferProcessingLoop and FillBuffer;    *)
(*   - the sink is the environment: it creates and closes the pipe and     *)
(*     writes the samples, each an info and, when it has any, its bytes;   *)
(*     as SinkPin allows, the pin's first connection may begin with the    *)
(*     bytes of a sample whose info went to another client, and a writer   *)
(*     may be terminated before the bytes.                                 *)
(*                                                                         *)
(* A call of CallWorker is two actions of the caller: the request, and the *)
(* return when the worker has replied.                                     *)
(***************************************************************************)
EXTENDS NamedPipe

CONSTANTS MaxSamples,       \* bound: how many samples the sink sends
          PipeCapacity      \* bound: messages the pipe's output buffer holds

ASSUME BoundsAssumption == MaxSamples \in Nat /\ PipeCapacity \in Nat \ {0}

Commands == {"init", "pause", "stop", "exit"}
Messages == [kind : {"info", "data"}, id : Nat, data : BOOLEAN]
Info(n, hasData) == [kind |-> "info", id |-> n, data |-> hasData]
Data(n)          == [kind |-> "data", id |-> n, data |-> TRUE]

\* A media sample the worker fills: what its properties and its bytes came
\* from (0: nothing, the buffer holds whatever it held).
Buffers == [info : Nat, hasData : BOOLEAN, bytes : Nat, discontinuity : BOOLEAN]
Unfilled == [info |-> 0, hasData |-> FALSE, bytes |-> 0, discontinuity |-> FALSE]

VARIABLES
    active,         \* the filter's m_State is not State_Stopped
    committed,      \* the output allocator is committed
    starved,        \* every buffer of the allocator is held downstream
    pcApp,          \* the application thread
    request,        \* m_dwParam while m_EventSend is set
    complete,       \* m_EventComplete
    pcW, cont,      \* the worker, and where it goes after Reply
    m_bRunning, m_bConnected,
    firstDelivered, \* m_fFirstSampleDelivered
    m_hPipe,        \* "null", "invalid" (CreateFile failed) or "open"
    pipe,           \* the sink's pipe
    sample,         \* the sample the worker fills
    nextId, owes,   \* the sink: samples sent, and whether the bytes of the
                    \* last one are still to be written
    torn,           \* history: a message of a sample went to another client,
                    \* or was never written
    callsFail,      \* may the sample's SetSyncPoint ... SetDiscontinuity fail
    taken,          \* history: numbers of the infos read
    fresh           \* history: no filled sample since the stream started

allocVars == <<committed, starved>>
pinVars  == <<m_bRunning, m_bConnected, firstDelivered, m_hPipe, sample>>
sinkVars == <<nextId, owes, torn, callsFail>>
vars == <<active, allocVars, pcApp, request, complete, pcW, cont, pinVars, pipe,
          sinkVars, taken, fresh>>

FlagsOK ==
    /\ active \in BOOLEAN /\ committed \in BOOLEAN
    /\ starved \in BOOLEAN /\ complete \in BOOLEAN
    /\ m_bRunning \in BOOLEAN /\ m_bConnected \in BOOLEAN
    /\ firstDelivered \in BOOLEAN /\ owes \in BOOLEAN
    /\ torn \in BOOLEAN /\ callsFail \in BOOLEAN /\ fresh \in BOOLEAN

DataOK ==
    /\ pcApp \in {"idle", "init", "pause", "inactive", "stop", "exit", "close", "gone"}
    /\ request \in Commands \cup {"none"}
    /\ pcW \in {"none", "init", "command", "play", "check", "buffer", "fill", "close",
                "open", "mode", "readInfo", "setUp", "readData", "deliver", "eos",
                "destroy", "reply1", "reply2"}
    /\ cont \in {"init", "command", "play", "check", "destroy"}
    /\ m_hPipe \in {"null", "invalid", "open"}
    /\ pipe \in Pipes(Messages) /\ Len(pipe.queue) <= PipeCapacity
    /\ sample \in Buffers
    /\ nextId \in Nat
    /\ taken \in Seq(Nat)

TypeOK == FlagsOK /\ DataOK

\* m_bRunning is set by nobody before the worker starts to play. The sink may be
\* in the middle of a sample.
Init ==
    /\ active = FALSE /\ committed = FALSE /\ starved = FALSE /\ pcApp = "idle"
    /\ request = "none" /\ complete = FALSE /\ pcW = "none" /\ cont = "init"
    /\ m_bRunning \in BOOLEAN
    /\ m_bConnected = FALSE /\ firstDelivered = FALSE
    /\ m_hPipe = "null" /\ pipe = NoPipe /\ sample = Unfilled
    /\ nextId = 0 /\ owes \in BOOLEAN /\ torn = owes
    /\ taken = << >> /\ fresh = TRUE /\ callsFail \in BOOLEAN

\* The pin's handle is the client end of a live connection; after the sink has
\* disconnected or closed the pipe the handle is still open, but dead.
Attached == m_hPipe = "open" /\ pipe.client = "source"

\* DisconnectPipe closes the handle, and leaves m_bConnected as it is.
DisconnectPipe ==
    /\ m_hPipe' = "null"
    /\ pipe' = IF Attached THEN ClientClosed ELSE pipe

-----------------------------------------------------------------------------
\* The application thread.

AppUnchanged == <<pipe, sinkVars, taken, fresh>>

\* CallWorker: set m_dwParam and m_EventSend, then wait for m_EventComplete.
Call(cmd) == request' = cmd /\ pcApp' = cmd
Returned(cmd) == pcApp = cmd /\ complete /\ complete' = FALSE

\* Pause of a stopped filter, CSourceStream::Active: commit, create the
\* thread, call it with CMD_INIT.
Activate ==
    /\ pcApp = "idle" /\ ~active
    /\ committed' = TRUE
    /\ pcW' = "init"
    /\ Call("init")
    /\ UNCHANGED <<active, starved, complete, cont, pinVars, AppUnchanged>>

InitReturned ==
    /\ Returned("init")
    /\ Call("pause")
    /\ UNCHANGED <<active, allocVars, pcW, cont, pinVars, AppUnchanged>>

PauseReturned ==
    /\ Returned("pause")
    /\ active' = TRUE
    /\ pcApp' = "idle"
    /\ UNCHANGED <<allocVars, request, pcW, cont, pinVars, AppUnchanged>>

\* Run first resets the pin, whatever the worker is doing.
RunReset ==
    /\ pcApp = "idle"
    /\ firstDelivered' = FALSE
    /\ UNCHANGED <<active, allocVars, pcApp, request, complete, pcW, cont, m_bRunning,
                   m_bConnected, m_hPipe, sample, AppUnchanged>>

\* CVirtualStreamSource::Stop first tells the pin, without any lock and also
\* when the filter is stopped...
StopPin ==
    /\ pcApp = "idle"
    /\ m_bRunning' = FALSE
    /\ firstDelivered' = FALSE
    /\ pcApp' = IF active THEN "inactive" ELSE "idle"
    /\ UNCHANGED <<active, allocVars, request, complete, pcW, cont, m_bConnected, m_hPipe,
                   sample, AppUnchanged>>

\* ... and then CSourceStream::Inactive decommits the allocator, where the
\* worker may be waiting, and calls the worker.
Deactivate ==
    /\ pcApp = "inactive"
    /\ committed' = FALSE
    /\ Call("stop")
    /\ UNCHANGED <<active, starved, complete, pcW, cont, pinVars, AppUnchanged>>

StopReturned ==
    /\ Returned("stop")
    /\ Call("exit")
    /\ UNCHANGED <<active, allocVars, pcW, cont, pinVars, AppUnchanged>>

\* Fault: Inactive does not wait for the thread it has told to exit.
ExitWithoutClose ==
    /\ Returned("exit")
    /\ active' = FALSE
    /\ pcApp' = "idle"
    /\ UNCHANGED <<allocVars, request, pcW, cont, pinVars, AppUnchanged>>

ExitReturned ==
    /\ Returned("exit")
    /\ pcApp' = "close"
    /\ UNCHANGED <<active, allocVars, request, pcW, cont, pinVars, AppUnchanged>>

\* Close waits for the thread itself.
Closed ==
    /\ pcApp = "close" /\ pcW = "none"
    /\ active' = FALSE
    /\ pcApp' = "idle"
    /\ UNCHANGED <<allocVars, request, complete, pcW, cont, pinVars, AppUnchanged>>

\* The destructor.
Delete ==
    /\ pcApp = "idle" /\ ~active
    /\ DisconnectPipe
    /\ pcApp' = "gone"
    /\ UNCHANGED <<active, allocVars, request, complete, pcW, cont, m_bRunning,
                   m_bConnected, firstDelivered, sample, sinkVars, taken, fresh>>

Deleted == pcApp = "gone" /\ UNCHANGED vars

-----------------------------------------------------------------------------
\* The worker thread: commands.

WorkerUnchanged == <<active, allocVars, pcApp>>
CommandUnchanged == <<WorkerUnchanged, complete, pinVars, pipe, sinkVars, taken, fresh>>

\* Reply resets m_EventSend before it signals the caller, who may then set it
\* again.
ReplyHalf(n) ==
    \/ n = 1 /\ request' = "none" /\ UNCHANGED complete
    \/ n = 2 /\ complete' = TRUE /\ UNCHANGED request

ReplyUnchanged == <<WorkerUnchanged, cont, pinVars, pipe, sinkVars, taken, fresh>>

ReplyReset ==
    /\ pcW = "reply1"
    /\ ReplyHalf(1)
    /\ pcW' = "reply2"
    /\ UNCHANGED ReplyUnchanged

ReplyComplete ==
    /\ pcW = "reply2"
    /\ ReplyHalf(2)
    /\ pcW' = cont
    /\ UNCHANGED ReplyUnchanged

ReplyThen(place) == pcW' = "reply1" /\ cont' = place

\* ThreadProc waits for CMD_INIT ...
WorkerInit ==
    /\ pcW = "init" /\ request # "none"
    /\ ReplyThen(IF request = "init" THEN "command" ELSE "init")
    /\ UNCHANGED <<CommandUnchanged, request>>

\* ... and then serves commands until CMD_EXIT.
WorkerCommand ==
    /\ pcW = "command" /\ request # "none"
    /\ ReplyThen(CASE request = "exit" -> "destroy"
                   [] request = "pause" -> "play"
                   [] OTHER -> "command")
    /\ UNCHANGED <<CommandUnchanged, request>>

\* OnThreadStartPlay runs after the caller of CMD_PAUSE has been answered.
StartPlay ==
    /\ pcW = "play"
    /\ firstDelivered' = FALSE
    /\ m_bRunning' = TRUE
    /\ pcW' = "check"
    /\ fresh' = TRUE
    /\ UNCHANGED <<WorkerUnchanged, request, complete, cont, m_bConnected, m_hPipe, sample,
                   pipe, sinkVars, taken>>

\* Fault: the processing loop answers CMD_STOP like any other command.
CheckRequestAnswersStop ==
    /\ pcW = "check"
    /\ \/ request = "none" /\ pcW' = "buffer" /\ UNCHANGED cont
       \/ request # "none" /\ ReplyThen("check")
    /\ UNCHANGED <<CommandUnchanged, request>>

\* CheckRequest in the processing loop: CMD_STOP ends the loop and is answered
\* by ThreadProc, any other command is answered here.
CheckRequest ==
    /\ pcW = "check"
    /\ \/ request = "none" /\ pcW' = "buffer" /\ UNCHANGED cont
       \/ request = "stop" /\ pcW' = "command" /\ UNCHANGED cont
       \/ request \notin {"none", "stop"} /\ ReplyThen("check")
    /\ UNCHANGED <<CommandUnchanged, request>>

\* GetDeliveryBuffer fails when the allocator is decommitted, and waits while
\* there is no free buffer.
GetDeliveryBuffer ==
    /\ pcW = "buffer"
    /\ committed => ~starved
    /\ IF committed
       THEN pcW' = "fill" /\ sample' = Unfilled
       ELSE pcW' = "check" /\ UNCHANGED sample
    /\ UNCHANGED <<WorkerUnchanged, request, complete, cont, m_bRunning, m_bConnected,
                   firstDelivered, m_hPipe, pipe, sinkVars, taken, fresh>>

\* OnThreadDestroy, and the end of the thread.
Destroy ==
    /\ pcW = "destroy"
    /\ m_bRunning' = FALSE
    /\ pcW' = "none"
    /\ UNCHANGED <<WorkerUnchanged, request, complete, cont, m_bConnected, firstDelivered,
                   m_hPipe, sample, pipe, sinkVars, taken, fresh>>
-----------------------------------------------------------------------------
\* The worker thread: FillBuffer and the delivery of what it filled.

FillUnchanged == <<WorkerUnchanged, request, complete, cont, m_bRunning, sinkVars>>

FillBuffer ==
    /\ pcW = "fill"
    /\ IF m_bRunning
       THEN /\ pcW' = IF m_bConnected THEN "readInfo" ELSE "close"
            /\ UNCHANGED <<m_hPipe, pipe>>
       ELSE pcW' = "eos" /\ DisconnectPipe
    /\ UNCHANGED <<FillUnchanged, m_bConnected, firstDelivered, sample, taken, fresh>>

\* ConnectToSinkPin closes a handle it finds, an invalid one too.
ConnectClose ==
    /\ pcW = "close"
    /\ DisconnectPipe
    /\ m_bConnected' = FALSE
    /\ pcW' = "open"
    /\ UNCHANGED <<FillUnchanged, firstDelivered, sample, taken, fresh>>

\* CreateFile; a pipe that is busy is tried again until WaitNamedPipe gives up.
\* A failure leaves INVALID_HANDLE_VALUE in m_hPipe and is not reported.
ConnectOpen ==
    /\ pcW = "open"
    /\ IF CanOpen(pipe)
       THEN pipe' = Opened("source") /\ m_hPipe' = "open" /\ pcW' = "mode"
       ELSE /\ m_hPipe' = "invalid"
            /\ pcW' \in {"deliver"} \cup IF pipe.state = "none" THEN {} ELSE {"open"}
            /\ UNCHANGED pipe
    /\ UNCHANGED <<FillUnchanged, m_bConnected, firstDelivered, sample, taken, fresh>>

\* SetNamedPipeHandleState fails when the sink has gone already.
ConnectMode ==
    /\ pcW = "mode"
    /\ m_bConnected' = Attached
    /\ pcW' = IF Attached THEN "readInfo" ELSE "deliver"
    /\ UNCHANGED <<FillUnchanged, firstDelivered, m_hPipe, sample, pipe, taken, fresh>>

\* Fault: FillBuffer looks at the info and leaves it in the pipe.
ReadInfoPeek ==
    /\ pcW = "readInfo"
    /\ \/ ~Attached /\ pcW' = "deliver" /\ UNCHANGED <<sample, taken>>
       \/ /\ Attached /\ pipe.queue # << >>
          /\ sample' = [sample EXCEPT !.info = Head(pipe.queue).id]
          /\ taken' = Append(taken, Head(pipe.queue).id)
          /\ pcW' = "setUp"
    /\ UNCHANGED <<FillUnchanged, m_bConnected, firstDelivered, m_hPipe, pipe, fresh>>

\* ReadFile of the MediaSampleInfo: it blocks while the pipe is empty; when the
\* handle is dead, the sample is delivered as it is.  The bytes of a sample are
\* taken for an info when they are short enough; otherwise the read fails with
\* ERROR_MORE_DATA, over and over until the rest of them is consumed.
ReadInfo ==
    /\ pcW = "readInfo"
    /\ \/ ~Attached /\ pcW' = "deliver" /\ UNCHANGED <<pipe, sample, taken>>
       \/ /\ Attached /\ pipe.queue # << >> /\ Head(pipe.queue).kind = "info"
          /\ sample' = [sample EXCEPT !.info = Head(pipe.queue).id,
                                      !.hasData = Head(pipe.queue).data]
          /\ taken' = Append(taken, Head(pipe.queue).id)
          /\ pipe' = ReadMsg(pipe)
          /\ pcW' = "setUp"
       \/ /\ Attached /\ pipe.queue # << >> /\ Head(pipe.queue).kind = "data"
          /\ \/ /\ \E hasData \in BOOLEAN : sample' = [sample EXCEPT !.hasData = hasData]
                /\ pipe' = ReadMsg(pipe)
                /\ pcW' = "setUp"
             \/ pcW' = "deliver" /\ pipe' \in {pipe, ReadMsg(pipe)} /\ UNCHANGED sample
          /\ UNCHANGED taken
    /\ UNCHANGED <<FillUnchanged, m_bConnected, firstDelivered, m_hPipe, fresh>>

\* Fault: FillBuffer forgets the bytes of a sample after a discontinuity.
SetUpWithoutBytes ==
    /\ pcW = "setUp"
    /\ firstDelivered' = TRUE
    /\ pcW' = IF sample.hasData /\ firstDelivered THEN "readData" ELSE "deliver"
    /\ UNCHANGED <<FillUnchanged, m_bConnected, m_hPipe, sample, pipe, taken, fresh>>

\* The sample's properties. m_fFirstSampleDelivered is set before it is asked
\* whether the sample is the first, and before anything is delivered. A call
\* that fails makes FillBuffer return: SetSyncPoint's failure as S_OK, the
\* others as an error, which ends the stream.
SetUp ==
    /\ pcW = "setUp"
    /\ firstDelivered' = TRUE
    /\ sample' = [sample EXCEPT !.discontinuity = ~firstDelivered']
    /\ pcW' \in {IF sample.hasData THEN "readData" ELSE "deliver"}
                \cup IF callsFail THEN {"deliver", "eos"} ELSE {}
    /\ UNCHANGED <<FillUnchanged, m_bConnected, m_hPipe, pipe, taken, fresh>>

\* ReadFile of the bytes; its result is not looked at.
ReadData ==
    /\ pcW = "readData"
    /\ \/ ~Attached /\ UNCHANGED <<pipe, sample>>
       \/ /\ Attached /\ pipe.queue # << >>
          /\ sample' = [sample EXCEPT !.bytes = Head(pipe.queue).id]
          /\ pipe' = ReadMsg(pipe)
    /\ pcW' = "deliver"
    /\ UNCHANGED <<FillUnchanged, m_bConnected, firstDelivered, m_hPipe, taken, fresh>>

Filled == sample.info # 0 /\ (sample.hasData => sample.bytes # 0)

\* The downstream filter takes the sample, and perhaps keeps the last buffer, or
\* wants no more of them.
Deliver ==
    /\ pcW = "deliver"
    /\ pcW' \in {"check", "command"}
    /\ starved' \in BOOLEAN
    /\ fresh' = (fresh /\ ~Filled)
    /\ UNCHANGED <<active, committed, pcApp, request, complete, cont, pinVars, pipe,
                   sinkVars, taken>>

DeliverEndOfStream ==
    /\ pcW = "eos"
    /\ pcW' = "command"
    /\ UNCHANGED <<FillUnchanged, m_bConnected, firstDelivered, m_hPipe, sample, pipe, taken,
                   fresh>>

-----------------------------------------------------------------------------
\* The downstream filter lets go of a buffer.
DownstreamRelease ==
    /\ starved
    /\ starved' = FALSE
    /\ UNCHANGED <<active, committed, pcApp, request, complete, pcW, cont, pinVars, pipe,
                   sinkVars, taken, fresh>>

-----------------------------------------------------------------------------
\* The sink, as its client sees it.

SinkUnchanged == <<active, allocVars, pcApp, request, complete, pcW, cont, pinVars, taken,
                   fresh>>

\* The pipe is created, or its server lets go of a client that left.
SinkListen ==
    /\ pipe.state \in {"none", "closing"}
    /\ pipe' = Listening
    /\ UNCHANGED <<SinkUnchanged, sinkVars>>

\* StopServer disconnects the pipe, which discards what was not read, and
\* closes it.
SinkClose ==
    /\ pipe.state # "none"
    /\ pipe' = NoPipe
    /\ owes' = FALSE
    /\ UNCHANGED <<SinkUnchanged, nextId, torn, callsFail>>

\* Fault: the writer does not wait for room.
SinkInfoNoWait ==
    /\ ~owes /\ nextId < MaxSamples /\ pipe.state = "connected"
    /\ nextId' = nextId + 1
    /\ \E hasData \in BOOLEAN :
           pipe' = Written(pipe, Info(nextId + 1, hasData)) /\ owes' = hasData
    /\ UNCHANGED <<SinkUnchanged, torn, callsFail>>

\* The writer's two messages.
SinkInfo ==
    /\ ~owes /\ nextId < MaxSamples /\ WriteRoom(pipe, PipeCapacity)
    /\ nextId' = nextId + 1
    /\ \E hasData \in BOOLEAN :
           pipe' = Written(pipe, Info(nextId + 1, hasData)) /\ owes' = hasData
    /\ UNCHANGED <<SinkUnchanged, torn, callsFail>>

SinkData ==
    /\ owes
    /\ \/ WriteFails(pipe) /\ UNCHANGED pipe
       \/ WriteRoom(pipe, PipeCapacity) /\ pipe' = Written(pipe, Data(nextId))
    /\ owes' = FALSE
    /\ UNCHANGED <<SinkUnchanged, nextId, torn, callsFail>>

\* BreakConnect ends a writer that a full pipe has held up for ten seconds; the
\* pipe stays, and the next writer goes on with the next sample.
SinkTerminated ==
    /\ owes /\ WriteBlocked(pipe, PipeCapacity)
    /\ owes' = FALSE /\ torn' = TRUE
    /\ UNCHANGED <<SinkUnchanged, pipe, nextId, callsFail>>

-----------------------------------------------------------------------------
App == \/ Activate \/ InitReturned \/ PauseReturned \/ RunReset \/ StopPin \/ Deactivate
       \/ StopReturned \/ ExitReturned \/ Closed \/ Delete \/ Deleted
Worker == \/ ReplyReset \/ ReplyComplete \/ WorkerInit \/ WorkerCommand \/ StartPlay
          \/ CheckRequest \/ GetDeliveryBuffer \/ Destroy \/ FillBuffer \/ ConnectClose
          \/ ConnectOpen \/ ConnectMode \/ ReadInfo \/ SetUp \/ ReadData \/ Deliver
          \/ DeliverEndOfStream
Sink == SinkListen \/ SinkClose \/ SinkInfo \/ SinkData \/ SinkTerminated

Next == App \/ Worker \/ DownstreamRelease \/ Sink

Spec == Init /\ [][Next]_vars

\* The call in progress on the application thread goes on, and so does the
\* worker when it can; the loop around WaitNamedPipe ends.
AppCall == \/ InitReturned \/ PauseReturned \/ Deactivate \/ StopReturned \/ ExitReturned
           \/ Closed
FairSpec ==
    /\ Spec
    /\ WF_vars(AppCall)
    /\ WF_vars(Worker)
    /\ SF_vars(ConnectOpen /\ pcW' # "open")

\* A sink that goes on: it sends its samples and closes the pipe after the last.
LastClose == nextId = MaxSamples /\ ~owes /\ SinkClose
LiveSinkSpec ==
    /\ FairSpec
    /\ WF_vars(SinkInfo \/ SinkData \/ LastClose)

-----------------------------------------------------------------------------
\* Properties.

\* The bytes in a delivered sample are those of the info that describes it, unless
\* the sink left a sample in halves or the pin did, when a call on it failed.
Aligned == ~callsFail /\ ~torn
SampleIntegrity ==
    pcW = "deliver" /\ sample.bytes # 0 /\ Aligned =>
        sample.hasData /\ sample.bytes = sample.info

\* When Stop has returned the worker is gone, no command is left for the next
\* one, and no answer for the next caller; and a deleted pin leaves the pipe free for
\* the next client.
QuietWhenStopped ==
    /\ ~active /\ pcApp \in {"idle", "gone"} =>
           pcW = "none" /\ request = "none" /\ ~complete /\ ~committed
    /\ pcApp = "gone" => pipe.client = "nobody" /\ m_hPipe = "null"

\* What arrives: samples are read in the order in which they were sent, each at
\* most once, over stops, restarts and failures of the pipe.
Channel == INSTANCE SampleChannel WITH received <- nextId, sent <- taken
InOrder == Channel!Spec

\* Pause and Stop return: the worker answers, whatever it is doing, and no command
\* and no answer gets lost between the two events.
CallsReturn ==
    /\ pcApp \in {"init", "pause"} ~> pcApp = "idle"
    /\ pcApp = "inactive" ~> pcApp = "idle"

\* "Deliver a filled-in sample to the connected input pin": what goes downstream
\* came out of the pipe.
DeliversFilledSamples == pcW = "deliver" => Filled

-----------------------------------------------------------------------------
\* What carries the properties from step to step.

\* The worker's places while it serves a stream or waits for a command.
Serving == {"command", "play", "check", "buffer", "fill", "close", "open", "mode", "readInfo",
            "setUp", "readData", "deliver", "eos"}

\* A call of cmd, after whose answer the worker goes on at place: on its way to
\* the worker, which is in "from" until it takes it, between the two halves of
\* the answer, or answered, with the worker in "to".
Calling(cmd, from, place, to) ==
    \/ request = cmd /\ ~complete /\ (pcW \in from \/ (pcW = "reply1" /\ cont = place))
    \/ request = "none" /\ ~complete /\ pcW = "reply2" /\ cont = place
    \/ request = "none" /\ complete /\ pcW \in to

NoCall == request = "none" /\ ~complete

\* Where the worker is, as the application thread could know it.
Handshake ==
    /\ pcApp \in {"idle", "gone"} /\ ~active => NoCall /\ pcW = "none" /\ ~committed
    /\ pcApp = "init" => ~active /\ Calling("init", {"init"}, "command", {"command"})
    /\ pcApp = "pause" => ~active /\ Calling("pause", {"command"}, "play", Serving)
    /\ pcApp \in {"idle", "inactive"} /\ active => NoCall /\ pcW \in Serving
    /\ pcApp = "stop" => Calling("stop", Serving, "command", {"command"})
    /\ pcApp = "exit" => Calling("exit", {"command"}, "destroy", {"destroy", "none"})
    /\ pcApp = "close" => NoCall /\ pcW \in {"destroy", "none"}
    /\ pcApp \in {"inactive", "stop", "exit", "close"} => active
    /\ pcApp \in {"stop", "exit", "close"} => ~committed
    /\ pcApp = "gone" => ~active

\* Who holds the client end of the pipe: a handle is never lost, and a new one is
\* asked for only when the sink had closed the last one, with nothing half sent.
HandleInv ==
    /\ pipe.client \in {"nobody", "source"}
    /\ pipe.client = "source" <=> pipe.state = "connected"
    /\ pipe.client = "nobody" => pipe.queue = << >>
    /\ pipe.client = "source" => m_hPipe = "open" /\ (m_bConnected \/ pcW = "mode")
    /\ pcW \in {"close", "open", "mode"} => ~m_bConnected
    /\ pcW = "mode" => m_hPipe = "open"
    /\ pcW = "open" => m_hPipe # "open"
    /\ owes /\ pipe.client = "nobody" => m_bConnected \/ torn
    /\ pcApp = "gone" => m_hPipe = "null"

\* The sample whose info is read and whose bytes are not.
Expecting == pcW \in {"setUp", "readData"} /\ sample.hasData /\ pipe.client = "source"

\* Until the bytes are read the sample has none, and they are read only if it is
\* to have some.
Unread ==
    /\ pcW \in {"fill", "close", "open", "mode", "readInfo", "setUp", "readData"} =>
           sample.bytes = 0
    /\ pcW = "readData" => sample.hasData

\* In the pipe the bytes of a sample follow its info; those of the last one may
\* still be on their way.
WithBytes(m) == m.kind = "info" /\ m.data
QueueFramed ==
    \A k \in DOMAIN pipe.queue :
        /\ k + 1 \in DOMAIN pipe.queue =>
               IF WithBytes(pipe.queue[k]) THEN pipe.queue[k + 1] = Data(pipe.queue[k].id)
                                           ELSE pipe.queue[k + 1].kind = "info"
        /\ k = Len(pipe.queue) =>
               /\ owes <=> WithBytes(pipe.queue[k])
               /\ owes => pipe.queue[k].id = nextId

\* The next message is what the worker expects.
HeadFramed ==
    pipe.client = "source" =>
        IF Expecting
        THEN IF pipe.queue = << >> THEN owes /\ nextId = sample.info
                                   ELSE pipe.queue[1] = Data(sample.info)
        ELSE IF pipe.queue = << >> THEN ~owes ELSE pipe.queue[1].kind = "info"

FramedInv == Unread /\ QueueFramed /\ HeadFramed /\ SampleIntegrity

\* What is read, and what is to be read, is in the order it was sent.
OrderInv ==
    /\ \A k \in DOMAIN taken : taken[k] <= nextId
    /\ \A k \in DOMAIN pipe.queue : pipe.queue[k].kind = "info" =>
           /\ pipe.queue[k].id \in 1..nextId
           /\ \A j \in DOMAIN taken : taken[j] < pipe.queue[k].id
           /\ \A l \in DOMAIN pipe.queue :
                  pipe.queue[l].kind = "info" /\ k < l => pipe.queue[k].id < pipe.queue[l].id

IInv == TypeOK /\ Handshake /\ HandleInv /\ OrderInv /\ (Aligned => FramedInv)
=============================================================================
