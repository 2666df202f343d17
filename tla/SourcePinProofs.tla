--------------------------- MODULE SourcePinProofs ---------------------------
(***************************************************************************)
(* What holds of the source's output pin whatever the number of samples    *)
(* the sink sends and of messages its pipe holds.                          *)
(*                                                                         *)
(* IInv is inductive.  Its parts are proved to be kept one after the       *)
(* other, each by a step of its own for every action: the types, the       *)
(* handshake of the application and the worker over CAMThread's events,    *)
(* the pipe's handle, the order of the samples, and the framing of infos   *)
(* and bytes, which needs the handle, since it is lost with a connection   *)
(* that ends between the two.                                              *)
(***************************************************************************)
EXTENDS SourcePin, TLAPS

-----------------------------------------------------------------------------
\* What the operators of the model return.

\* The empty queue is a queue of messages.
LEMMA NoMessages == << >> \in Seq(Messages) /\ Len(<< >>) = 0
  OBVIOUS

\* A pipe without messages is well typed.
LEMMA PipeValues ==
    /\ NoPipe \in Pipes(Messages) /\ Len(NoPipe.queue) = 0
    /\ Listening \in Pipes(Messages) /\ Len(Listening.queue) = 0
    /\ ClientClosed \in Pipes(Messages) /\ Len(ClientClosed.queue) = 0
    /\ Opened("source") \in Pipes(Messages) /\ Len(Opened("source").queue) = 0
<1>1. \A s \in PipeStates : Idle(s) \in Pipes(Messages) /\ Len(Idle(s).queue) = 0
  BY NoMessages DEF Idle, Pipes, Clients
<1>2. Opened("source") \in Pipes(Messages) /\ Len(Opened("source").queue) = 0
  BY NoMessages DEF Opened, Pipes, PipeStates, Clients
<1>. QED
  BY <1>1, <1>2 DEF NoPipe, Listening, ClientClosed, PipeStates

\* Reading takes one well-typed message from the pipe.
LEMMA ReadType ==
    ASSUME NEW p \in Pipes(Messages), p.queue # << >>
    PROVE  /\ ReadMsg(p) \in Pipes(Messages) /\ Len(ReadMsg(p).queue) = Len(p.queue) - 1
           /\ Head(p.queue) \in Messages
  BY DEF Pipes, ReadMsg

\* Writing a message, when there is room for it, keeps the pipe in its bound.
LEMMA WriteType ==
    ASSUME NEW p \in Pipes(Messages), NEW m \in Messages, WriteRoom(p, PipeCapacity)
    PROVE  Written(p, m) \in Pipes(Messages) /\ Len(Written(p, m).queue) <= PipeCapacity
<1>1. p.queue \in Seq(Messages) /\ Len(p.queue) \in Nat
  BY DEF Pipes
<1>2. Written(p, m) \in Pipes(Messages) /\ Written(p, m).queue = Append(p.queue, m)
  BY <1>1 DEF Pipes, Written
<1>3. Len(Append(p.queue, m)) = Len(p.queue) + 1
  BY <1>1
<1>. QED
  BY <1>1, <1>2, <1>3, BoundsAssumption DEF WriteRoom

\* What the sink's writer sends are messages.
LEMMA MessageType ==
    ASSUME NEW n \in Nat
    PROVE  Data(n) \in Messages /\ \A b \in BOOLEAN : Info(n, b) \in Messages
  BY DEF Messages, Info, Data

\* A buffer the worker has just been given is a buffer.
LEMMA UnfilledType == Unfilled \in Buffers
  BY DEF Unfilled, Buffers

-----------------------------------------------------------------------------
\* Types.

\* A step keeps the flags boolean.
LEMMA FlagsStep == ASSUME FlagsOK, [Next]_vars PROVE FlagsOK'
<1>1. CASE Activate
  BY <1>1 DEF Activate, Call, AppUnchanged, FlagsOK, allocVars, pinVars, sinkVars
<1>2. CASE InitReturned
  BY <1>2 DEF InitReturned, Returned, Call, AppUnchanged, FlagsOK, allocVars, pinVars,
     sinkVars
<1>3. CASE PauseReturned
  BY <1>3 DEF PauseReturned, Returned, AppUnchanged, FlagsOK, allocVars, pinVars, sinkVars
<1>4. CASE RunReset
  BY <1>4 DEF RunReset, AppUnchanged, FlagsOK, allocVars, pinVars, sinkVars
<1>5. CASE StopPin
  BY <1>5 DEF StopPin, AppUnchanged, FlagsOK, allocVars, pinVars, sinkVars
<1>6. CASE Deactivate
  BY <1>6 DEF Deactivate, Call, AppUnchanged, FlagsOK, allocVars, pinVars, sinkVars
<1>7. CASE StopReturned
  BY <1>7 DEF StopReturned, Returned, Call, AppUnchanged, FlagsOK, allocVars, pinVars,
     sinkVars
<1>8. CASE ExitReturned
  BY <1>8 DEF ExitReturned, Returned, AppUnchanged, FlagsOK, allocVars, pinVars, sinkVars
<1>9. CASE Closed
  BY <1>9 DEF Closed, AppUnchanged, FlagsOK, allocVars, pinVars, sinkVars
<1>10. CASE Delete
  BY <1>10 DEF Delete, DisconnectPipe, Attached, FlagsOK, allocVars, pinVars, sinkVars
<1>11. CASE Deleted
  BY <1>11 DEF Deleted, vars, FlagsOK, allocVars, pinVars, sinkVars
<1>12. CASE ReplyReset
  BY <1>12 DEF ReplyReset, ReplyHalf, ReplyUnchanged, WorkerUnchanged, FlagsOK, allocVars,
     pinVars, sinkVars
<1>13. CASE ReplyComplete
  BY <1>13 DEF ReplyComplete, ReplyHalf, ReplyUnchanged, WorkerUnchanged, FlagsOK,
     allocVars, pinVars, sinkVars
<1>14. CASE WorkerInit
  BY <1>14 DEF WorkerInit, ReplyThen, CommandUnchanged, WorkerUnchanged, FlagsOK,
     allocVars, pinVars, sinkVars
<1>15. CASE WorkerCommand
  BY <1>15 DEF WorkerCommand, ReplyThen, CommandUnchanged, WorkerUnchanged, FlagsOK,
     allocVars, pinVars, sinkVars
<1>16. CASE StartPlay
  BY <1>16 DEF StartPlay, WorkerUnchanged, FlagsOK, allocVars, pinVars, sinkVars
<1>17. CASE CheckRequest
  BY <1>17 DEF CheckRequest, ReplyThen, CommandUnchanged, WorkerUnchanged, FlagsOK,
     allocVars, pinVars, sinkVars
<1>18. CASE GetDeliveryBuffer
  BY <1>18 DEF GetDeliveryBuffer, WorkerUnchanged, FlagsOK, allocVars, pinVars, sinkVars
<1>19. CASE Destroy
  BY <1>19 DEF Destroy, WorkerUnchanged, FlagsOK, allocVars, pinVars, sinkVars
<1>20. CASE FillBuffer
  BY <1>20 DEF FillBuffer, FillUnchanged, WorkerUnchanged, DisconnectPipe, Attached,
     FlagsOK, allocVars, pinVars, sinkVars
<1>21. CASE ConnectClose
  BY <1>21 DEF ConnectClose, FillUnchanged, WorkerUnchanged, DisconnectPipe, Attached,
     FlagsOK, allocVars, pinVars, sinkVars
<1>22. CASE ConnectOpen
  BY <1>22 DEF ConnectOpen, FillUnchanged, WorkerUnchanged, CanOpen, FlagsOK, allocVars,
     pinVars, sinkVars
<1>23. CASE ConnectMode
  BY <1>23 DEF ConnectMode, FillUnchanged, WorkerUnchanged, Attached, FlagsOK, allocVars,
     pinVars, sinkVars
<1>24. CASE ReadInfo
  BY <1>24 DEF ReadInfo, FillUnchanged, WorkerUnchanged, Attached, FlagsOK, allocVars,
     pinVars, sinkVars
<1>25. CASE SetUp
  BY <1>25 DEF SetUp, FillUnchanged, WorkerUnchanged, FlagsOK, allocVars, pinVars, sinkVars
<1>26. CASE ReadData
  BY <1>26 DEF ReadData, FillUnchanged, WorkerUnchanged, Attached, FlagsOK, allocVars,
     pinVars, sinkVars
<1>27. CASE Deliver
  BY <1>27 DEF Deliver, FlagsOK, allocVars, pinVars, sinkVars
<1>28. CASE DeliverEndOfStream
  BY <1>28 DEF DeliverEndOfStream, FillUnchanged, WorkerUnchanged, FlagsOK, allocVars,
     pinVars, sinkVars
<1>29. CASE DownstreamRelease
  BY <1>29 DEF DownstreamRelease, FlagsOK, allocVars, pinVars, sinkVars
<1>30. CASE SinkListen
  BY <1>30 DEF SinkListen, SinkUnchanged, FlagsOK, allocVars, pinVars, sinkVars
<1>31. CASE SinkClose
  BY <1>31 DEF SinkClose, SinkUnchanged, FlagsOK, allocVars, pinVars, sinkVars
<1>32. CASE SinkInfo
  BY <1>32 DEF SinkInfo, SinkUnchanged, FlagsOK, allocVars, pinVars, sinkVars
<1>33. CASE SinkData
  BY <1>33 DEF SinkData, SinkUnchanged, FlagsOK, allocVars, pinVars, sinkVars
<1>34. CASE SinkTerminated
  BY <1>34 DEF SinkTerminated, SinkUnchanged, FlagsOK, allocVars, pinVars, sinkVars
<1>35. CASE UNCHANGED vars
  BY <1>35 DEF vars, FlagsOK, allocVars, pinVars, sinkVars
<1>. QED
  BY <1>1, <1>2, <1>3, <1>4, <1>5, <1>6, <1>7, <1>8, <1>9, <1>10, <1>11, <1>12, <1>13,
     <1>14, <1>15, <1>16, <1>17, <1>18, <1>19, <1>20, <1>21, <1>22, <1>23, <1>24, <1>25,
     <1>26, <1>27, <1>28, <1>29, <1>30, <1>31, <1>32, <1>33, <1>34, <1>35
  DEF Next, App, Worker, Sink

\* A step keeps the rest of the state well typed.
LEMMA DataStep == ASSUME DataOK, [Next]_vars PROVE DataOK'
<1>1. CASE Activate
  BY <1>1 DEF Activate, Call, AppUnchanged, DataOK, Commands, allocVars, pinVars, sinkVars
<1>2. CASE InitReturned
  BY <1>2 DEF InitReturned, Returned, Call, AppUnchanged, DataOK, Commands, allocVars,
     pinVars, sinkVars
<1>3. CASE PauseReturned
  BY <1>3 DEF PauseReturned, Returned, AppUnchanged, DataOK, Commands, allocVars, pinVars,
     sinkVars
<1>4. CASE RunReset
  BY <1>4 DEF RunReset, AppUnchanged, DataOK, Commands, allocVars, pinVars, sinkVars
<1>5. CASE StopPin
  BY <1>5 DEF StopPin, AppUnchanged, DataOK, Commands, allocVars, pinVars, sinkVars
<1>6. CASE Deactivate
  BY <1>6 DEF Deactivate, Call, AppUnchanged, DataOK, Commands, allocVars, pinVars, sinkVars
<1>7. CASE StopReturned
  BY <1>7 DEF StopReturned, Returned, Call, AppUnchanged, DataOK, Commands, allocVars,
     pinVars, sinkVars
<1>8. CASE ExitReturned
  BY <1>8 DEF ExitReturned, Returned, AppUnchanged, DataOK, Commands, allocVars, pinVars,
     sinkVars
<1>9. CASE Closed
  BY <1>9 DEF Closed, AppUnchanged, DataOK, Commands, allocVars, pinVars, sinkVars
<1>10. CASE Delete
  BY <1>10, PipeValues, BoundsAssumption DEF Delete, DisconnectPipe, Attached, DataOK,
     Commands, allocVars, pinVars, sinkVars
<1>11. CASE Deleted
  BY <1>11 DEF Deleted, vars, DataOK, Commands, allocVars, pinVars, sinkVars
<1>12. CASE ReplyReset
  BY <1>12 DEF ReplyReset, ReplyHalf, ReplyUnchanged, WorkerUnchanged, DataOK, Commands,
     allocVars, pinVars, sinkVars
<1>13. CASE ReplyComplete
  BY <1>13 DEF ReplyComplete, ReplyHalf, ReplyUnchanged, WorkerUnchanged, DataOK, Commands,
     allocVars, pinVars, sinkVars
<1>14. CASE WorkerInit
  BY <1>14 DEF WorkerInit, ReplyThen, CommandUnchanged, WorkerUnchanged, DataOK, Commands,
     allocVars, pinVars, sinkVars
<1>15. CASE WorkerCommand
  BY <1>15 DEF WorkerCommand, ReplyThen, CommandUnchanged, WorkerUnchanged, DataOK,
     Commands, allocVars, pinVars, sinkVars
<1>16. CASE StartPlay
  BY <1>16 DEF StartPlay, WorkerUnchanged, DataOK, Commands, allocVars, pinVars, sinkVars
<1>17. CASE CheckRequest
  BY <1>17 DEF CheckRequest, ReplyThen, CommandUnchanged, WorkerUnchanged, DataOK,
     Commands, allocVars, pinVars, sinkVars
<1>18. CASE GetDeliveryBuffer
  BY <1>18, UnfilledType DEF GetDeliveryBuffer, WorkerUnchanged, DataOK, Commands,
     allocVars, pinVars, sinkVars
<1>19. CASE Destroy
  BY <1>19 DEF Destroy, WorkerUnchanged, DataOK, Commands, allocVars, pinVars, sinkVars
<1>20. CASE FillBuffer
  BY <1>20, PipeValues, BoundsAssumption DEF FillBuffer, FillUnchanged, WorkerUnchanged,
     DisconnectPipe, Attached, DataOK, Commands, allocVars, pinVars, sinkVars
<1>21. CASE ConnectClose
  BY <1>21, PipeValues, BoundsAssumption DEF ConnectClose, FillUnchanged, WorkerUnchanged,
     DisconnectPipe, Attached, DataOK, Commands, allocVars, pinVars, sinkVars
<1>22. CASE ConnectOpen
  BY <1>22, PipeValues, BoundsAssumption DEF ConnectOpen, FillUnchanged, WorkerUnchanged,
     CanOpen, DataOK, Commands, allocVars, pinVars, sinkVars
<1>23. CASE ConnectMode
  BY <1>23 DEF ConnectMode, FillUnchanged, WorkerUnchanged, Attached, DataOK, Commands,
     allocVars, pinVars, sinkVars
<1>24. CASE ReadInfo
  <2>1. /\ pipe' \in Pipes(Messages) /\ Len(pipe'.queue) <= PipeCapacity
        /\ pcW' \in {"deliver", "setUp"}
    BY SMTT(40), <1>24, ReadType, BoundsAssumption DEF ReadInfo, DataOK, Pipes
  <2>2. sample' \in Buffers
    BY <1>24, ReadType DEF ReadInfo, DataOK, Buffers, Messages
  <2>3. taken' \in Seq(Nat)
    <3>1. \/ taken' = taken
          \/ Head(pipe.queue) \in Messages /\ taken' = Append(taken, Head(pipe.queue).id)
      BY <1>24, ReadType DEF ReadInfo, DataOK
    <3>2. taken \in Seq(Nat)
      BY DEF DataOK
    <3>3. \A m \in Messages : m.id \in Nat
      BY DEF Messages
    <3>. QED
      BY <3>1, <3>2, <3>3
  <2>. QED
    BY <1>24, <2>1, <2>2, <2>3 DEF ReadInfo, DataOK, FillUnchanged, WorkerUnchanged, sinkVars
<1>25. CASE SetUp
  <2>1. sample' \in Buffers
    BY <1>25 DEF SetUp, DataOK, Buffers
  <2>2. pcW' \in {"readData", "deliver", "eos"}
    BY <1>25 DEF SetUp
  <2>. QED
    BY <1>25, <2>1, <2>2 DEF SetUp, DataOK, FillUnchanged, WorkerUnchanged, sinkVars
<1>26. CASE ReadData
  <2>1. /\ pipe' \in Pipes(Messages) /\ Len(pipe'.queue) <= PipeCapacity
        /\ pcW' = "deliver"
    BY <1>26, ReadType, BoundsAssumption DEF ReadData, DataOK, Pipes
  <2>2. sample' \in Buffers
    BY <1>26, ReadType DEF ReadData, DataOK, Buffers, Messages
  <2>. QED
    BY <1>26, <2>1, <2>2 DEF ReadData, DataOK, FillUnchanged, WorkerUnchanged, sinkVars
<1>27. CASE Deliver
  BY <1>27 DEF Deliver, DataOK, Commands, allocVars, pinVars, sinkVars
<1>28. CASE DeliverEndOfStream
  BY <1>28 DEF DeliverEndOfStream, FillUnchanged, WorkerUnchanged, DataOK, Commands,
     allocVars, pinVars, sinkVars
<1>29. CASE DownstreamRelease
  BY <1>29 DEF DownstreamRelease, DataOK, Commands, allocVars, pinVars, sinkVars
<1>30. CASE SinkListen
  BY <1>30, PipeValues, BoundsAssumption DEF SinkListen, SinkUnchanged, DataOK, Commands,
     allocVars, pinVars, sinkVars
<1>31. CASE SinkClose
  BY <1>31, PipeValues, BoundsAssumption DEF SinkClose, SinkUnchanged, DataOK, Commands,
     allocVars, pinVars, sinkVars
<1>32. CASE SinkInfo
  <2>1. nextId' = nextId + 1 /\ nextId' \in Nat
    BY <1>32 DEF SinkInfo, DataOK
  <2>2. \A b \in BOOLEAN : Info(nextId + 1, b) \in Messages
    BY <2>1, MessageType
  <2>3. pipe' \in Pipes(Messages) /\ Len(pipe'.queue) <= PipeCapacity
    BY <1>32, <2>2, WriteType DEF SinkInfo, DataOK
  <2>. QED
    BY <1>32, <2>1, <2>3 DEF SinkInfo, DataOK, SinkUnchanged, allocVars, pinVars
<1>33. CASE SinkData
  <2>1. Data(nextId) \in Messages
    BY MessageType DEF DataOK
  <2>2. pipe' \in Pipes(Messages) /\ Len(pipe'.queue) <= PipeCapacity
    BY <1>33, <2>1, WriteType DEF SinkData, DataOK
  <2>. QED
    BY <1>33, <2>2 DEF SinkData, DataOK, SinkUnchanged, allocVars, pinVars
<1>34. CASE SinkTerminated
  BY <1>34 DEF SinkTerminated, SinkUnchanged, DataOK, Commands, allocVars, pinVars, sinkVars
<1>35. CASE UNCHANGED vars
  BY <1>35 DEF vars, DataOK, Commands, allocVars, pinVars, sinkVars
<1>. QED
  BY <1>1, <1>2, <1>3, <1>4, <1>5, <1>6, <1>7, <1>8, <1>9, <1>10, <1>11, <1>12, <1>13,
     <1>14, <1>15, <1>16, <1>17, <1>18, <1>19, <1>20, <1>21, <1>22, <1>23, <1>24, <1>25,
     <1>26, <1>27, <1>28, <1>29, <1>30, <1>31, <1>32, <1>33, <1>34, <1>35
  DEF Next, App, Worker, Sink

\* A step keeps the type invariant.
LEMMA Typing == ASSUME TypeOK, [Next]_vars PROVE TypeOK'
  BY FlagsStep, DataStep DEF TypeOK

-----------------------------------------------------------------------------
\* The two events between the application's thread and the worker.
LEMMA HandshakeStep == ASSUME FlagsOK, Handshake, [Next]_vars PROVE Handshake'
<1>1. CASE Activate
  BY <1>1 DEF Activate, Call, AppUnchanged, Handshake, Calling, NoCall, Serving, FlagsOK,
     allocVars, pinVars, sinkVars
<1>2. CASE InitReturned
  BY <1>2 DEF InitReturned, Returned, Call, AppUnchanged, Handshake, Calling, NoCall,
     Serving, FlagsOK, allocVars, pinVars, sinkVars
<1>3. CASE PauseReturned
  BY <1>3 DEF PauseReturned, Returned, AppUnchanged, Handshake, Calling, NoCall, Serving,
     FlagsOK, allocVars, pinVars, sinkVars
<1>4. CASE RunReset
  BY <1>4 DEF RunReset, AppUnchanged, Handshake, Calling, NoCall, Serving, FlagsOK,
     allocVars, pinVars, sinkVars
<1>5. CASE StopPin
  BY <1>5 DEF StopPin, AppUnchanged, Handshake, Calling, NoCall, Serving, FlagsOK,
     allocVars, pinVars, sinkVars
<1>6. CASE Deactivate
  BY <1>6 DEF Deactivate, Call, AppUnchanged, Handshake, Calling, NoCall, Serving, FlagsOK,
     allocVars, pinVars, sinkVars
<1>7. CASE StopReturned
  BY <1>7 DEF StopReturned, Returned, Call, AppUnchanged, Handshake, Calling, NoCall,
     Serving, FlagsOK, allocVars, pinVars, sinkVars
<1>8. CASE ExitReturned
  BY <1>8 DEF ExitReturned, Returned, AppUnchanged, Handshake, Calling, NoCall, Serving,
     FlagsOK, allocVars, pinVars, sinkVars
<1>9. CASE Closed
  BY <1>9 DEF Closed, AppUnchanged, Handshake, Calling, NoCall, Serving, FlagsOK,
     allocVars, pinVars, sinkVars
<1>10. CASE Delete
  BY <1>10 DEF Delete, DisconnectPipe, Attached, Handshake, Calling, NoCall, Serving,
     FlagsOK, allocVars, pinVars, sinkVars
<1>11. CASE Deleted
  BY <1>11 DEF Deleted, vars, Handshake, Calling, NoCall, Serving, FlagsOK, allocVars,
     pinVars, sinkVars
<1>12. CASE ReplyReset
  BY <1>12 DEF ReplyReset, ReplyHalf, ReplyUnchanged, WorkerUnchanged, Handshake, Calling,
     NoCall, Serving, FlagsOK, allocVars, pinVars, sinkVars
<1>13. CASE ReplyComplete
  BY <1>13 DEF ReplyComplete, ReplyHalf, ReplyUnchanged, WorkerUnchanged, Handshake,
     Calling, NoCall, Serving, FlagsOK, allocVars, pinVars, sinkVars
<1>14. CASE WorkerInit
  BY <1>14 DEF WorkerInit, ReplyThen, CommandUnchanged, WorkerUnchanged, Handshake,
     Calling, NoCall, Serving, FlagsOK, allocVars, pinVars, sinkVars
<1>15. CASE WorkerCommand
  BY <1>15 DEF WorkerCommand, ReplyThen, CommandUnchanged, WorkerUnchanged, Handshake,
     Calling, NoCall, Serving, FlagsOK, allocVars, pinVars, sinkVars
<1>16. CASE StartPlay
  BY <1>16 DEF StartPlay, WorkerUnchanged, Handshake, Calling, NoCall, Serving, FlagsOK,
     allocVars, pinVars, sinkVars
<1>17. CASE CheckRequest
  BY <1>17 DEF CheckRequest, ReplyThen, CommandUnchanged, WorkerUnchanged, Handshake,
     Calling, NoCall, Serving, FlagsOK, allocVars, pinVars, sinkVars
<1>18. CASE GetDeliveryBuffer
  BY <1>18 DEF GetDeliveryBuffer, WorkerUnchanged, Handshake, Calling, NoCall, Serving,
     FlagsOK, allocVars, pinVars, sinkVars
<1>19. CASE Destroy
  BY <1>19 DEF Destroy, WorkerUnchanged, Handshake, Calling, NoCall, Serving, FlagsOK,
     allocVars, pinVars, sinkVars
<1>20. CASE FillBuffer
  BY <1>20 DEF FillBuffer, FillUnchanged, WorkerUnchanged, DisconnectPipe, Attached,
     Handshake, Calling, NoCall, Serving, FlagsOK, allocVars, pinVars, sinkVars
<1>21. CASE ConnectClose
  BY <1>21 DEF ConnectClose, FillUnchanged, WorkerUnchanged, DisconnectPipe, Attached,
     Handshake, Calling, NoCall, Serving, FlagsOK, allocVars, pinVars, sinkVars
<1>22. CASE ConnectOpen
  BY <1>22 DEF ConnectOpen, FillUnchanged, WorkerUnchanged, CanOpen, Handshake, Calling,
     NoCall, Serving, FlagsOK, allocVars, pinVars, sinkVars
<1>23. CASE ConnectMode
  BY <1>23 DEF ConnectMode, FillUnchanged, WorkerUnchanged, Attached, Handshake, Calling,
     NoCall, Serving, FlagsOK, allocVars, pinVars, sinkVars
<1>24. CASE ReadInfo
  BY <1>24 DEF ReadInfo, FillUnchanged, WorkerUnchanged, Attached, Handshake, Calling,
     NoCall, Serving, FlagsOK, allocVars, pinVars, sinkVars
<1>25. CASE SetUp
  BY <1>25 DEF SetUp, FillUnchanged, WorkerUnchanged, Handshake, Calling, NoCall, Serving,
     FlagsOK, allocVars, pinVars, sinkVars
<1>26. CASE ReadData
  BY <1>26 DEF ReadData, FillUnchanged, WorkerUnchanged, Attached, Handshake, Calling,
     NoCall, Serving, FlagsOK, allocVars, pinVars, sinkVars
<1>27. CASE Deliver
  BY <1>27 DEF Deliver, Handshake, Calling, NoCall, Serving, FlagsOK, allocVars, pinVars,
     sinkVars
<1>28. CASE DeliverEndOfStream
  BY <1>28 DEF DeliverEndOfStream, FillUnchanged, WorkerUnchanged, Handshake, Calling,
     NoCall, Serving, FlagsOK, allocVars, pinVars, sinkVars
<1>29. CASE DownstreamRelease
  BY <1>29 DEF DownstreamRelease, Handshake, Calling, NoCall, Serving, FlagsOK, allocVars,
     pinVars, sinkVars
<1>30. CASE SinkListen
  BY <1>30 DEF SinkListen, SinkUnchanged, Handshake, Calling, NoCall, Serving, FlagsOK,
     allocVars, pinVars, sinkVars
<1>31. CASE SinkClose
  BY <1>31 DEF SinkClose, SinkUnchanged, Handshake, Calling, NoCall, Serving, FlagsOK,
     allocVars, pinVars, sinkVars
<1>32. CASE SinkInfo
  BY <1>32 DEF SinkInfo, SinkUnchanged, Handshake, Calling, NoCall, Serving, FlagsOK,
     allocVars, pinVars, sinkVars
<1>33. CASE SinkData
  BY <1>33 DEF SinkData, SinkUnchanged, Handshake, Calling, NoCall, Serving, FlagsOK,
     allocVars, pinVars, sinkVars
<1>34. CASE SinkTerminated
  BY <1>34 DEF SinkTerminated, SinkUnchanged, Handshake, Calling, NoCall, Serving, FlagsOK,
     allocVars, pinVars, sinkVars
<1>35. CASE UNCHANGED vars
  BY <1>35 DEF vars, Handshake, Calling, NoCall, Serving, FlagsOK, allocVars, pinVars,
     sinkVars
<1>. QED
  BY <1>1, <1>2, <1>3, <1>4, <1>5, <1>6, <1>7, <1>8, <1>9, <1>10, <1>11, <1>12, <1>13,
     <1>14, <1>15, <1>16, <1>17, <1>18, <1>19, <1>20, <1>21, <1>22, <1>23, <1>24, <1>25,
     <1>26, <1>27, <1>28, <1>29, <1>30, <1>31, <1>32, <1>33, <1>34, <1>35
  DEF Next, App, Worker, Sink

-----------------------------------------------------------------------------
\* The handle and the pipe.

\* A pipe that is created, opened, left or closed holds no messages.
LEMMA PipeFields ==
    /\ NoPipe.state = "none" /\ NoPipe.client = "nobody" /\ NoPipe.queue = << >>
    /\ Listening.state = "listening" /\ Listening.client = "nobody" /\ Listening.queue = << >>
    /\ ClientClosed.state = "closing" /\ ClientClosed.client = "nobody"
    /\ ClientClosed.queue = << >>
    /\ Opened("source").state = "connected" /\ Opened("source").client = "source"
    /\ Opened("source").queue = << >>
  BY DEF NoPipe, Listening, ClientClosed, Opened, Idle

\* Reading and writing change the queue only.
LEMMA QueueOnly ==
    ASSUME NEW p \in Pipes(Messages), NEW m \in Messages
    PROVE  /\ ReadMsg(p).state = p.state /\ ReadMsg(p).client = p.client
           /\ ReadMsg(p).queue = Tail(p.queue)
           /\ Written(p, m).state = p.state /\ Written(p, m).client = p.client
           /\ Written(p, m).queue = Append(p.queue, m)
  BY DEF Pipes, ReadMsg, Written

\* Who holds the client end of the pipe: a step never loses an open handle.
LEMMA HandleStep == ASSUME TypeOK, Handshake, HandleInv, [Next]_vars PROVE HandleInv'
<1>1. CASE Activate
  BY <1>1 DEF Activate, Call, AppUnchanged, Handshake, HandleInv, NoCall, pinVars, sinkVars
<1>2. CASE InitReturned
  BY <1>2 DEF InitReturned, Returned, Call, AppUnchanged, HandleInv, allocVars, pinVars,
     sinkVars
<1>3. CASE PauseReturned
  BY <1>3 DEF PauseReturned, Returned, AppUnchanged, HandleInv, allocVars, pinVars, sinkVars
<1>4. CASE RunReset
  BY <1>4 DEF RunReset, AppUnchanged, HandleInv, allocVars, pinVars, sinkVars
<1>5. CASE StopPin
  BY <1>5 DEF StopPin, AppUnchanged, HandleInv, allocVars, pinVars, sinkVars
<1>6. CASE Deactivate
  BY <1>6 DEF Deactivate, Call, AppUnchanged, HandleInv, allocVars, pinVars, sinkVars
<1>7. CASE StopReturned
  BY <1>7 DEF StopReturned, Returned, Call, AppUnchanged, HandleInv, allocVars, pinVars,
     sinkVars
<1>8. CASE ExitReturned
  BY <1>8 DEF ExitReturned, Returned, AppUnchanged, HandleInv, allocVars, pinVars, sinkVars
<1>9. CASE Closed
  BY <1>9 DEF Closed, AppUnchanged, HandleInv, allocVars, pinVars, sinkVars
<1>10. CASE Delete
  BY <1>10, PipeFields DEF Delete, DisconnectPipe, Attached, Handshake, HandleInv, NoCall,
     sinkVars
<1>11. CASE Deleted
  BY <1>11 DEF Deleted, vars, HandleInv, allocVars, pinVars, sinkVars
<1>12. CASE ReplyReset
  BY <1>12 DEF ReplyReset, ReplyHalf, ReplyUnchanged, WorkerUnchanged, HandleInv,
     allocVars, pinVars, sinkVars
<1>13. CASE ReplyComplete
  BY <1>13 DEF ReplyComplete, ReplyUnchanged, WorkerUnchanged, HandleInv, TypeOK, DataOK,
     pinVars, sinkVars
<1>14. CASE WorkerInit
  BY <1>14 DEF WorkerInit, ReplyThen, CommandUnchanged, WorkerUnchanged, HandleInv,
     allocVars, pinVars, sinkVars
<1>15. CASE WorkerCommand
  BY <1>15 DEF WorkerCommand, ReplyThen, CommandUnchanged, WorkerUnchanged, HandleInv,
     allocVars, pinVars, sinkVars
<1>16. CASE StartPlay
  BY <1>16 DEF StartPlay, WorkerUnchanged, HandleInv, allocVars, pinVars, sinkVars
<1>17. CASE CheckRequest
  BY <1>17 DEF CheckRequest, ReplyThen, CommandUnchanged, WorkerUnchanged, HandleInv,
     allocVars, pinVars, sinkVars
<1>18. CASE GetDeliveryBuffer
  BY <1>18 DEF GetDeliveryBuffer, WorkerUnchanged, HandleInv, allocVars, pinVars, sinkVars
<1>19. CASE Destroy
  BY <1>19 DEF Destroy, WorkerUnchanged, HandleInv, allocVars, pinVars, sinkVars
<1>20. CASE FillBuffer
  BY <1>20, PipeFields DEF FillBuffer, FillUnchanged, WorkerUnchanged, DisconnectPipe,
     Attached, HandleInv, allocVars, pinVars, sinkVars
<1>21. CASE ConnectClose
  BY <1>21, PipeFields DEF ConnectClose, FillUnchanged, WorkerUnchanged, DisconnectPipe,
     Attached, HandleInv, allocVars, pinVars, sinkVars
<1>22. CASE ConnectOpen
  <2>0. pcApp # "gone"
    BY <1>22 DEF ConnectOpen, Handshake
  <2>1. CASE CanOpen(pipe)
    BY <1>22, <2>0, <2>1, PipeFields DEF ConnectOpen, CanOpen, HandleInv, FillUnchanged,
       WorkerUnchanged, sinkVars
  <2>2. CASE ~CanOpen(pipe)
    <3>1. pipe' = pipe /\ m_hPipe' = "invalid" /\ pcW' \in {"deliver", "open"}
      BY <1>22, <2>2 DEF ConnectOpen
    <3>. QED
      BY <1>22, <2>0, <3>1 DEF ConnectOpen, HandleInv, FillUnchanged, WorkerUnchanged, sinkVars
  <2>. QED
    BY <2>1, <2>2
<1>23. CASE ConnectMode
  BY <1>23 DEF ConnectMode, FillUnchanged, WorkerUnchanged, Attached, HandleInv, allocVars,
     pinVars, sinkVars
<1>24. CASE ReadInfo
  <2>1. \/ pipe' = pipe
        \/ /\ pipe.client = "source" /\ pipe' = ReadMsg(pipe)
           /\ Head(pipe.queue) \in Messages
    BY <1>24, ReadType DEF ReadInfo, TypeOK, DataOK, Attached
  <2>2. pipe'.state = pipe.state /\ pipe'.client = pipe.client
    BY <2>1, QueueOnly DEF TypeOK, DataOK
  <2>. QED
    BY <1>24, <2>1, <2>2 DEF ReadInfo, HandleInv, Attached, FillUnchanged, WorkerUnchanged,
       sinkVars
<1>25. CASE SetUp
  BY <1>25 DEF SetUp, FillUnchanged, WorkerUnchanged, HandleInv, allocVars, pinVars,
     sinkVars
<1>26. CASE ReadData
  <2>1. \/ pipe' = pipe
        \/ /\ pipe.client = "source" /\ pipe' = ReadMsg(pipe)
           /\ Head(pipe.queue) \in Messages
    BY <1>26, ReadType DEF ReadData, TypeOK, DataOK, Attached
  <2>2. pipe'.state = pipe.state /\ pipe'.client = pipe.client
    BY <2>1, QueueOnly DEF TypeOK, DataOK
  <2>. QED
    BY <1>26, <2>1, <2>2 DEF ReadData, HandleInv, Attached, FillUnchanged, WorkerUnchanged,
       sinkVars
<1>27. CASE Deliver
  BY <1>27 DEF Deliver, HandleInv, allocVars, pinVars, sinkVars
<1>28. CASE DeliverEndOfStream
  BY <1>28 DEF DeliverEndOfStream, FillUnchanged, WorkerUnchanged, HandleInv, allocVars,
     pinVars, sinkVars
<1>29. CASE DownstreamRelease
  BY <1>29 DEF DownstreamRelease, HandleInv, allocVars, pinVars, sinkVars
<1>30. CASE SinkListen
  BY <1>30, PipeFields DEF SinkListen, SinkUnchanged, HandleInv, allocVars, pinVars,
     sinkVars
<1>31. CASE SinkClose
  BY <1>31, PipeFields DEF SinkClose, SinkUnchanged, HandleInv, allocVars, pinVars, sinkVars
<1>32. CASE SinkInfo
  <2>1. PICK m \in Messages : pipe' = Written(pipe, m) /\ pipe.state = "connected"
    BY <1>32, MessageType DEF SinkInfo, TypeOK, DataOK, WriteRoom
  <2>2. pipe'.state = pipe.state /\ pipe'.client = pipe.client
    BY <2>1, QueueOnly DEF TypeOK, DataOK
  <2>. QED
    BY <1>32, <2>1, <2>2 DEF SinkInfo, HandleInv, SinkUnchanged, pinVars, sinkVars
<1>33. CASE SinkData
  <2>1. \/ pipe' = pipe
        \/ pipe' = Written(pipe, Data(nextId)) /\ pipe.state = "connected"
    BY <1>33 DEF SinkData, WriteRoom
  <2>2. Data(nextId) \in Messages
    BY MessageType DEF TypeOK, DataOK
  <2>3. pipe'.state = pipe.state /\ pipe'.client = pipe.client
    BY <2>1, <2>2, QueueOnly DEF TypeOK, DataOK
  <2>. QED
    BY <1>33, <2>1, <2>3 DEF SinkData, HandleInv, SinkUnchanged, pinVars, sinkVars
<1>34. CASE SinkTerminated
  BY <1>34 DEF SinkTerminated, SinkUnchanged, HandleInv, allocVars, pinVars, sinkVars
<1>35. CASE UNCHANGED vars
  BY <1>35 DEF vars, HandleInv, allocVars, pinVars, sinkVars
<1>. QED
  BY <1>1, <1>2, <1>3, <1>4, <1>5, <1>6, <1>7, <1>8, <1>9, <1>10, <1>11, <1>12, <1>13,
     <1>14, <1>15, <1>16, <1>17, <1>18, <1>19, <1>20, <1>21, <1>22, <1>23, <1>24, <1>25,
     <1>26, <1>27, <1>28, <1>29, <1>30, <1>31, <1>32, <1>33, <1>34, <1>35
  DEF Next, App, Worker, Sink

-----------------------------------------------------------------------------
\* The order of the samples.

\* The messages behind the head keep their order.
LEMMA TailIndex ==
    ASSUME NEW q \in Seq(Messages), q # << >>
    PROVE  /\ Tail(q) \in Seq(Messages) /\ Head(q) = q[1] /\ 1 \in DOMAIN q
           /\ Len(Tail(q)) = Len(q) - 1
           /\ \A k \in DOMAIN Tail(q) : k + 1 \in DOMAIN q /\ Tail(q)[k] = q[k + 1]
           /\ \A k \in DOMAIN Tail(q) : k \in Nat \ {0}
  OBVIOUS

\* A sequence and what is appended to it.
LEMMA AppendIndex ==
    ASSUME NEW S, NEW q \in Seq(S), NEW m \in S
    PROVE  /\ Append(q, m) \in Seq(S) /\ Len(Append(q, m)) = Len(q) + 1
           /\ Append(q, m)[Len(q) + 1] = m
           /\ \A k \in DOMAIN Append(q, m) :
                  \/ k \in DOMAIN q /\ Append(q, m)[k] = q[k] /\ k < Len(q) + 1
                  \/ k = Len(q) + 1 /\ k \notin DOMAIN q
           /\ \A k \in DOMAIN q : k \in DOMAIN Append(q, m) /\ Append(q, m)[k] = q[k]
  OBVIOUS

\* Steps that neither read nor send keep the queue or lose it.
LEMMA OrderKept ==
    ASSUME OrderInv, pipe'.queue = pipe.queue \/ pipe'.queue = << >>,
           UNCHANGED <<nextId, taken>>
    PROVE  OrderInv'
  BY DEF OrderInv

\* A sample that is sent is newer than all others.
LEMMA SinkInfoOrder == ASSUME TypeOK, OrderInv, SinkInfo PROVE OrderInv'
<1>1. PICK b \in BOOLEAN : pipe' = Written(pipe, Info(nextId + 1, b))
  BY DEF SinkInfo
<1> DEFINE m == Info(nextId + 1, b)
<1>2. nextId \in Nat /\ nextId' = nextId + 1 /\ taken' = taken /\ taken \in Seq(Nat)
  BY DEF SinkInfo, SinkUnchanged, TypeOK, DataOK
<1>3. m \in Messages /\ m.kind = "info" /\ m.id = nextId + 1
  BY <1>2, MessageType DEF Info
<1>4. pipe'.queue = Append(pipe.queue, m) /\ pipe.queue \in Seq(Messages)
  BY <1>1, <1>3, QueueOnly DEF TypeOK, DataOK, Pipes
<1> HIDE DEF m
<1>5. \A k \in DOMAIN pipe'.queue :
          \/ k \in DOMAIN pipe.queue /\ pipe'.queue[k] = pipe.queue[k] /\ k < Len(pipe.queue) + 1
          \/ k = Len(pipe.queue) + 1 /\ pipe'.queue[k] = m
  BY <1>3, <1>4, AppendIndex
<1>6. \A j \in DOMAIN taken : taken[j] \in Nat /\ taken[j] <= nextId
  BY <1>2 DEF OrderInv
<1>7. \A k \in DOMAIN pipe'.queue, l \in DOMAIN pipe'.queue :
          pipe'.queue[k].kind = "info" /\ pipe'.queue[l].kind = "info" /\ k < l =>
              pipe'.queue[k].id < pipe'.queue[l].id
  <2> SUFFICES ASSUME NEW k \in DOMAIN pipe'.queue, NEW l \in DOMAIN pipe'.queue,
                      pipe'.queue[k].kind = "info", pipe'.queue[l].kind = "info", k < l
               PROVE  pipe'.queue[k].id < pipe'.queue[l].id
    OBVIOUS
  <2>1. k \in DOMAIN pipe.queue /\ pipe'.queue[k] = pipe.queue[k]
    BY <1>4, <1>5
  <2>2. pipe.queue[k].id \in 1..nextId
    BY <2>1 DEF OrderInv
  <2>3. CASE l \in DOMAIN pipe.queue /\ pipe'.queue[l] = pipe.queue[l]
    BY <2>1, <2>3 DEF OrderInv
  <2>4. CASE pipe'.queue[l] = m
    BY <1>2, <1>3, <2>1, <2>2, <2>4
  <2>. QED
    BY <1>5, <2>3, <2>4
<1>8. \A k \in DOMAIN pipe'.queue : pipe'.queue[k].kind = "info" =>
          /\ pipe'.queue[k].id \in 1..nextId + 1
          /\ \A j \in DOMAIN taken : taken[j] < pipe'.queue[k].id
  <2> SUFFICES ASSUME NEW k \in DOMAIN pipe'.queue, pipe'.queue[k].kind = "info"
               PROVE  /\ pipe'.queue[k].id \in 1..nextId + 1
                      /\ \A j \in DOMAIN taken : taken[j] < pipe'.queue[k].id
    OBVIOUS
  <2>1. CASE k \in DOMAIN pipe.queue /\ pipe'.queue[k] = pipe.queue[k]
    BY <1>2, <2>1 DEF OrderInv
  <2>2. CASE pipe'.queue[k] = m
    BY <1>2, <1>3, <1>6, <2>2
  <2>. QED
    BY <1>5, <2>1, <2>2
<1>. QED
  BY <1>2, <1>6, <1>7, <1>8 DEF OrderInv

\* Bytes that are sent have no place in the order.
LEMMA SinkDataOrder == ASSUME TypeOK, OrderInv, SinkData PROVE OrderInv'
<1>1. UNCHANGED <<nextId, taken>>
  BY DEF SinkData, SinkUnchanged
<1>2. CASE pipe' = pipe
  BY <1>1, <1>2, OrderKept
<1>3. CASE pipe' = Written(pipe, Data(nextId))
  <2>1. Data(nextId) \in Messages /\ Data(nextId).kind = "data"
    BY MessageType DEF TypeOK, DataOK, Data
  <2>2. pipe'.queue = Append(pipe.queue, Data(nextId)) /\ pipe.queue \in Seq(Messages)
    BY <1>3, <2>1, QueueOnly DEF TypeOK, DataOK, Pipes
  <2>3. \A k \in DOMAIN pipe'.queue : pipe'.queue[k].kind = "info" =>
            k \in DOMAIN pipe.queue /\ pipe'.queue[k] = pipe.queue[k]
    BY <2>1, <2>2, AppendIndex
  <2>. QED
    BY <1>1, <2>3 DEF OrderInv
<1>. QED
  BY <1>2, <1>3 DEF SinkData

\* A message that is read leaves the rest in order.
LEMMA TailOrder ==
    ASSUME TypeOK, OrderInv, pipe.queue # << >>, pipe'.queue = Tail(pipe.queue)
    PROVE  \A k \in DOMAIN pipe'.queue : pipe'.queue[k].kind = "info" =>
               /\ pipe'.queue[k].id \in 1..nextId
               /\ \A j \in DOMAIN taken : taken[j] < pipe'.queue[k].id
               /\ pipe.queue[1].kind = "info" => pipe.queue[1].id < pipe'.queue[k].id
               /\ \A l \in DOMAIN pipe'.queue :
                      pipe'.queue[l].kind = "info" /\ k < l => pipe'.queue[k].id < pipe'.queue[l].id
<1>1. pipe.queue \in Seq(Messages)
  BY DEF TypeOK, DataOK, Pipes
<1>2. /\ 1 \in DOMAIN pipe.queue
      /\ \A k \in DOMAIN pipe'.queue : k + 1 \in DOMAIN pipe.queue
             /\ pipe'.queue[k] = pipe.queue[k + 1] /\ k \in Nat \ {0}
  BY <1>1, TailIndex
<1>3. \A k, l \in DOMAIN pipe'.queue : k < l => k + 1 < l + 1
  BY <1>2
<1>4. \A k \in DOMAIN pipe'.queue : 1 < k + 1
  BY <1>2
<1>. QED
  BY <1>2, <1>3, <1>4 DEF OrderInv

\* The info that is read is older than all that stay in the pipe.
LEMMA ReadInfoOrder == ASSUME TypeOK, OrderInv, ReadInfo PROVE OrderInv'
<1>1. nextId' = nextId /\ nextId \in Nat /\ taken \in Seq(Nat)
  BY DEF ReadInfo, FillUnchanged, sinkVars, TypeOK, DataOK
<1>2. CASE pipe' = pipe /\ taken' = taken
  BY <1>1, <1>2, OrderKept
<1>3. CASE pipe.queue # << >> /\ pipe' = ReadMsg(pipe) /\ taken' = taken
  <2>1. pipe'.queue = Tail(pipe.queue)
    BY <1>3, QueueOnly DEF TypeOK, DataOK, ReadMsg, Pipes
  <2>. QED
    BY <1>1, <1>3, <2>1, TailOrder DEF OrderInv
<1>4. CASE /\ pipe.queue # << >> /\ Head(pipe.queue).kind = "info" /\ pipe' = ReadMsg(pipe)
           /\ taken' = Append(taken, Head(pipe.queue).id)
  <2>1. pipe'.queue = Tail(pipe.queue) /\ pipe.queue \in Seq(Messages)
    BY <1>4, QueueOnly DEF TypeOK, DataOK, ReadMsg, Pipes
  <2>2. Head(pipe.queue) = pipe.queue[1] /\ 1 \in DOMAIN pipe.queue
    BY <1>4, <2>1, TailIndex
  <2> DEFINE n == pipe.queue[1].id
  <2>3. n \in 1..nextId /\ taken' = Append(taken, n)
    BY <1>4, <2>2 DEF OrderInv
  <2> HIDE DEF n
  <2>4. \A j \in DOMAIN taken' : (j \in DOMAIN taken /\ taken'[j] = taken[j]) \/ taken'[j] = n
    BY <1>1, <2>3, AppendIndex
  <2>5. \A j \in DOMAIN taken' : taken'[j] <= nextId
    BY <1>1, <2>3, <2>4 DEF OrderInv
  <2>6. \A k \in DOMAIN pipe'.queue : pipe'.queue[k].kind = "info" =>
            n < pipe'.queue[k].id /\ \A j \in DOMAIN taken : taken[j] < pipe'.queue[k].id
    BY <1>4, <2>1, <2>2, TailOrder DEF n
  <2>7. \A k \in DOMAIN pipe'.queue : pipe'.queue[k].kind = "info" =>
            \A j \in DOMAIN taken' : taken'[j] < pipe'.queue[k].id
    BY <2>4, <2>6
  <2>. QED
    BY <1>1, <1>4, <2>1, <2>5, <2>7, TailOrder DEF OrderInv
<1>. QED
  BY <1>2, <1>3, <1>4 DEF ReadInfo

\* Reading the bytes of a sample leaves the infos in order.
LEMMA ReadDataOrder == ASSUME TypeOK, OrderInv, ReadData PROVE OrderInv'
<1>1. UNCHANGED <<nextId, taken>>
  BY DEF ReadData, FillUnchanged, sinkVars
<1>2. CASE pipe' = pipe
  BY <1>1, <1>2, OrderKept
<1>3. CASE pipe.queue # << >> /\ pipe' = ReadMsg(pipe)
  <2>1. pipe'.queue = Tail(pipe.queue)
    BY <1>3, QueueOnly DEF TypeOK, DataOK, ReadMsg, Pipes
  <2>. QED
    BY <1>1, <1>3, <2>1, TailOrder DEF OrderInv
<1>. QED
  BY <1>2, <1>3 DEF ReadData

Quiet == pipe' = pipe \/ pipe'.queue = << >>

\* What the other steps do to the pipe: nothing, or they end a connection.
LEMMA QuietSteps ==
    ASSUME TypeOK, [Next]_vars, ~ReadInfo, ~ReadData, ~SinkInfo, ~SinkData
    PROVE  /\ Quiet /\ UNCHANGED <<nextId, taken>>
           /\ pipe'.queue = << >> \/ UNCHANGED owes \/ torn'
<1>1. CASE App
  BY <1>1, PipeFields DEF Quiet, App, Activate, InitReturned, PauseReturned, RunReset, StopPin,
     Deactivate, StopReturned, ExitReturned, Closed, Delete, Deleted, DisconnectPipe,
     AppUnchanged, vars, sinkVars
<1>2. CASE Worker
  BY <1>2, PipeFields DEF Quiet, Worker, ReplyReset, ReplyComplete, WorkerInit, WorkerCommand,
     StartPlay, CheckRequest, GetDeliveryBuffer, Destroy, FillBuffer, ConnectClose,
     ConnectOpen, ConnectMode, SetUp, Deliver, DeliverEndOfStream, DisconnectPipe,
     ReplyUnchanged, CommandUnchanged, FillUnchanged, sinkVars
<1>3. CASE DownstreamRelease \/ SinkListen \/ SinkClose \/ SinkTerminated \/ UNCHANGED vars
  BY <1>3, PipeFields DEF Quiet, DownstreamRelease, SinkListen, SinkClose, SinkTerminated,
     SinkUnchanged, vars,
     sinkVars
<1>. QED
  BY <1>1, <1>2, <1>3 DEF Next, Sink

\* A step keeps the samples in the order in which they were sent.
LEMMA OrderStep == ASSUME TypeOK, OrderInv, [Next]_vars PROVE OrderInv'
<1>1. CASE ReadInfo \/ ReadData \/ SinkInfo \/ SinkData
  BY <1>1, ReadInfoOrder, ReadDataOrder, SinkInfoOrder, SinkDataOrder
<1>2. CASE ~(ReadInfo \/ ReadData \/ SinkInfo \/ SinkData)
  BY <1>2, QuietSteps, OrderKept DEF Quiet
<1>. QED
  BY <1>1, <1>2

-----------------------------------------------------------------------------
\* The framing of the messages, when no call on a sample fails and the sink sends
\* whole samples.

\* FillBuffer reads bytes only for a sample that is to have some, and those are its
\* own.
LEMMA UnreadStep ==
    ASSUME TypeOK, Aligned, Handshake, HandleInv, HeadFramed, SampleIntegrity, Unread,
           [Next]_vars
    PROVE  (Unread /\ SampleIntegrity)'
<1>1. CASE Activate
  BY <1>1 DEF Activate, Call, AppUnchanged, Unread, SampleIntegrity, allocVars, pinVars,
     sinkVars
<1>2. CASE InitReturned
  BY <1>2 DEF InitReturned, Returned, Call, AppUnchanged, Unread, SampleIntegrity,
     allocVars, pinVars, sinkVars
<1>3. CASE PauseReturned
  BY <1>3 DEF PauseReturned, Returned, AppUnchanged, Unread, SampleIntegrity, allocVars,
     pinVars, sinkVars
<1>4. CASE RunReset
  BY <1>4 DEF RunReset, AppUnchanged, Unread, SampleIntegrity, allocVars, pinVars, sinkVars
<1>5. CASE StopPin
  BY <1>5 DEF StopPin, AppUnchanged, Unread, SampleIntegrity, allocVars, pinVars, sinkVars
<1>6. CASE Deactivate
  BY <1>6 DEF Deactivate, Call, AppUnchanged, Unread, SampleIntegrity, allocVars, pinVars,
     sinkVars
<1>7. CASE StopReturned
  BY <1>7 DEF StopReturned, Returned, Call, AppUnchanged, Unread, SampleIntegrity,
     allocVars, pinVars, sinkVars
<1>8. CASE ExitReturned
  BY <1>8 DEF ExitReturned, Returned, AppUnchanged, Unread, SampleIntegrity, allocVars,
     pinVars, sinkVars
<1>9. CASE Closed
  BY <1>9 DEF Closed, AppUnchanged, Unread, SampleIntegrity, allocVars, pinVars, sinkVars
<1>10. CASE Delete
  BY <1>10 DEF Delete, DisconnectPipe, Attached, Unread, SampleIntegrity, allocVars,
     pinVars, sinkVars
<1>11. CASE Deleted
  BY <1>11 DEF Deleted, vars, Unread, SampleIntegrity, allocVars, pinVars, sinkVars
<1>12. CASE ReplyReset
  BY <1>12 DEF ReplyReset, ReplyHalf, ReplyUnchanged, WorkerUnchanged, Unread,
     SampleIntegrity, allocVars, pinVars, sinkVars
<1>13. CASE ReplyComplete
  BY <1>13 DEF ReplyComplete, ReplyUnchanged, WorkerUnchanged, pinVars, TypeOK, DataOK, Unread,
     SampleIntegrity
<1>14. CASE WorkerInit
  BY <1>14 DEF WorkerInit, ReplyThen, CommandUnchanged, WorkerUnchanged, Unread,
     SampleIntegrity, allocVars, pinVars, sinkVars
<1>15. CASE WorkerCommand
  BY <1>15 DEF WorkerCommand, ReplyThen, CommandUnchanged, WorkerUnchanged, Unread,
     SampleIntegrity, allocVars, pinVars, sinkVars
<1>16. CASE StartPlay
  BY <1>16 DEF StartPlay, WorkerUnchanged, Unread, SampleIntegrity, allocVars, pinVars,
     sinkVars
<1>17. CASE CheckRequest
  BY <1>17 DEF CheckRequest, ReplyThen, CommandUnchanged, WorkerUnchanged, Unread,
     SampleIntegrity, allocVars, pinVars, sinkVars
<1>18. CASE GetDeliveryBuffer
  BY <1>18 DEF GetDeliveryBuffer, Unread, SampleIntegrity, Unfilled
<1>19. CASE Destroy
  BY <1>19 DEF Destroy, WorkerUnchanged, Unread, SampleIntegrity, allocVars, pinVars,
     sinkVars
<1>20. CASE FillBuffer
  BY <1>20 DEF FillBuffer, FillUnchanged, WorkerUnchanged, DisconnectPipe, Attached,
     Unread, SampleIntegrity, allocVars, pinVars, sinkVars
<1>21. CASE ConnectClose
  BY <1>21 DEF ConnectClose, FillUnchanged, WorkerUnchanged, DisconnectPipe, Attached,
     Unread, SampleIntegrity, allocVars, pinVars, sinkVars
<1>22. CASE ConnectOpen
  BY <1>22 DEF ConnectOpen, FillUnchanged, WorkerUnchanged, CanOpen, Unread,
     SampleIntegrity, allocVars, pinVars, sinkVars
<1>23. CASE ConnectMode
  BY <1>23 DEF ConnectMode, FillUnchanged, WorkerUnchanged, Attached, Unread,
     SampleIntegrity, allocVars, pinVars, sinkVars
<1>24. CASE ReadInfo
  <2>1. CASE pipe.queue # << >> /\ Head(pipe.queue).kind = "data" /\ Attached
    BY <1>24, <2>1, TailIndex DEF ReadInfo, HeadFramed, Expecting, Attached, TypeOK, DataOK,
           Pipes
  <2>2. sample'.bytes = sample.bytes /\ pcW' \in {"deliver", "setUp"}
    BY <1>24, <2>1 DEF ReadInfo, TypeOK, DataOK, Buffers
  <2>. QED
    BY <1>24, <2>2 DEF ReadInfo, Unread, SampleIntegrity
<1>25. CASE SetUp
  <2>1. /\ sample'.bytes = sample.bytes /\ sample'.hasData = sample.hasData
        /\ pcW' = IF sample.hasData THEN "readData" ELSE "deliver"
    BY <1>25 DEF SetUp, Aligned, TypeOK, DataOK, Buffers
  <2>. QED
    BY <1>25, <2>1 DEF SetUp, Unread, SampleIntegrity
<1>26. CASE ReadData
  <2>1. CASE ~Attached /\ UNCHANGED sample
    BY <1>26, <2>1 DEF ReadData, Unread, SampleIntegrity
  <2>2. CASE /\ Attached /\ pipe.queue # << >>
             /\ sample' = [sample EXCEPT !.bytes = Head(pipe.queue).id]
    <3>1. Head(pipe.queue) = pipe.queue[1] /\ pipe.queue[1] = Data(sample.info) /\ sample.hasData
      BY <1>26, <2>2, TailIndex DEF ReadData, Attached, HeadFramed, Expecting, Unread, TypeOK,
         DataOK, Pipes
    <3>2. sample'.bytes = sample.info /\ sample'.info = sample.info /\ sample'.hasData
      BY <2>2, <3>1 DEF TypeOK, DataOK, Buffers, Data
    <3>. QED
      BY <1>26, <3>2 DEF ReadData, Unread, SampleIntegrity
  <2>. QED
    BY <1>26, <2>1, <2>2 DEF ReadData
<1>27. CASE Deliver
  BY <1>27 DEF Deliver, Unread, SampleIntegrity, allocVars, pinVars, sinkVars
<1>28. CASE DeliverEndOfStream
  BY <1>28 DEF DeliverEndOfStream, FillUnchanged, WorkerUnchanged, Unread, SampleIntegrity,
     allocVars, pinVars, sinkVars
<1>29. CASE DownstreamRelease
  BY <1>29 DEF DownstreamRelease, Unread, SampleIntegrity, allocVars, pinVars, sinkVars
<1>30. CASE SinkListen
  BY <1>30 DEF SinkListen, SinkUnchanged, Unread, SampleIntegrity, allocVars, pinVars,
     sinkVars
<1>31. CASE SinkClose
  BY <1>31 DEF SinkClose, SinkUnchanged, Unread, SampleIntegrity, allocVars, pinVars,
     sinkVars
<1>32. CASE SinkInfo
  BY <1>32 DEF SinkInfo, SinkUnchanged, Unread, SampleIntegrity, allocVars, pinVars,
     sinkVars
<1>33. CASE SinkData
  BY <1>33 DEF SinkData, SinkUnchanged, Unread, SampleIntegrity, allocVars, pinVars,
     sinkVars
<1>34. CASE SinkTerminated
  BY <1>34 DEF SinkTerminated, SinkUnchanged, Unread, SampleIntegrity, allocVars, pinVars,
     sinkVars
<1>35. CASE UNCHANGED vars
  BY <1>35 DEF vars, Unread, SampleIntegrity, allocVars, pinVars, sinkVars
<1>. QED
  BY <1>1, <1>2, <1>3, <1>4, <1>5, <1>6, <1>7, <1>8, <1>9, <1>10, <1>11, <1>12, <1>13,
     <1>14, <1>15, <1>16, <1>17, <1>18, <1>19, <1>20, <1>21, <1>22, <1>23, <1>24, <1>25,
     <1>26, <1>27, <1>28, <1>29, <1>30, <1>31, <1>32, <1>33, <1>34, <1>35
  DEF Next, App, Worker, Sink

-----------------------------------------------------------------------------
\* The messages in the pipe: a message that is read leaves the others framed.
LEMMA TailFramed ==
    ASSUME TypeOK, QueueFramed, pipe.queue # << >>, pipe'.queue = Tail(pipe.queue),
           UNCHANGED <<owes, nextId>>
    PROVE  QueueFramed'
<1>1. pipe.queue \in Seq(Messages) /\ pipe'.queue \in Seq(Messages)
  BY TailIndex DEF TypeOK, DataOK, Pipes
<1>2. \A k \in DOMAIN pipe'.queue : k + 1 \in DOMAIN pipe.queue
          /\ pipe'.queue[k] = pipe.queue[k + 1] /\ k \in Nat \ {0}
  BY <1>1, TailIndex
<1>3. \A k \in DOMAIN pipe'.queue : k = Len(pipe'.queue) => k + 1 = Len(pipe.queue)
  BY <1>1, TailIndex
<1> SUFFICES ASSUME NEW k \in DOMAIN pipe'.queue
             PROVE  /\ k + 1 \in DOMAIN pipe'.queue =>
                           IF WithBytes(pipe'.queue[k])
                           THEN pipe'.queue[k + 1] = Data(pipe'.queue[k].id)
                           ELSE pipe'.queue[k + 1].kind = "info"
                    /\ k = Len(pipe'.queue) =>
                           /\ owes <=> WithBytes(pipe'.queue[k])
                           /\ owes => pipe'.queue[k].id = nextId
  BY DEF QueueFramed, WithBytes
<1>4. CASE k + 1 \in DOMAIN pipe'.queue
  <2>1. /\ k + 1 \in DOMAIN pipe.queue /\ (k + 1) + 1 \in DOMAIN pipe.queue
        /\ pipe'.queue[k] = pipe.queue[k + 1]
        /\ pipe'.queue[k + 1] = pipe.queue[(k + 1) + 1]
    BY <1>2, <1>4
  <2>2. k = Len(pipe'.queue) => k + 1 = Len(pipe.queue)
    BY <1>3
  <2>. QED
    BY <2>1, <2>2 DEF QueueFramed
<1>5. CASE k + 1 \notin DOMAIN pipe'.queue
  BY <1>2, <1>3, <1>5 DEF QueueFramed
<1>. QED
  BY <1>4, <1>5

\* A message that is sent fits the last one: the bytes of a sample after its info,
\* an info after anything else.
LEMMA AppendFramed ==
    ASSUME TypeOK, QueueFramed, NEW m \in Messages, pipe'.queue = Append(pipe.queue, m),
           IF owes THEN m = Data(nextId) ELSE m.kind = "info",
           owes' <=> WithBytes(m), owes' => m.id = nextId'
    PROVE  QueueFramed'
<1> DEFINE n == Len(pipe.queue)
<1>1. pipe.queue \in Seq(Messages) /\ pipe'.queue \in Seq(Messages)
      /\ Len(pipe'.queue) = n + 1 /\ n \in Nat
  BY AppendIndex DEF TypeOK, DataOK, Pipes
<1>2. pipe'.queue[n + 1] = m /\ \A k \in DOMAIN pipe.queue : pipe'.queue[k] = pipe.queue[k]
  BY <1>1, AppendIndex
<1>3. DOMAIN pipe.queue = 1..n /\ DOMAIN pipe'.queue = 1..n + 1
  BY <1>1
<1> SUFFICES ASSUME NEW k \in DOMAIN pipe'.queue
             PROVE  /\ k + 1 \in DOMAIN pipe'.queue =>
                           IF WithBytes(pipe'.queue[k])
                           THEN pipe'.queue[k + 1] = Data(pipe'.queue[k].id)
                           ELSE pipe'.queue[k + 1].kind = "info"
                    /\ k = Len(pipe'.queue) =>
                           /\ owes' <=> WithBytes(pipe'.queue[k])
                           /\ owes' => pipe'.queue[k].id = nextId'
  BY DEF QueueFramed, WithBytes
<1> HIDE DEF n
<1>4. CASE k = n + 1
  BY <1>1, <1>2, <1>3, <1>4
<1>5. CASE k = n /\ k \in DOMAIN pipe.queue
  <2>1. pipe'.queue[k] = pipe.queue[k] /\ pipe'.queue[k + 1] = m
    BY <1>2, <1>5
  <2>2. /\ owes <=> WithBytes(pipe.queue[k])
        /\ owes => pipe.queue[k].id = nextId
    BY <1>5 DEF QueueFramed, n
  <2>. QED
    BY <1>1, <1>5, <2>1, <2>2
<1>6. CASE k \in DOMAIN pipe.queue /\ k + 1 \in DOMAIN pipe.queue
  <2>1. pipe'.queue[k] = pipe.queue[k] /\ pipe'.queue[k + 1] = pipe.queue[k + 1] /\ k # n + 1
    BY <1>1, <1>2, <1>3, <1>6
  <2>. QED
    BY <1>1, <1>6, <2>1 DEF QueueFramed
<1>. QED
  BY <1>1, <1>3, <1>4, <1>5, <1>6

\* The last message of the pipe.
LEMMA SingleMessage ==
    ASSUME NEW q \in Seq(Messages), q # << >>, Tail(q) = << >>
    PROVE  1 \in DOMAIN q /\ Len(q) = 1
<1> DEFINE n == Len(q)
<1>1. 1 \in DOMAIN q /\ n \in Nat
  BY TailIndex
<1>2. Len(Tail(q)) = n - 1 /\ Len(Tail(q)) = 0
  BY TailIndex, NoMessages
<1>3. n - 1 = 0
  BY <1>2, Zenon
<1> HIDE DEF n
<1>4. n = 1
  BY <1>1, <1>3
<1>. QED
  BY <1>1, <1>4 DEF n

\* The head of the pipe after one more message was sent.
LEMMA FirstMessage ==
    ASSUME NEW q \in Seq(Messages), NEW m \in Messages
    PROVE  /\ Append(q, m) # << >>
           /\ Append(q, m)[1] = IF q = << >> THEN m ELSE q[1]
<1>1. CASE q = << >>
  <2>1. Len(q) + 1 = 1
    BY <1>1, NoMessages
  <2>2. Append(q, m)[Len(q) + 1] = m
    BY AppendIndex
  <2>3. Append(q, m)[1] = m
    BY <2>1, <2>2, Zenon
  <2>. QED
    BY <1>1, <2>3
<1>2. CASE q # << >>
  <2>1. 1 \in DOMAIN q
    BY <1>2, TailIndex
  <2>. QED
    BY <1>2, <2>1, AppendIndex
<1>. QED
  BY <1>1, <1>2

\* A step keeps the bytes of each sample in the pipe behind its info.
LEMMA QueueFramedStep ==
    ASSUME TypeOK, Aligned', HandleInv, QueueFramed, [Next]_vars
    PROVE  QueueFramed'
<1>1. CASE pipe'.queue = << >>
  BY <1>1 DEF QueueFramed
<1>2. CASE pipe' = pipe /\ UNCHANGED <<nextId, owes>>
  BY <1>2 DEF QueueFramed, WithBytes
<1>3. CASE (ReadInfo \/ ReadData) /\ pipe' # pipe
  <2>1. pipe.queue # << >> /\ pipe' = ReadMsg(pipe) /\ UNCHANGED <<owes, nextId>>
    BY <1>3 DEF ReadInfo, ReadData, FillUnchanged, sinkVars
  <2>2. pipe'.queue = Tail(pipe.queue)
    BY <2>1, QueueOnly DEF TypeOK, DataOK, ReadMsg, Pipes
  <2>. QED
    BY <2>1, <2>2, TailFramed
<1>4. CASE SinkInfo
  <2>1. PICK b \in BOOLEAN : pipe' = Written(pipe, Info(nextId + 1, b)) /\ owes' = b
    BY <1>4 DEF SinkInfo
  <2>2. Info(nextId + 1, b) \in Messages
    BY MessageType DEF TypeOK, DataOK
  <2>3. pipe'.queue = Append(pipe.queue, Info(nextId + 1, b))
    BY <2>1, <2>2, QueueOnly DEF TypeOK, DataOK
  <2>4. /\ Info(nextId + 1, b).kind = "info" /\ Info(nextId + 1, b).id = nextId'
        /\ owes' <=> WithBytes(Info(nextId + 1, b))
    BY <1>4, <2>1 DEF SinkInfo, Info, WithBytes
  <2>5. ~owes
    BY <1>4 DEF SinkInfo
  <2>. QED
    BY <2>2, <2>3, <2>4, <2>5, AppendFramed
<1>5. CASE SinkData /\ WriteFails(pipe)
  BY <1>5 DEF SinkData, WriteFails, WriteRoom, HandleInv, QueueFramed, TypeOK, DataOK
<1>6. CASE SinkData /\ ~WriteFails(pipe)
  <2>1. pipe' = Written(pipe, Data(nextId)) /\ owes /\ ~owes'
    BY <1>6 DEF SinkData
  <2>2. Data(nextId) \in Messages /\ ~WithBytes(Data(nextId))
    BY MessageType DEF TypeOK, DataOK, Data, WithBytes
  <2>3. pipe'.queue = Append(pipe.queue, Data(nextId))
    BY <2>1, <2>2, QueueOnly DEF TypeOK, DataOK
  <2>. QED
    BY <2>1, <2>2, <2>3, AppendFramed
<1>7. CASE (ReadInfo \/ ReadData) /\ pipe' = pipe
  BY <1>7, <1>2 DEF ReadInfo, ReadData, FillUnchanged, sinkVars
<1>8. CASE ~ReadInfo /\ ~ReadData /\ ~SinkInfo /\ ~SinkData
  BY <1>1, <1>2, <1>8, QuietSteps DEF Quiet, Aligned
<1>. QED
  BY <1>3, <1>4, <1>5, <1>6, <1>7, <1>8

\* The message the worker reads next.
LEMMA HeadFramedStep ==
    ASSUME TypeOK, Aligned, Aligned', Handshake, HandleInv, Unread, QueueFramed, HeadFramed,
           [Next]_vars
    PROVE  HeadFramed'
<1>1. CASE Activate
  BY <1>1 DEF Activate, Call, AppUnchanged, HeadFramed, Expecting, Handshake, pinVars, sinkVars
<1>2. CASE InitReturned
  BY <1>2 DEF InitReturned, Returned, Call, AppUnchanged, HeadFramed, Expecting, allocVars,
     pinVars, sinkVars
<1>3. CASE PauseReturned
  BY <1>3 DEF PauseReturned, Returned, AppUnchanged, HeadFramed, Expecting, allocVars,
     pinVars, sinkVars
<1>4. CASE RunReset
  BY <1>4 DEF RunReset, AppUnchanged, HeadFramed, Expecting, allocVars, pinVars, sinkVars
<1>5. CASE StopPin
  BY <1>5 DEF StopPin, AppUnchanged, HeadFramed, Expecting, allocVars, pinVars, sinkVars
<1>6. CASE Deactivate
  BY <1>6 DEF Deactivate, Call, AppUnchanged, HeadFramed, Expecting, allocVars, pinVars,
     sinkVars
<1>7. CASE StopReturned
  BY <1>7 DEF StopReturned, Returned, Call, AppUnchanged, HeadFramed, Expecting, allocVars,
     pinVars, sinkVars
<1>8. CASE ExitReturned
  BY <1>8 DEF ExitReturned, Returned, AppUnchanged, HeadFramed, Expecting, allocVars,
     pinVars, sinkVars
<1>9. CASE Closed
  BY <1>9 DEF Closed, AppUnchanged, HeadFramed, Expecting, allocVars, pinVars, sinkVars
<1>10. CASE Delete
  BY <1>10, PipeFields DEF Delete, DisconnectPipe, Attached, HeadFramed, Expecting,
     allocVars, pinVars, sinkVars
<1>11. CASE Deleted
  BY <1>11 DEF Deleted, vars, HeadFramed, Expecting, allocVars, pinVars, sinkVars
<1>12. CASE ReplyReset
  BY <1>12 DEF ReplyReset, ReplyHalf, ReplyUnchanged, WorkerUnchanged, HeadFramed,
     Expecting, allocVars, pinVars, sinkVars
<1>13. CASE ReplyComplete
  BY <1>13 DEF ReplyComplete, ReplyUnchanged, WorkerUnchanged, pinVars, sinkVars, TypeOK,
         DataOK,
     HeadFramed, Expecting
<1>14. CASE WorkerInit
  BY <1>14 DEF WorkerInit, ReplyThen, CommandUnchanged, WorkerUnchanged, HeadFramed,
     Expecting, allocVars, pinVars, sinkVars
<1>15. CASE WorkerCommand
  BY <1>15 DEF WorkerCommand, ReplyThen, CommandUnchanged, WorkerUnchanged, HeadFramed,
     Expecting, allocVars, pinVars, sinkVars
<1>16. CASE StartPlay
  BY <1>16 DEF StartPlay, WorkerUnchanged, HeadFramed, Expecting, allocVars, pinVars,
     sinkVars
<1>17. CASE CheckRequest
  BY <1>17 DEF CheckRequest, ReplyThen, CommandUnchanged, WorkerUnchanged, HeadFramed,
     Expecting, allocVars, pinVars, sinkVars
<1>18. CASE GetDeliveryBuffer
  BY <1>18 DEF GetDeliveryBuffer, WorkerUnchanged, HeadFramed, Expecting, allocVars,
     pinVars, sinkVars
<1>19. CASE Destroy
  BY <1>19 DEF Destroy, WorkerUnchanged, HeadFramed, Expecting, allocVars, pinVars, sinkVars
<1>20. CASE FillBuffer
  BY <1>20, PipeFields DEF FillBuffer, FillUnchanged, WorkerUnchanged, DisconnectPipe,
     Attached, HeadFramed, Expecting, allocVars, pinVars, sinkVars
<1>21. CASE ConnectClose
  BY <1>21, PipeFields DEF ConnectClose, FillUnchanged, WorkerUnchanged, DisconnectPipe,
     Attached, HeadFramed, Expecting, allocVars, pinVars, sinkVars
<1>22. CASE ConnectOpen
  <2>1. pcW' \in {"mode", "deliver", "open"} /\ UNCHANGED <<owes, nextId, sample>>
    BY <1>22 DEF ConnectOpen, FillUnchanged, sinkVars
  <2>2. CASE pipe' = pipe
    BY <1>22, <2>1, <2>2 DEF ConnectOpen, HeadFramed, Expecting
  <2>3. CASE pipe' = Opened("source") /\ CanOpen(pipe)
    <3>1. ~owes
      BY <1>22, <2>3 DEF ConnectOpen, CanOpen, HandleInv, Aligned
    <3>. QED
      BY <2>1, <2>3, <3>1, PipeFields DEF HeadFramed, Expecting
  <2>. QED
    BY <1>22, <2>2, <2>3 DEF ConnectOpen
<1>23. CASE ConnectMode
  BY <1>23 DEF ConnectMode, FillUnchanged, WorkerUnchanged, Attached, HeadFramed,
     Expecting, allocVars, pinVars, sinkVars
<1>24. CASE ReadInfo
  <2>1. UNCHANGED <<owes, nextId, m_hPipe>> /\ pcW = "readInfo" /\ pcW' \in {"setUp", "deliver"}
    BY <1>24 DEF ReadInfo, FillUnchanged, sinkVars
  <2>2. CASE ~Attached
    BY <1>24, <2>2 DEF ReadInfo, Attached, HandleInv, HeadFramed
  <2>3. CASE Attached
    <3>1. /\ pipe.queue # << >> /\ pipe.queue \in Seq(Messages) /\ pipe.client = "source"
          /\ Head(pipe.queue) = pipe.queue[1] /\ pipe.queue[1].kind = "info"
      BY <1>24, <2>1, <2>3, TailIndex DEF ReadInfo, Attached, TypeOK, DataOK, Pipes, HeadFramed,
         Expecting
    <3>2. /\ sample' = [sample EXCEPT !.info = Head(pipe.queue).id,
                                      !.hasData = Head(pipe.queue).data]
          /\ pipe' = ReadMsg(pipe) /\ pcW' = "setUp"
      BY <1>24, <2>3, <3>1 DEF ReadInfo
    <3>3. pipe'.queue = Tail(pipe.queue) /\ pipe'.client = "source"
      BY <3>1, <3>2, QueueOnly DEF TypeOK, DataOK, Pipes, ReadMsg
    <3>4. sample'.info = pipe.queue[1].id /\ (sample'.hasData <=> WithBytes(pipe.queue[1]))
      BY <3>1, <3>2 DEF TypeOK, DataOK, Buffers, WithBytes
    <3>5. CASE Tail(pipe.queue) = << >>
      <4>1. 1 \in DOMAIN pipe.queue /\ Len(pipe.queue) = 1
        BY <3>1, <3>5, SingleMessage
      <4>2. (owes <=> WithBytes(pipe.queue[1])) /\ (owes => pipe.queue[1].id = nextId)
        BY <4>1 DEF QueueFramed
      <4>. QED
        BY <2>1, <3>2, <3>3, <3>4, <3>5, <4>2 DEF HeadFramed, Expecting
    <3>6. CASE Tail(pipe.queue) # << >>
      <4>1. 1 \in DOMAIN pipe.queue /\ 1 + 1 \in DOMAIN pipe.queue
            /\ Tail(pipe.queue)[1] = pipe.queue[1 + 1]
        BY <3>1, <3>6
      <4>2. IF WithBytes(pipe.queue[1]) THEN pipe.queue[1 + 1] = Data(pipe.queue[1].id)
                                        ELSE pipe.queue[1 + 1].kind = "info"
        BY <4>1 DEF QueueFramed
      <4>. QED
        BY <2>1, <3>2, <3>3, <3>4, <3>6, <4>1, <4>2 DEF HeadFramed, Expecting
    <3>. QED
      BY <3>5, <3>6
  <2>. QED
    BY <2>2, <2>3
<1>25. CASE SetUp
  <2>1. /\ sample'.info = sample.info /\ sample'.hasData = sample.hasData
        /\ pcW' = IF sample.hasData THEN "readData" ELSE "deliver"
    BY <1>25 DEF SetUp, Aligned, TypeOK, DataOK, Buffers
  <2>2. pipe' = pipe /\ UNCHANGED <<owes, nextId>> /\ pcW = "setUp"
    BY <1>25 DEF SetUp, FillUnchanged, sinkVars
  <2>. QED
    BY <2>1, <2>2 DEF HeadFramed, Expecting
<1>26. CASE ReadData
  <2>1. UNCHANGED <<owes, nextId, m_hPipe>> /\ pcW = "readData" /\ pcW' = "deliver"
    BY <1>26 DEF ReadData, FillUnchanged, sinkVars
  <2>2. CASE ~Attached
    BY <1>26, <2>2 DEF ReadData, Attached, HandleInv, HeadFramed
  <2>3. CASE Attached
    <3>1. /\ pipe.queue # << >> /\ pipe.queue \in Seq(Messages) /\ pipe.client = "source"
          /\ pipe.queue[1] = Data(sample.info) /\ pipe' = ReadMsg(pipe)
      BY <1>26, <2>1, <2>3 DEF ReadData, Attached, TypeOK, DataOK, Pipes, HeadFramed, Expecting,
         Unread
    <3>2. pipe'.queue = Tail(pipe.queue) /\ ~WithBytes(pipe.queue[1])
      BY <3>1, QueueOnly DEF TypeOK, DataOK, Pipes, ReadMsg, WithBytes, Data
    <3>3. CASE Tail(pipe.queue) = << >>
      <4>1. 1 \in DOMAIN pipe.queue /\ Len(pipe.queue) = 1
        BY <3>1, <3>3, SingleMessage
      <4>2. ~owes
        BY <3>2, <4>1 DEF QueueFramed
      <4>. QED
        BY <2>1, <3>2, <3>3, <4>2 DEF HeadFramed, Expecting
    <3>4. CASE Tail(pipe.queue) # << >>
      <4>1. 1 \in DOMAIN pipe.queue /\ 1 + 1 \in DOMAIN pipe.queue
            /\ Tail(pipe.queue)[1] = pipe.queue[1 + 1]
        BY <3>1, <3>4
      <4>2. pipe.queue[1 + 1].kind = "info"
        BY <3>2, <4>1 DEF QueueFramed
      <4>. QED
        BY <2>1, <3>2, <3>4, <4>1, <4>2 DEF HeadFramed, Expecting
    <3>. QED
      BY <3>3, <3>4
  <2>. QED
    BY <2>2, <2>3
<1>27. CASE Deliver
  BY <1>27 DEF Deliver, HeadFramed, Expecting, allocVars, pinVars, sinkVars
<1>28. CASE DeliverEndOfStream
  BY <1>28 DEF DeliverEndOfStream, FillUnchanged, WorkerUnchanged, HeadFramed, Expecting,
     allocVars, pinVars, sinkVars
<1>29. CASE DownstreamRelease
  BY <1>29 DEF DownstreamRelease, HeadFramed, Expecting, allocVars, pinVars, sinkVars
<1>30. CASE SinkListen
  BY <1>30, PipeFields DEF SinkListen, HeadFramed
<1>31. CASE SinkClose
  BY <1>31, PipeFields DEF SinkClose, HeadFramed
<1>32. CASE SinkInfo
  <2>1. PICK b \in BOOLEAN : pipe' = Written(pipe, Info(nextId + 1, b))
    BY <1>32 DEF SinkInfo
  <2> DEFINE m == Info(nextId + 1, b)
  <2>2. m \in Messages /\ m.kind = "info"
    BY MessageType DEF TypeOK, DataOK, Info
  <2>3. /\ pipe'.queue = Append(pipe.queue, m) /\ pipe'.client = pipe.client
        /\ pipe.queue \in Seq(Messages)
    BY <2>1, <2>2, QueueOnly DEF TypeOK, DataOK, Pipes
  <2>4. ~owes /\ UNCHANGED <<pcW, sample>>
    BY <1>32 DEF SinkInfo, SinkUnchanged, pinVars
  <2> HIDE DEF m
  <2>5. pipe'.queue # << >> /\ pipe'.queue[1] = IF pipe.queue = << >> THEN m ELSE pipe.queue[1]
    BY <2>2, <2>3, FirstMessage
  <2>. QED
    BY <2>2, <2>3, <2>4, <2>5 DEF HeadFramed, Expecting
<1>33. CASE SinkData
  <2>1. owes /\ UNCHANGED <<pcW, sample, nextId>>
    BY <1>33 DEF SinkData, SinkUnchanged, pinVars
  <2>2. CASE WriteFails(pipe)
    BY <1>33, <2>2 DEF SinkData, WriteFails, WriteRoom, HandleInv, HeadFramed
  <2>3. CASE ~WriteFails(pipe)
    <3> DEFINE m == Data(nextId)
    <3>1. pipe' = Written(pipe, m)
      BY <1>33, <2>3 DEF SinkData
    <3>2. m \in Messages
      BY MessageType DEF TypeOK, DataOK
    <3>3. /\ pipe'.queue = Append(pipe.queue, m) /\ pipe'.client = pipe.client
          /\ pipe.queue \in Seq(Messages)
      BY <3>1, <3>2, QueueOnly DEF TypeOK, DataOK, Pipes
    <3>4. m = Data(nextId)
      OBVIOUS
    <3> HIDE DEF m
    <3>5. /\ pipe'.queue # << >>
          /\ pipe'.queue[1] = IF pipe.queue = << >> THEN m ELSE pipe.queue[1]
      BY <3>2, <3>3, FirstMessage
    <3>. QED
      BY <2>1, <3>3, <3>4, <3>5 DEF HeadFramed, Expecting
  <2>. QED
    BY <2>2, <2>3
<1>34. CASE SinkTerminated
  BY <1>34 DEF SinkTerminated, Aligned
<1>35. CASE UNCHANGED vars
  BY <1>35 DEF vars, HeadFramed, Expecting, allocVars, pinVars, sinkVars
<1>. QED
  BY <1>1, <1>2, <1>3, <1>4, <1>5, <1>6, <1>7, <1>8, <1>9, <1>10, <1>11, <1>12, <1>13,
     <1>14, <1>15, <1>16, <1>17, <1>18, <1>19, <1>20, <1>21, <1>22, <1>23, <1>24, <1>25,
     <1>26, <1>27, <1>28, <1>29, <1>30, <1>31, <1>32, <1>33, <1>34, <1>35
  DEF Next, App, Worker, Sink

-----------------------------------------------------------------------------
\* The theorems.

\* The invariant holds when the filter has been created.
LEMMA InitInv == Init => IInv
<1> SUFFICES ASSUME Init PROVE IInv
  OBVIOUS
<1>1. FlagsOK
  BY DEF Init, FlagsOK
<1>2. DataOK
  BY PipeValues, UnfilledType, BoundsAssumption DEF Init, DataOK
<1>3. Handshake
  BY DEF Init, Handshake, NoCall
<1>4. HandleInv
  BY PipeFields DEF Init, HandleInv
<1>5. OrderInv
  BY PipeFields DEF Init, OrderInv
<1>6. FramedInv
  BY PipeFields DEF Init, FramedInv, Unread, QueueFramed, HeadFramed, SampleIntegrity
<1>. QED
  BY <1>1, <1>2, <1>3, <1>4, <1>5, <1>6 DEF IInv, TypeOK

\* A stream that is aligned has always been.
LEMMA AlignedBefore == ASSUME [Next]_vars, Aligned' PROVE Aligned
<1> USE DEF Aligned
<1>1. CASE App
  BY <1>1 DEF App, Activate, InitReturned, PauseReturned, RunReset, StopPin, Deactivate,
     StopReturned, ExitReturned, Closed, Delete, Deleted, AppUnchanged, vars, sinkVars
<1>2. CASE Worker
  BY <1>2 DEF Worker, ReplyReset, ReplyComplete, WorkerInit, WorkerCommand, StartPlay,
     CheckRequest, GetDeliveryBuffer, Destroy, FillBuffer, ConnectClose, ConnectOpen,
     ConnectMode, ReadInfo, SetUp, ReadData, Deliver, DeliverEndOfStream, ReplyUnchanged,
     CommandUnchanged, FillUnchanged, sinkVars
<1>3. CASE DownstreamRelease \/ Sink \/ UNCHANGED vars
  BY <1>3 DEF DownstreamRelease, Sink, SinkListen, SinkClose, SinkInfo, SinkData,
     SinkTerminated, vars, sinkVars
<1>. QED
  BY <1>1, <1>2, <1>3 DEF Next

\* The invariant is inductive.
LEMMA InvStep == IInv /\ [Next]_vars => IInv'
<1> SUFFICES ASSUME IInv, [Next]_vars PROVE IInv'
  OBVIOUS
<1>1. TypeOK' /\ Handshake' /\ HandleInv' /\ OrderInv'
  BY Typing, HandshakeStep, HandleStep, OrderStep DEF IInv, TypeOK
<1>2. CASE Aligned'
  BY <1>1, <1>2, AlignedBefore, UnreadStep, QueueFramedStep, HeadFramedStep DEF IInv, FramedInv
<1>3. CASE ~Aligned'
  BY <1>1, <1>3 DEF IInv
<1>. QED
  BY <1>2, <1>3

\* The invariant holds of every behaviour, whatever the number of samples and of
\* messages the pipe holds.
THEOREM Invariance == Spec => []IInv
  BY InitInv, InvStep, PTL DEF Spec

\* Every variable keeps its type, and the sink never writes into a full pipe.
THEOREM TypeCorrect == Spec => []TypeOK
<1>1. IInv => TypeOK
  BY DEF IInv
<1>. QED
  BY <1>1, Invariance, PTL

\* When Stop has returned the worker is gone and nothing is left in the two
\* events CallWorker and Reply share; a deleted pin holds no end of the pipe.
THEOREM StopIsQuiet == Spec => []QuietWhenStopped
<1>1. IInv => QuietWhenStopped
  BY DEF IInv, TypeOK, DataOK, Handshake, NoCall, HandleInv, QuietWhenStopped
<1>. QED
  BY <1>1, Invariance, PTL

\* FillBuffer's two reads never mix two samples, as long as no call on the media
\* sample fails and the sink sends this client whole samples: the bytes it delivers
\* are those of the info it read.
THEOREM Integrity == Spec => []SampleIntegrity
<1>1. IInv => SampleIntegrity
  BY DEF IInv, FramedInv, SampleIntegrity
<1>. QED
  BY <1>1, Invariance, PTL

\* The worker implements the lossy channel: the sink's info accepts a sample, the
\* ReadFile of an info transmits it, everything else is a stuttering step.
THEOREM Refinement == Spec => InOrder
<1>1. Init => Channel!Init
  BY DEF Init, Channel!Init
<1>2. IInv /\ [Next]_vars => [Channel!Next]_(Channel!vars)
  <2> SUFFICES ASSUME IInv, [Next]_vars PROVE [Channel!Next]_(Channel!vars)
    OBVIOUS
  <2> USE DEF Channel!Next, Channel!vars
  <2>1. CASE SinkInfo
    BY <2>1 DEF SinkInfo, SinkUnchanged, Channel!Accept
  <2>2. CASE ReadInfo
    <3>1. UNCHANGED nextId
      BY <2>2 DEF ReadInfo, FillUnchanged, sinkVars
    <3>2. CASE taken' = taken
      BY <3>1, <3>2
    <3>3. CASE /\ pipe.queue # << >> /\ Head(pipe.queue).kind = "info"
               /\ taken' = Append(taken, Head(pipe.queue).id)
      <4>1. Head(pipe.queue) = pipe.queue[1] /\ 1 \in DOMAIN pipe.queue
        BY <3>3, TailIndex DEF IInv, TypeOK, DataOK, Pipes
      <4>. QED
        BY <3>1, <3>3, <4>1 DEF IInv, OrderInv, Channel!Transmit
    <3>. QED
      BY <2>2, <3>2, <3>3 DEF ReadInfo
  <2>3. CASE ReadData \/ SinkData
    BY <2>3 DEF ReadData, SinkData, FillUnchanged, SinkUnchanged, sinkVars
  <2>4. CASE ~ReadInfo /\ ~ReadData /\ ~SinkInfo /\ ~SinkData
    BY <2>4, QuietSteps DEF IInv
  <2>. QED
    BY <2>1, <2>2, <2>3, <2>4
<1>. QED
  BY <1>1, <1>2, Invariance, PTL DEF Spec, InOrder, Channel!Spec
=============================================================================
