--------------------------- MODULE SinkPinProofs ---------------------------
EXTENDS SinkPin, TLAPS

-----------------------------------------------------------------------------
\* What the operators of the model return.

\* A pipe the operating system makes or unmakes is well typed and holds no
\* message.
LEMMA NoMessages == << >> \in Seq(Messages) /\ Len(<< >>) = 0
  OBVIOUS

LEMMA PipeValues ==
    /\ NoPipe \in Pipes(Messages) /\ NoPipe.queue = << >>
    /\ Listening \in Pipes(Messages) /\ Listening.queue = << >>
    /\ ClientClosed \in Pipes(Messages) /\ ClientClosed.queue = << >>
    /\ Disconnected \in Pipes(Messages) /\ Disconnected.queue = << >>
    /\ \A c \in Clients : Opened(c) \in Pipes(Messages) /\ Opened(c).queue = << >>
<1>1. \A s \in PipeStates : Idle(s) \in Pipes(Messages) /\ Idle(s).queue = << >>
  BY NoMessages DEF Idle, Pipes, Clients
<1>2. \A c \in Clients : Opened(c) \in Pipes(Messages) /\ Opened(c).queue = << >>
  BY NoMessages DEF Opened, Pipes, PipeStates
<1>. QED
  BY <1>1, <1>2 DEF NoPipe, Listening, ClientClosed, Disconnected, PipeStates

LEMMA ReadType ==
    ASSUME NEW p \in Pipes(Messages), p.queue # << >>
    PROVE  ReadMsg(p) \in Pipes(Messages) /\ Len(ReadMsg(p).queue) = Len(p.queue) - 1
  BY DEF Pipes, ReadMsg

LEMMA WriteType ==
    ASSUME NEW p \in Pipes(Messages), NEW m \in Messages, WriteRoom(p, PipeCapacity)
    PROVE  Written(p, m) \in Pipes(Messages) /\ Len(Written(p, m).queue) <= PipeCapacity
<1>1. p.queue \in Seq(Messages) /\ Len(p.queue) \in Nat
  BY DEF Pipes
<1>2. Written(p, m) \in Pipes(Messages) /\ Written(p, m).queue = Append(p.queue, m)
  BY <1>1 DEF Pipes, Written
<1>3. Len(Append(p.queue, m)) = Len(p.queue) + 1
  BY <1>1
<1>. QED
  BY <1>1, <1>2, <1>3, BoundsAssumption DEF WriteRoom

LEMMA NoSampleType == NoSample \in Samples
  BY DEF NoSample, Samples

LEMMA SampleType ==
    ASSUME NEW n \in Nat, NEW b \in BOOLEAN PROVE [id |-> n + 1, data |-> b] \in Samples
  BY DEF Samples

LEMMA MessageType == \A s \in Samples : s.id \in Nat /\ Info(s) \in Messages /\ Data(s) \in Messages
  BY DEF Samples, Messages, Info, Data

LEMMA EnqueueType ==
    ASSUME DataOK, NEW b \in BOOLEAN, Enqueue(b)
    PROVE  /\ buffer' \in Seq(Samples)
           /\ nextId' \in Nat
           /\ hThread2' \in Writer \cup {"null", "garbage"}
           /\ pcW' \in [Writer -> {"none", "check", "take", "test", "info", "data"}]
           /\ UNCHANGED <<cur, sent, torn>>
<1>1. buffer' \in Seq(Samples) /\ nextId' \in Nat
  BY SampleType DEF DataOK, Enqueue
<1>2. CASE writeBuffering
  BY <1>1, <1>2 DEF DataOK, Enqueue
<1>3. CASE ~writeBuffering
  BY <1>1, <1>3 DEF DataOK, Enqueue
<1>. QED
  BY <1>2, <1>3

\* A step keeps the flags boolean.
LEMMA FlagsStep == ASSUME FlagsOK, [Next]_vars PROVE FlagsOK'
<1>1. CASE AcceptConnection
  BY <1>1 DEF AcceptConnection, FlagsOK, filterVars, writerVars, serverVars, historyVars
<1>2. CASE RejectConnection
  BY <1>2 DEF RejectConnection, FlagsOK, filterVars, writerVars, serverVars, historyVars
<1>3. CASE FilterStart
  BY <1>3 DEF FilterStart, FlagsOK, filterVars, writerVars, serverVars, historyVars
<1>4. CASE FilterStop
  BY <1>4 DEF FilterStop, FlagsOK, filterVars, writerVars, serverVars, historyVars
<1>5. CASE UpstreamStart
  BY <1>5 DEF UpstreamStart, FlagsOK, filterVars, writerVars, serverVars, historyVars
<1>6. CASE UpstreamStop
  BY <1>6 DEF UpstreamStop, FlagsOK, filterVars, writerVars, serverVars, historyVars
<1>7. CASE BeginFlush
  BY <1>7 DEF BeginFlush, FlagsOK, filterVars, writerVars, serverVars, historyVars
<1>8. CASE EndFlush
  BY <1>8 DEF EndFlush, FlagsOK, filterVars, writerVars, serverVars, historyVars
<1>9. CASE Disconnect
  BY <1>9 DEF Disconnect, FlagsOK, filterVars, writerVars, serverVars, historyVars
<1>10. CASE NotifyAllocator
  BY <1>10 DEF NotifyAllocator, FlagsOK, filterVars, writerVars, serverVars, historyVars
<1>11. CASE BreakWriterGone
  BY <1>11 DEF BreakWriterGone, FlagsOK, filterVars, writerVars, serverVars, historyVars,
         FinishBreak
<1>12. CASE BreakTimeout
  BY <1>12 DEF BreakTimeout, FlagsOK, filterVars, writerVars, serverVars, historyVars,
         FinishBreak
<1>13. CASE Delete
  BY <1>13 DEF Delete, FlagsOK, filterVars, writerVars, serverVars, historyVars
<1>14. CASE Deleted
  BY <1>14 DEF Deleted, FlagsOK, filterVars, writerVars, serverVars, historyVars, vars
<1>15. CASE Receive
  BY <1>15 DEF Receive, FlagsOK, filterVars, writerVars, serverVars, historyVars, Enqueue
<1>16. CASE ReceiveBadFormat
  BY <1>16 DEF ReceiveBadFormat, FlagsOK, filterVars, writerVars, serverVars, historyVars,
         Enqueue
<1>17. CASE EndOfStream
  BY <1>17 DEF EndOfStream, FlagsOK, filterVars, writerVars, serverVars, historyVars
<1>18. CASE StopOpen
  BY <1>18 DEF StopOpen, FlagsOK, filterVars, writerVars, serverVars, historyVars, StopUnchanged
<1>19. CASE StopClose
  BY <1>19 DEF StopClose, FlagsOK, filterVars, writerVars, serverVars, historyVars,
         StopUnchanged
<1>20. CASE StopDisconnect
  BY <1>20 DEF StopDisconnect, FlagsOK, filterVars, writerVars, serverVars, historyVars,
         StopUnchanged
<1>21. CASE StopCloseHandle
  BY <1>21 DEF StopCloseHandle, FlagsOK, filterVars, writerVars, serverVars, historyVars,
         StopUnchanged
<1>22. CASE StopServerGone
  BY <1>22 DEF StopServerGone, FlagsOK, filterVars, writerVars, serverVars, historyVars,
         StopUnchanged
<1>23. CASE StopTimeout
  BY <1>23 DEF StopTimeout, FlagsOK, filterVars, writerVars, serverVars, historyVars,
         StopUnchanged
<1>24. CASE StopDone
  BY <1>24 DEF StopDone, FlagsOK, filterVars, writerVars, serverVars, historyVars, StopUnchanged
<1>25. CASE ServerStart
  BY <1>25 DEF ServerStart, FlagsOK, filterVars, writerVars, serverVars, historyVars,
         ServerUnchanged
<1>26. CASE ServerLoop
  BY <1>26 DEF ServerLoop, FlagsOK, filterVars, writerVars, serverVars, historyVars,
         ServerUnchanged
<1>27. CASE ServerAccepted
  BY <1>27 DEF ServerAccepted, FlagsOK, filterVars, writerVars, serverVars, historyVars,
         ServerUnchanged
<1>28. CASE ServerConnect
  BY <1>28 DEF ServerConnect, FlagsOK, filterVars, writerVars, serverVars, historyVars,
         ServerUnchanged
<1>29. CASE ServerAfter
  BY <1>29 DEF ServerAfter, FlagsOK, filterVars, writerVars, serverVars, historyVars,
         ServerUnchanged
<1>30. CASE ClientOpen
  BY <1>30 DEF ClientOpen, FlagsOK, filterVars, writerVars, serverVars, historyVars,
         ClientUnchanged
<1>31. CASE ClientClose
  BY <1>31 DEF ClientClose, FlagsOK, filterVars, writerVars, serverVars, historyVars,
         ClientUnchanged
<1>32. CASE ClientRead
  BY <1>32 DEF ClientRead, FlagsOK, filterVars, writerVars, serverVars, historyVars,
         ClientUnchanged
<1>33. ASSUME NEW w \in Writer, WriterCheck(w) PROVE FlagsOK'
  BY <1>33 DEF WriterCheck, FlagsOK, filterVars, writerVars, serverVars, historyVars,
         WriterUnchanged
<1>34. ASSUME NEW w \in Writer, WriterTake(w) PROVE FlagsOK'
  BY <1>34 DEF WriterTake, FlagsOK, filterVars, writerVars, serverVars, historyVars,
         WriterUnchanged
<1>35. ASSUME NEW w \in Writer, WriterTest(w) PROVE FlagsOK'
  BY <1>35 DEF WriterTest, FlagsOK, filterVars, writerVars, serverVars, historyVars,
         WriterUnchanged
<1>36. ASSUME NEW w \in Writer, WriterInfo(w) PROVE FlagsOK'
  BY <1>36 DEF WriterInfo, FlagsOK, filterVars, writerVars, serverVars, historyVars,
         WriterUnchanged
<1>37. ASSUME NEW w \in Writer, WriterData(w) PROVE FlagsOK'
  BY <1>37 DEF WriterData, FlagsOK, filterVars, writerVars, serverVars, historyVars,
         WriterUnchanged
<1>38. CASE UNCHANGED vars
  BY <1>38 DEF vars, FlagsOK, filterVars, writerVars, serverVars, historyVars
<1>. QED
  BY <1>1, <1>2, <1>3, <1>4, <1>5, <1>6, <1>7, <1>8, <1>9, <1>10, <1>11, <1>12, <1>13, <1>14,
     <1>15, <1>16, <1>17, <1>18, <1>19, <1>20, <1>21, <1>22, <1>23, <1>24, <1>25, <1>26, <1>27,
     <1>28, <1>29, <1>30, <1>31, <1>32, <1>33, <1>34, <1>35, <1>36, <1>37, <1>38
  DEF Next, App, Stream, StopServer, Server, WriterStep, Client

\* A step keeps the rest of the state well typed.
LEMMA DataStep == ASSUME DataOK, [Next]_vars PROVE DataOK'
<1>1. CASE AcceptConnection
  BY <1>1
  DEF AcceptConnection, DataOK, filterVars, writerVars, serverVars, historyVars
<1>2. CASE RejectConnection
  BY <1>2
  DEF RejectConnection, DataOK, filterVars, writerVars, serverVars, historyVars
<1>3. CASE FilterStart
  BY <1>3
  DEF FilterStart, DataOK, filterVars, writerVars, serverVars, historyVars
<1>4. CASE FilterStop
  BY <1>4
  DEF FilterStop, DataOK, filterVars, writerVars, serverVars, historyVars
<1>5. CASE UpstreamStart
  BY <1>5
  DEF UpstreamStart, DataOK, filterVars, writerVars, serverVars, historyVars
<1>6. CASE UpstreamStop
  BY <1>6
  DEF UpstreamStop, DataOK, filterVars, writerVars, serverVars, historyVars
<1>7. CASE BeginFlush
  BY <1>7
  DEF BeginFlush, DataOK, filterVars, writerVars, serverVars, historyVars
<1>8. CASE EndFlush
  BY <1>8
  DEF EndFlush, DataOK, filterVars, writerVars, serverVars, historyVars
<1>9. CASE Disconnect
  BY <1>9
  DEF Disconnect, DataOK, filterVars, writerVars, serverVars, historyVars
<1>10. CASE NotifyAllocator
  BY <1>10, PipeValues, NoMessages, BoundsAssumption
  DEF NotifyAllocator, DataOK, filterVars, writerVars, serverVars, historyVars
<1>11. CASE BreakWriterGone
  BY <1>11
  DEF BreakWriterGone, DataOK, filterVars, writerVars, serverVars, historyVars, FinishBreak
<1>12. CASE BreakTimeout
  BY <1>12, NoSampleType
  DEF BreakTimeout, DataOK, filterVars, writerVars, serverVars, historyVars, FinishBreak
<1>13. CASE Delete
  BY <1>13
  DEF Delete, DataOK, filterVars, writerVars, serverVars, historyVars
<1>14. CASE Deleted
  BY <1>14
  DEF Deleted, DataOK, filterVars, writerVars, serverVars, historyVars, vars
<1>15. CASE Receive
  BY <1>15, EnqueueType
  DEF Receive, DataOK, filterVars, writerVars, serverVars, historyVars
<1>16. CASE ReceiveBadFormat
  BY <1>16, EnqueueType
  DEF ReceiveBadFormat, DataOK, filterVars, writerVars, serverVars, historyVars
<1>17. CASE EndOfStream
  BY <1>17
  DEF EndOfStream, DataOK, filterVars, writerVars, serverVars, historyVars
<1>18. CASE StopOpen
  <2>1. pipe' \in Pipes(Messages) /\ Len(pipe'.queue) <= PipeCapacity
    BY <1>18, PipeValues, NoMessages, BoundsAssumption DEF StopOpen, DataOK, Clients
  <2>. QED
    BY <1>18, <2>1 DEF StopOpen, DataOK, filterVars, writerVars, serverVars, StopUnchanged
<1>19. CASE StopClose
  BY <1>19, PipeValues, NoMessages, BoundsAssumption
  DEF StopClose, DataOK, filterVars, writerVars, serverVars, StopUnchanged
<1>20. CASE StopDisconnect
  BY <1>20, PipeValues, NoMessages, BoundsAssumption
  DEF StopDisconnect, DataOK, filterVars, writerVars, serverVars, StopUnchanged
<1>21. CASE StopCloseHandle
  BY <1>21, PipeValues, NoMessages, BoundsAssumption
  DEF StopCloseHandle, DataOK, filterVars, writerVars, serverVars, StopUnchanged
<1>22. CASE StopServerGone
  BY <1>22
  DEF StopServerGone, DataOK, filterVars, writerVars, serverVars, StopUnchanged
<1>23. CASE StopTimeout
  BY <1>23
  DEF StopTimeout, DataOK, filterVars, writerVars, serverVars, StopUnchanged
<1>24. CASE StopDone
  BY <1>24
  DEF StopDone, DataOK, filterVars, writerVars, serverVars, StopUnchanged
<1>25. CASE ServerStart
  BY <1>25
  DEF ServerStart, DataOK, filterVars, writerVars, historyVars, ServerUnchanged
<1>26. CASE ServerLoop
  BY <1>26
  DEF ServerLoop, DataOK, filterVars, writerVars, historyVars, ServerUnchanged
<1>27. CASE ServerAccepted
  BY <1>27
  DEF ServerAccepted, DataOK, filterVars, writerVars, historyVars, ServerUnchanged
<1>28. CASE ServerConnect
  <2>1. pipe' \in Pipes(Messages) /\ Len(pipe'.queue) <= PipeCapacity
    BY <1>28, PipeValues, NoMessages, BoundsAssumption DEF ServerConnect, DataOK
  <2>2. pcServer' \in {"listen", "after"}
    BY <1>28 DEF ServerConnect, DataOK
  <2>. QED
    BY <1>28, <2>1, <2>2 DEF ServerConnect, DataOK, filterVars, writerVars, historyVars,
       ServerUnchanged
<1>29. CASE ServerAfter
  BY <1>29, PipeValues, NoMessages, BoundsAssumption
  DEF ServerAfter, DataOK, filterVars, writerVars, historyVars, ServerUnchanged
<1>30. CASE ClientOpen
  <2>1. pipe' \in Pipes(Messages) /\ Len(pipe'.queue) <= PipeCapacity
    BY <1>30, PipeValues, NoMessages, BoundsAssumption DEF ClientOpen, Clients
  <2>. QED
    BY <1>30, <2>1 DEF ClientOpen, DataOK, filterVars, writerVars, serverVars, ClientUnchanged
<1>31. CASE ClientClose
  BY <1>31, PipeValues, NoMessages, BoundsAssumption
  DEF ClientClose, DataOK, filterVars, writerVars, serverVars, ClientUnchanged, Clients
<1>32. CASE ClientRead
  <2>1. pipe' \in Pipes(Messages) /\ Len(pipe'.queue) <= PipeCapacity
    BY <1>32, ReadType, BoundsAssumption DEF ClientRead, DataOK, Pipes
  <2>. QED
    BY <1>32, <2>1 DEF ClientRead, DataOK, filterVars, writerVars, serverVars, ClientUnchanged
<1>33. ASSUME NEW w \in Writer, WriterCheck(w) PROVE DataOK'
  BY <1>33
  DEF WriterCheck, DataOK, filterVars, serverVars, WriterUnchanged, Goto, Drop
<1>34. ASSUME NEW w \in Writer, WriterTake(w) PROVE DataOK'
  <2>1. CASE buffer = << >>
    BY <1>34, <2>1 DEF WriterTake, DataOK, filterVars, serverVars, WriterUnchanged, Goto, Drop
  <2>2. CASE buffer # << >>
    <3>1. Head(buffer) \in Samples /\ Tail(buffer) \in Seq(Samples)
      BY <2>2 DEF DataOK
    <3>. QED
      BY ZenonT(60), <1>34, <2>2, <3>1 DEF WriterTake, DataOK, filterVars, serverVars,
             WriterUnchanged, Goto, Drop
  <2>. QED
    BY <2>1, <2>2
<1>35. ASSUME NEW w \in Writer, WriterTest(w) PROVE DataOK'
  BY <1>35, NoSampleType
  DEF WriterTest, DataOK, filterVars, serverVars, WriterUnchanged, Goto, Drop
<1>36. ASSUME NEW w \in Writer, WriterInfo(w) PROVE DataOK'
  <2>1. cur[w] \in Samples /\ cur[w].id \in Nat /\ Info(cur[w]) \in Messages
    BY MessageType DEF DataOK
  <2>2. pipe' \in Pipes(Messages) /\ Len(pipe'.queue) <= PipeCapacity
    BY <1>36, <2>1, WriteType DEF WriterInfo, DataOK
  <2>4. sent' \in Seq(Nat)
    <3>1. sent' = sent \/ sent' = Append(sent, cur[w].id)
      BY <1>36 DEF WriterInfo
    <3>2. sent \in Seq(Nat)
      BY DEF DataOK
    <3>3. Append(sent, cur[w].id) \in Seq(Nat)
      BY <2>1, <3>2
    <3>. QED
      BY <3>1, <3>2, <3>3
  <2>3. /\ pcW' \in [Writer -> {"none", "check", "take", "test", "info", "data"}]
        /\ cur' \in [Writer -> Samples]
    BY <1>36, NoSampleType DEF WriterInfo, DataOK, Goto, Drop
  <2>. QED
    BY <1>36, <2>2, <2>3, <2>4 DEF WriterInfo, DataOK, filterVars, serverVars, WriterUnchanged
<1>37. ASSUME NEW w \in Writer, WriterData(w) PROVE DataOK'
  <2>1. Data(cur[w]) \in Messages
    BY MessageType DEF DataOK
  <2>2. pipe' \in Pipes(Messages) /\ Len(pipe'.queue) <= PipeCapacity
    BY <1>37, <2>1, WriteType DEF WriterData, DataOK
  <2>. QED
    BY <1>37, <2>2, NoSampleType DEF WriterData, DataOK, filterVars, serverVars,
           WriterUnchanged, Goto, Drop
<1>38. CASE UNCHANGED vars
  BY SMTT(40), <1>38 DEF vars, DataOK, filterVars, writerVars, serverVars, historyVars
<1>. QED
  BY <1>1, <1>2, <1>3, <1>4, <1>5, <1>6, <1>7, <1>8, <1>9, <1>10, <1>11, <1>12, <1>13, <1>14,
     <1>15, <1>16, <1>17, <1>18, <1>19, <1>20, <1>21, <1>22, <1>23, <1>24, <1>25, <1>26, <1>27,
     <1>28, <1>29, <1>30, <1>31, <1>32, <1>33, <1>34, <1>35, <1>36, <1>37, <1>38
  DEF Next, App, Stream, StopServer, Server, WriterStep, Client

\* A step keeps the type invariant.
LEMMA Typing == ASSUME TypeOK, [Next]_vars PROVE TypeOK'
  BY FlagsStep, DataStep DEF TypeOK

-----------------------------------------------------------------------------
\* Who may call what, how many writers there are, and who owns the pipe.
Control == Lifecycle /\ OneWriter /\ StopInv

LEMMA ControlStep == ASSUME TypeOK, Control, [Next]_vars PROVE Control'
<1> USE WriterAssumption DEF Control, TypeOK, FlagsOK, DataOK, Lifecycle, OneWriter,
           AtMostOneWriter, StopInv, ServerOwnsPipe
<1>1. CASE AcceptConnection
  BY <1>1 DEF AcceptConnection, AppReady, StreamReady, filterVars, writerVars, serverVars,
         historyVars
<1>2. CASE RejectConnection
  BY <1>2 DEF RejectConnection, AppReady, StreamReady, filterVars, writerVars, serverVars,
         historyVars
<1>3. CASE NotifyAllocator
  BY <1>3 DEF NotifyAllocator, AppReady, StreamReady, filterVars, writerVars, serverVars,
         historyVars
<1>4. CASE FilterStart
  BY <1>4 DEF FilterStart, AppReady, StreamReady, filterVars, writerVars, serverVars,
         historyVars
<1>5. CASE FilterStop
  BY <1>5 DEF FilterStop, AppReady, StreamReady, filterVars, writerVars, serverVars, historyVars
<1>6. CASE UpstreamStart
  BY <1>6 DEF UpstreamStart, AppReady, StreamReady, filterVars, writerVars, serverVars,
         historyVars
<1>7. CASE UpstreamStop
  BY <1>7 DEF UpstreamStop, AppReady, StreamReady, filterVars, writerVars, serverVars,
         historyVars
<1>8. CASE BeginFlush
  BY <1>8 DEF BeginFlush, AppReady, StreamReady, filterVars, writerVars, serverVars, historyVars
<1>9. CASE EndFlush
  BY <1>9 DEF EndFlush, AppReady, StreamReady, filterVars, writerVars, serverVars, historyVars
<1>10. CASE Disconnect
  BY <1>10 DEF Disconnect, AppReady, StreamReady, filterVars, writerVars, serverVars,
         historyVars
<1>11. CASE BreakWriterGone
  BY <1>11 DEF BreakWriterGone, AppReady, StreamReady, filterVars, writerVars, serverVars,
         historyVars, FinishBreak
<1>12. CASE BreakTimeout
  BY <1>12 DEF BreakTimeout, AppReady, StreamReady, filterVars, writerVars, serverVars,
         historyVars, FinishBreak
<1>13. CASE Delete
  BY <1>13 DEF Delete, AppReady, StreamReady, filterVars, writerVars, serverVars, historyVars
<1>14. CASE Deleted
  BY <1>14 DEF Deleted, AppReady, StreamReady, filterVars, writerVars, serverVars, historyVars,
         vars
<1>15. CASE Receive
  BY <1>15 DEF Receive, AppReady, StreamReady, filterVars, writerVars, serverVars, historyVars,
         Enqueue
<1>16. CASE ReceiveBadFormat
  BY <1>16 DEF ReceiveBadFormat, AppReady, StreamReady, filterVars, writerVars, serverVars,
         historyVars, Enqueue
<1>17. CASE EndOfStream
  BY <1>17 DEF EndOfStream, AppReady, StreamReady, filterVars, writerVars, serverVars,
         historyVars
<1>18. CASE StopOpen
  BY <1>18 DEF StopOpen, filterVars, writerVars, serverVars, StopUnchanged
<1>19. CASE StopClose
  BY <1>19 DEF StopClose, filterVars, writerVars, serverVars, StopUnchanged
<1>20. CASE StopServerGone
  BY <1>20 DEF StopServerGone, filterVars, writerVars, serverVars, StopUnchanged
<1>21. CASE StopTimeout
  BY <1>21 DEF StopTimeout, filterVars, writerVars, serverVars, StopUnchanged
<1>22. CASE StopDisconnect
  BY <1>22 DEF StopDisconnect, filterVars, writerVars, serverVars, StopUnchanged
<1>23. CASE StopCloseHandle
  BY <1>23 DEF StopCloseHandle, filterVars, writerVars, serverVars, StopUnchanged
<1>24. CASE StopDone
  BY <1>24 DEF StopDone, filterVars, writerVars, serverVars, StopUnchanged
<1>25. CASE ServerStart
  BY <1>25 DEF ServerStart, filterVars, writerVars, ServerUnchanged
<1>26. CASE ServerLoop
  BY <1>26 DEF ServerLoop, filterVars, writerVars, ServerUnchanged
<1>27. CASE ServerConnect
  BY <1>27 DEF ServerConnect, filterVars, writerVars, ServerUnchanged
<1>28. CASE ServerAccepted
  BY <1>28 DEF ServerAccepted, filterVars, writerVars, ServerUnchanged
<1>29. CASE ServerAfter
  BY <1>29 DEF ServerAfter, filterVars, writerVars, ServerUnchanged
<1>30. CASE ClientOpen
  BY <1>30 DEF ClientOpen, filterVars, writerVars, serverVars, ClientUnchanged
<1>31. CASE ClientRead
  BY <1>31 DEF ClientRead, filterVars, writerVars, serverVars, ClientUnchanged
<1>32. CASE ClientClose
  BY <1>32 DEF ClientClose, filterVars, writerVars, serverVars, ClientUnchanged
<1>33. ASSUME NEW w \in Writer, WriterCheck(w) PROVE Control'
  BY <1>33 DEF WriterCheck, filterVars, serverVars, WriterUnchanged, Goto, Drop
<1>34. ASSUME NEW w \in Writer, WriterTake(w) PROVE Control'
  BY <1>34 DEF WriterTake, filterVars, serverVars, WriterUnchanged, Goto, Drop
<1>35. ASSUME NEW w \in Writer, WriterTest(w) PROVE Control'
  BY <1>35 DEF WriterTest, filterVars, serverVars, WriterUnchanged, Goto, Drop
<1>36. ASSUME NEW w \in Writer, WriterInfo(w) PROVE Control'
  BY <1>36 DEF WriterInfo, filterVars, serverVars, WriterUnchanged, Goto, Drop
<1>37. ASSUME NEW w \in Writer, WriterData(w) PROVE Control'
  BY <1>37 DEF WriterData, filterVars, serverVars, WriterUnchanged, Goto, Drop
<1>38. CASE UNCHANGED vars
  BY <1>38 DEF vars, filterVars, writerVars, serverVars
<1>. QED
  BY <1>1, <1>2, <1>3, <1>4, <1>5, <1>6, <1>7, <1>8, <1>9, <1>10, <1>11, <1>12, <1>13, <1>14,
     <1>15, <1>16, <1>17, <1>18, <1>19, <1>20, <1>21, <1>22, <1>23, <1>24, <1>25, <1>26, <1>27,
     <1>28, <1>29, <1>30, <1>31, <1>32, <1>33, <1>34, <1>35, <1>36, <1>37, <1>38
  DEF Next, App, Stream, StopServer, Server, WriterStep, Client

-----------------------------------------------------------------------------
\* The numbers of the samples: sent, held by the writer, queued.

\* Steps that leave the queue, the writers and the history alone.
LEMMA OrderUnchanged ==
    ASSUME OrderInv, UNCHANGED <<buffer, nextId, sent, pcW, cur>>
    PROVE  OrderInv'
  BY DEF OrderInv, QueueOrder, SentOrder, HeldOrder, Holding

\* The sample Receive queues is newer than any other.
LEMMA EnqueueOrder ==
    ASSUME TypeOK, OrderInv, NEW b \in BOOLEAN, Enqueue(b)
    PROVE  OrderInv'
<1>1. /\ nextId \in Nat /\ nextId' = nextId + 1
      /\ buffer \in Seq(Samples) /\ sent \in Seq(Nat)
      /\ buffer' = Append(buffer, [id |-> nextId + 1, data |-> b])
      /\ sent' = sent /\ cur' = cur
  BY DEF Enqueue, TypeOK, FlagsOK, DataOK
<1>2. /\ \A i \in DOMAIN buffer : buffer'[i] = buffer[i]
      /\ \A i \in DOMAIN buffer' :
             i \in DOMAIN buffer \/ (i = Len(buffer) + 1 /\ buffer'[i].id = nextId + 1)
      /\ DOMAIN buffer = 1 .. Len(buffer) /\ Len(buffer) \in Nat
      /\ DOMAIN buffer' = 1 .. Len(buffer) + 1
  BY <1>1
<1>3. \A i \in DOMAIN buffer : buffer[i].id \in 1 .. nextId
  BY DEF OrderInv, QueueOrder
<1>4. QueueOrder'
  BY <1>1, <1>2, <1>3 DEF OrderInv, QueueOrder
<1>5. SentOrder'
  BY <1>1, <1>2, <1>3 DEF OrderInv, SentOrder
<1>6. \A w \in Writer : Holding(w)' => Holding(w) /\ pcW'[w] = pcW[w]
  BY DEF Enqueue, TypeOK, FlagsOK, DataOK, Holding
<1>7. HeldOrder'
  BY SMTT(40), <1>1, <1>2, <1>3, <1>6 DEF OrderInv, HeldOrder
<1>. QED
  BY <1>4, <1>5, <1>7 DEF OrderInv

\* The sample the writer takes is older than those it leaves, and nobody else
\* holds one.
LEMMA TakeOrder ==
    ASSUME TypeOK, Control, OrderInv, NEW w \in Writer, WriterTake(w)
    PROVE  OrderInv'
<1>1. \A v \in Writer : v # w => pcW[v] = "none"
  BY DEF Control, OneWriter, AtMostOneWriter, WriterTake
<1>2. nextId' = nextId /\ sent' = sent
  BY DEF WriterTake, WriterUnchanged
<1>3. CASE buffer = << >>
  BY <1>2, <1>3 DEF WriterTake, Goto, TypeOK, FlagsOK, DataOK, OrderInv, QueueOrder, SentOrder,
         HeldOrder, Holding
<1>4. CASE buffer # << >>
  <2>1. /\ buffer' = Tail(buffer)
        /\ buffer \in Seq(Samples)
        /\ pcW' = [pcW EXCEPT ![w] = "test"]
        /\ cur' = [cur EXCEPT ![w] = buffer[1]]
    BY <1>4 DEF WriterTake, Goto, TypeOK, FlagsOK, DataOK
  <2>2. /\ \A i \in DOMAIN buffer' : i + 1 \in DOMAIN buffer /\ buffer'[i] = buffer[i + 1]
        /\ DOMAIN buffer' \subseteq Nat \ {0}
        /\ 1 \in DOMAIN buffer
    BY <1>4, <2>1
  <2>3. QueueOrder'
    BY <1>2, <2>1, <2>2 DEF OrderInv, QueueOrder
  <2>4. SentOrder'
    BY <1>2, <2>1, <2>2 DEF OrderInv, SentOrder
  <2>5. \A v \in Writer : Holding(v)' => v = w
    BY <1>1, <2>1 DEF TypeOK, FlagsOK, DataOK, Holding
  <2>6. /\ cur'[w].id \in 1 .. nextId
        /\ \A i \in DOMAIN buffer' : cur'[w].id < buffer'[i].id
        /\ \A k \in DOMAIN sent : sent[k] < cur'[w].id
    <3>1. cur'[w] = buffer[1]
      BY <2>1 DEF TypeOK, FlagsOK, DataOK
    <3>2. /\ buffer[1].id \in 1 .. nextId
          /\ \A i \in DOMAIN buffer' : buffer[1].id < buffer[i + 1].id
      BY <2>2 DEF OrderInv, QueueOrder
    <3>3. \A k \in DOMAIN sent : sent[k] < buffer[1].id
      BY <2>2 DEF OrderInv, SentOrder
    <3>. QED
      BY <2>2, <3>1, <3>2, <3>3
  <2>7. HeldOrder'
    BY <1>2, <2>5, <2>6 DEF HeldOrder
  <2>. QED
    BY <2>3, <2>4, <2>7 DEF OrderInv
<1>. QED
  BY <1>3, <1>4

\* What the writer sends is newer than everything sent before.
LEMMA InfoOrder ==
    ASSUME TypeOK, Control, OrderInv, NEW w \in Writer, WriterInfo(w)
    PROVE  /\ OrderInv'
           /\ sent' # sent => /\ sent' = Append(sent, cur[w].id)
                              /\ cur[w].id \in 1 .. nextId
                              /\ \A k \in DOMAIN sent : sent[k] < cur[w].id
<1>1. \A v \in Writer : v # w => pcW[v] = "none"
  BY DEF Control, OneWriter, AtMostOneWriter, WriterInfo
<1>2. /\ nextId' = nextId /\ buffer' = buffer
      /\ sent' = sent \/ sent' = Append(sent, cur[w].id)
      /\ sent \in Seq(Nat) /\ cur[w].id \in Nat
  BY DEF WriterInfo, WriterUnchanged, TypeOK, FlagsOK, DataOK, Samples
<1>3. /\ cur[w].id \in 1 .. nextId
      /\ \A i \in DOMAIN buffer : cur[w].id < buffer[i].id
      /\ \A k \in DOMAIN sent : sent[k] < cur[w].id
  BY DEF OrderInv, HeldOrder, Holding, WriterInfo
<1>4. \A k \in DOMAIN sent' : (k \in DOMAIN sent /\ sent'[k] = sent[k]) \/ sent'[k] = cur[w].id
  BY SMTT(40), <1>2
<1>5. \A v \in Writer : Holding(v)' => v = w /\ pcW'[w] = "data" /\ cur'[w] = cur[w]
  BY <1>1 DEF WriterInfo, Goto, Drop, TypeOK, FlagsOK, DataOK, Holding
<1>6. QueueOrder' /\ SentOrder'
  BY <1>2, <1>3, <1>4 DEF OrderInv, QueueOrder, SentOrder
<1>7. HeldOrder'
  BY <1>2, <1>3, <1>5 DEF HeldOrder
<1>. QED
  BY <1>2, <1>3, <1>6, <1>7 DEF OrderInv

\* A writer that drops its sample, goes on with it or ends.
LEMMA OtherOrder ==
    ASSUME TypeOK, OrderInv, UNCHANGED <<buffer, nextId, sent>>,
           \A v \in Writer : Holding(v)' =>
               cur'[v] = cur[v] /\ (pcW'[v] = pcW[v] \/ pcW[v] = "test")
    PROVE  OrderInv'
  BY DEF OrderInv, QueueOrder, SentOrder, HeldOrder, Holding

LEMMA OrderStep == ASSUME TypeOK, Control, OrderInv, [Next]_vars PROVE OrderInv'
<1>1. CASE App
  <2>1. CASE BreakTimeout
    BY <2>1, OtherOrder DEF BreakTimeout, FinishBreak, TypeOK, FlagsOK, DataOK, Holding
  <2>2. CASE App /\ ~BreakTimeout
    <3>1. UNCHANGED <<buffer, nextId, sent, pcW, cur>>
      BY <2>2 DEF App, AcceptConnection, RejectConnection, NotifyAllocator, FilterStart,
         FilterStop, UpstreamStart, UpstreamStop, BeginFlush, EndFlush, Disconnect,
         BreakWriterGone, FinishBreak, Delete, Deleted, vars, writerVars, historyVars
    <3>. QED
      BY <3>1, OrderUnchanged
  <2>. QED
    BY <1>1, <2>1, <2>2
<1>2. CASE Stream
  <2>1. CASE EndOfStream
    BY <2>1, OrderUnchanged DEF EndOfStream, writerVars, historyVars
  <2>2. CASE Receive \/ ReceiveBadFormat
    BY <2>2, EnqueueOrder DEF Receive, ReceiveBadFormat
  <2>. QED
    BY <1>2, <2>1, <2>2 DEF Stream
<1>3. CASE StopServer \/ Server \/ Client
  <2>1. UNCHANGED <<buffer, nextId, sent, pcW, cur>>
    BY <1>3 DEF StopServer, StopOpen, StopClose, StopServerGone, StopTimeout, StopDisconnect,
       StopCloseHandle, StopDone, StopUnchanged, Server, ServerStart, ServerLoop,
       ServerConnect, ServerAccepted, ServerAfter, ServerUnchanged, Client, ClientOpen,
       ClientRead, ClientClose, ClientUnchanged, writerVars, historyVars
  <2>. QED
    BY <2>1, OrderUnchanged
<1>4. ASSUME NEW w \in Writer, WriterStep(w) PROVE OrderInv'
  <2>1. CASE WriterTake(w)
    BY <2>1, TakeOrder
  <2>2. CASE WriterInfo(w)
    BY <2>2, InfoOrder
  <2>3. CASE WriterCheck(w)
    BY <2>3, OtherOrder DEF WriterCheck, WriterUnchanged, Goto, TypeOK, DataOK, Holding
  <2>4. CASE WriterTest(w)
    BY <2>4, OtherOrder DEF WriterTest, WriterUnchanged, Goto, Drop, TypeOK, DataOK, Holding
  <2>5. CASE WriterData(w)
    BY <2>5, OtherOrder DEF WriterData, WriterUnchanged, Goto, Drop, TypeOK, DataOK, Holding
  <2>. QED
    BY <1>4, <2>1, <2>2, <2>3, <2>4, <2>5 DEF WriterStep
<1>5. CASE UNCHANGED vars
  BY <1>5, OrderUnchanged DEF vars, writerVars, historyVars
<1>. QED
  BY <1>1, <1>2, <1>3, <1>4, <1>5 DEF Next

-----------------------------------------------------------------------------
\* The messages in the pipe.

\* A pipe without messages.
LEMMA EmptyFraming ==
    ASSUME \A w \in Writer : pcW'[w] = "data" => cur'[w].data, pipe'.queue = << >>
    PROVE  FramingInv'
  BY DEF FramingInv, Framing, TypeOK, FlagsOK, DataOK

\* A pipe that stays as it is, while writers between two samples move.
LEMMA FramingUnchanged ==
    ASSUME FramingInv, UNCHANGED <<pipe, torn>>,
           \A w \in Writer : /\ pcW'[w] = "data" <=> pcW[w] = "data"
                             /\ pcW[w] = "data" => cur'[w] = cur[w]
    PROVE  FramingInv'
  BY DEF FramingInv, Framing, LastMsg

\* The client takes the first message.
LEMMA ReadFraming ==
    ASSUME TypeOK, FramingInv, ClientRead
    PROVE  FramingInv'
<1> DEFINE q == pipe.queue
<1>1. /\ pipe'.queue = Tail(q) /\ pipe'.state = pipe.state
      /\ q \in Seq(Messages) /\ q # << >>
      /\ UNCHANGED <<torn, pcW, cur>>
  BY DEF ClientRead, ReadMsg, TypeOK, FlagsOK, DataOK, Pipes, ClientUnchanged, writerVars
<1>2. /\ Len(Tail(q)) = Len(q) - 1 /\ Len(q) \in Nat
      /\ \A i \in 1 .. Len(q) - 1 : Tail(q)[i] = q[i + 1]
  BY <1>1
<1>3. Framing'
  BY <1>1, <1>2 DEF FramingInv, Framing
<1>4. pipe'.queue # << >> => LastMsg' = LastMsg
  BY <1>1, <1>2 DEF LastMsg
<1>. QED
  BY <1>1, <1>3, <1>4 DEF FramingInv

\* A message written after one it may follow.
Follows(m, n) ==
    /\ n.kind = "data" => m.kind = "info" /\ m.id = n.id /\ m.data
    /\ m.kind = "info" /\ m.data => torn \/ (n.kind = "data" /\ n.id = m.id)

LEMMA AppendFraming ==
    ASSUME TypeOK, Framing, NEW m \in Messages, pipe' = Written(pipe, m), torn' = torn,
           pipe.queue # << >> => Follows(LastMsg, m)
    PROVE  Framing' /\ pipe'.queue # << >> /\ LastMsg' = m /\ pipe'.state = pipe.state
<1> DEFINE q == pipe.queue
<1>1. pipe'.queue = Append(q, m) /\ q \in Seq(Messages) /\ pipe'.state = pipe.state
  BY DEF Written, TypeOK, FlagsOK, DataOK, Pipes
<1>2. /\ Len(Append(q, m)) = Len(q) + 1 /\ Len(q) \in Nat
      /\ \A i \in 1 .. Len(q) : Append(q, m)[i] = q[i]
      /\ Append(q, m)[Len(q) + 1] = m
      /\ Append(q, m) # << >>
  BY <1>1
<1>3. ASSUME NEW i \in 1 .. Len(pipe'.queue) - 1
      PROVE  Follows(pipe'.queue[i], pipe'.queue[i + 1])
  <2>1. CASE i = Len(q)
    BY <1>1, <1>2, <2>1 DEF LastMsg
  <2>2. CASE i # Len(q)
    BY <1>1, <1>2, <2>2 DEF Framing, Follows
  <2>. QED
    BY <2>1, <2>2
<1>4. Framing'
  BY <1>3 DEF Framing, Follows
<1>. QED
  BY <1>1, <1>2, <1>4 DEF LastMsg

\* The info of a sample comes when no writer owes the bytes of another.
LEMMA InfoFraming ==
    ASSUME TypeOK, Control, FramingInv, NEW w \in Writer, WriterInfo(w)
    PROVE  FramingInv'
<1>1. \A v \in Writer : v # w => pcW[v] = "none"
  BY DEF Control, OneWriter, AtMostOneWriter, WriterInfo
<1>2. /\ torn' = torn /\ cur[w] \in Samples /\ Info(cur[w]) \in Messages
      /\ Info(cur[w]).kind = "info" /\ Info(cur[w]).data = cur[w].data
  BY MessageType DEF WriterInfo, WriterUnchanged, TypeOK, FlagsOK, DataOK, Info
<1>3. \A v \in Writer : pcW'[v] = "data" => v = w /\ cur[w].data /\ cur'[w] = cur[w]
  BY <1>1 DEF WriterInfo, Goto, Drop, TypeOK, FlagsOK, DataOK
<1>4. cur[w].data => pcW'[w] = "data"
  BY DEF WriterInfo, Goto, TypeOK, FlagsOK, DataOK
<1>5. CASE WriteFails(pipe) /\ UNCHANGED pipe
  <2>1. pipe'.queue = << >>
    BY <1>5 DEF FramingInv, WriteFails
  <2>. QED
    BY <1>3, <2>1, EmptyFraming
<1>6. CASE WriteRoom(pipe, PipeCapacity) /\ pipe' = Written(pipe, Info(cur[w]))
  <2>1. pipe.queue # << >> => Follows(LastMsg, Info(cur[w]))
    BY <1>1, <1>2 DEF FramingInv, Follows, WriterInfo
  <2>2. Framing' /\ LastMsg' = Info(cur[w]) /\ pipe'.state = "connected"
    BY <1>2, <1>6, <2>1, AppendFraming DEF FramingInv, WriteRoom
  <2>. QED
    BY <1>2, <1>3, <1>4, <2>2 DEF FramingInv, Info
<1>. QED
  BY <1>5, <1>6 DEF WriterInfo

\* The bytes of a sample come after its info.
LEMMA DataFraming ==
    ASSUME TypeOK, Control, FramingInv, NEW w \in Writer, WriterData(w)
    PROVE  FramingInv'
<1>1. \A v \in Writer : v # w => pcW[v] = "none"
  BY DEF Control, OneWriter, AtMostOneWriter, WriterData
<1>2. /\ torn' = torn /\ Data(cur[w]) \in Messages
      /\ Data(cur[w]).kind = "data" /\ Data(cur[w]).id = cur[w].id
  BY MessageType DEF WriterData, WriterUnchanged, TypeOK, FlagsOK, DataOK, Data
<1>3. \A v \in Writer : pcW'[v] # "data"
  BY <1>1 DEF WriterData, Goto, Drop, TypeOK, FlagsOK, DataOK
<1>4. CASE WriteFails(pipe) /\ UNCHANGED pipe
  <2>1. pipe'.queue = << >>
    BY <1>4 DEF FramingInv, WriteFails
  <2>. QED
    BY <1>3, <2>1, EmptyFraming
<1>5. CASE WriteRoom(pipe, PipeCapacity) /\ pipe' = Written(pipe, Data(cur[w]))
  <2>1. pipe.queue # << >> => Follows(LastMsg, Data(cur[w]))
    BY <1>2 DEF FramingInv, Follows, WriterData, Info
  <2>2. Framing' /\ LastMsg' = Data(cur[w]) /\ pipe'.state = "connected"
    BY <1>2, <1>5, <2>1, AppendFraming DEF FramingInv, WriteRoom
  <2>. QED
    BY <1>2, <1>3, <2>2 DEF FramingInv
<1>. QED
  BY <1>4, <1>5 DEF WriterData

LEMMA FramingStep == ASSUME TypeOK, Control, FramingInv, [Next]_vars PROVE FramingInv'
<1>1. CASE App
  <2>1. CASE NotifyAllocator
    <3>1. CASE hPipe = "null"
      BY <2>1, <3>1, PipeValues, EmptyFraming DEF NotifyAllocator, writerVars, FramingInv
    <3>2. CASE hPipe # "null"
      BY <2>1, <3>2, FramingUnchanged DEF NotifyAllocator, writerVars, historyVars
    <3>. QED
      BY <3>1, <3>2
  <2>2. CASE BreakTimeout
    <3>1. UNCHANGED pipe
      BY <2>2 DEF BreakTimeout, FinishBreak
    <3>2. /\ \A w \in Writer : pcW[w] = "data" => w = hThread2
          /\ \A w \in Writer : pcW'[w] # "data"
          /\ (\E w \in Writer : pcW[w] = "data") => torn'
          /\ torn => torn'
      BY <2>2 DEF BreakTimeout, Control, OneWriter, AtMostOneWriter, TypeOK, FlagsOK, DataOK
    <3>. QED
      BY <3>1, <3>2 DEF FramingInv, Framing, LastMsg
  <2>3. CASE App /\ ~NotifyAllocator /\ ~BreakTimeout
    <3>1. UNCHANGED <<pipe, torn, pcW, cur>>
      BY <2>3 DEF App, AcceptConnection, RejectConnection, FilterStart, FilterStop,
         UpstreamStart, UpstreamStop, BeginFlush, EndFlush, Disconnect, BreakWriterGone,
         FinishBreak, Delete, Deleted, vars, writerVars, historyVars
    <3>. QED
      BY <3>1, FramingUnchanged
  <2>. QED
    BY <1>1, <2>1, <2>2, <2>3
<1>2. CASE Stream
  <2>1. CASE EndOfStream
    BY <2>1, FramingUnchanged DEF EndOfStream, writerVars, historyVars
  <2>2. ASSUME NEW b \in BOOLEAN, Enqueue(b), UNCHANGED pipe PROVE FramingInv'
    BY <2>2, FramingUnchanged DEF Enqueue, TypeOK, FlagsOK, DataOK
  <2>. QED
    BY <1>2, <2>1, <2>2 DEF Stream, Receive, ReceiveBadFormat
<1>3. CASE StopServer \/ Server \/ ClientOpen \/ ClientClose
  <2>1. UNCHANGED <<pcW, cur>>
    BY <1>3 DEF StopServer, StopOpen, StopClose, StopServerGone, StopTimeout, StopDisconnect,
       StopCloseHandle, StopDone, StopUnchanged, Server, ServerStart, ServerLoop,
       ServerConnect, ServerAccepted, ServerAfter, ServerUnchanged, ClientOpen,
       ClientClose, ClientUnchanged, writerVars
  <2>2. (UNCHANGED <<pipe, torn>>) \/ pipe'.queue = << >>
    BY <1>3, PipeValues DEF StopServer, StopOpen, StopClose, StopServerGone, StopTimeout,
       StopDisconnect, StopCloseHandle, StopDone, Server, ServerStart, ServerLoop,
       ServerConnect, ServerAccepted, ServerAfter, ServerUnchanged, historyVars, ClientOpen,
       ClientClose, Clients
  <2>. QED
    BY <2>1, <2>2, FramingUnchanged, EmptyFraming DEF FramingInv
<1>4. CASE ClientRead
  BY <1>4, ReadFraming
<1>5. ASSUME NEW w \in Writer, WriterStep(w) PROVE FramingInv'
  <2>1. CASE WriterInfo(w)
    BY <2>1, InfoFraming
  <2>2. CASE WriterData(w)
    BY <2>2, DataFraming
  <2>3. CASE WriterCheck(w) \/ WriterTake(w) \/ WriterTest(w)
    BY <2>3, FramingUnchanged DEF WriterCheck, WriterTake, WriterTest, WriterUnchanged, Goto,
       Drop, TypeOK, FlagsOK, DataOK
  <2>. QED
    BY <1>5, <2>1, <2>2, <2>3 DEF WriterStep
<1>6. CASE UNCHANGED vars
  BY <1>6, FramingUnchanged DEF vars, writerVars, historyVars
<1>. QED
  BY <1>1, <1>2, <1>3, <1>4, <1>5, <1>6 DEF Next, Client

-----------------------------------------------------------------------------
\* The invariant, and what follows from it.

LEMMA InitInv == Init => IInv
<1> SUFFICES ASSUME Init PROVE IInv
  OBVIOUS
<1>1. pipe \in Pipes(Messages) /\ pipe.queue = << >> /\ Len(pipe.queue) = 0
  BY PipeValues, NoMessages DEF Init
<1>2. TypeOK
  <2>1. /\ buffer \in Seq(Samples) /\ sent \in Seq(Nat) /\ nextId \in Nat
        /\ pcW \in [Writer -> {"none", "check", "take", "test", "info", "data"}]
        /\ cur \in [Writer -> Samples]
    BY NoSampleType DEF Init
  <2>2. Len(pipe.queue) <= PipeCapacity
    BY <1>1, BoundsAssumption
  <2>. QED
    BY <1>1, <2>1, <2>2 DEF Init, TypeOK, FlagsOK, DataOK
<1>3. Lifecycle /\ OneWriter /\ StopInv
  BY DEF Init, Lifecycle, OneWriter, AtMostOneWriter, StopInv, ServerOwnsPipe
<1>4. OrderInv
  BY DEF Init, OrderInv, QueueOrder, SentOrder, HeldOrder, Holding
<1>5. FramingInv
  BY <1>1 DEF Init, FramingInv, Framing
<1>. QED
  BY <1>2, <1>3, <1>4, <1>5 DEF IInv

LEMMA InvStep == IInv /\ [Next]_vars => IInv'
  BY Typing, ControlStep, OrderStep, FramingStep DEF IInv, Control

\* The invariant holds of every behaviour, whatever the number of writers, of
\* samples and of messages the pipe holds.
THEOREM Invariance == Spec => []IInv
  BY InitInv, InvStep, PTL DEF Spec

\* Every variable keeps its type, and no pipe holds more than it has room for.
THEOREM TypeCorrect == Spec => []TypeOK
<1>1. IInv => TypeOK
  BY DEF IInv
<1>. QED
  BY <1>1, Invariance, PTL

\* There is never a second writer thread, although Receive and BreakConnect
\* decide whether there is one from a flag and a handle.
THEOREM SingleWriter == Spec => []AtMostOneWriter
<1>1. IInv => AtMostOneWriter
  BY DEF IInv, OneWriter
<1>. QED
  BY <1>1, Invariance, PTL

\* The server thread never uses a handle StopServer has closed.
THEOREM PipeOwned == Spec => []ServerOwnsPipe
<1>1. IInv => ServerOwnsPipe
  BY DEF IInv, StopInv
<1>. QED
  BY <1>1, Invariance, PTL

\* A client finds the bytes of a sample after its own info, unless a writer was
\* terminated between the two.
THEOREM WellFramed == Spec => []Framing
<1>1. IInv => Framing
  BY DEF IInv, FramingInv
<1>. QED
  BY <1>1, Invariance, PTL

\* A deleted pin has no threads.
THEOREM CleanDelete == Spec => []NoThreadAfterDelete
<1>1. IInv => NoThreadAfterDelete
  BY DEF IInv, Lifecycle, OneWriter, StopInv, ServerOwnsPipe, NoThreadAfterDelete
<1>. QED
  BY <1>1, Invariance, PTL

\* The pin implements the lossy channel: Receive accepts a sample, the
\* WriteFile of its info transmits it, everything else is a stuttering step.
THEOREM Refinement == Spec => InOrder
<1>1. Init => Channel!Init
  BY DEF Init, Channel!Init
<1>2. IInv /\ [Next]_vars => [Channel!Next]_(Channel!vars)
  <2> SUFFICES ASSUME IInv, [Next]_vars PROVE [Channel!Next]_(Channel!vars)
    OBVIOUS
  <2> USE DEF Channel!Next, Channel!vars
  <2>1. ASSUME NEW b \in BOOLEAN, Enqueue(b) PROVE Channel!Accept
    BY <2>1 DEF Enqueue, Channel!Accept
  <2>2. ASSUME NEW w \in Writer, WriterInfo(w) PROVE Channel!Transmit \/ UNCHANGED Channel!vars
    BY <2>2, InfoOrder DEF IInv, Control, WriterInfo, WriterUnchanged, Channel!Transmit
  <2>3. CASE Stream
    BY <2>1, <2>3 DEF Stream, Receive, ReceiveBadFormat, EndOfStream, historyVars
  <2>4. ASSUME NEW w \in Writer, WriterStep(w) PROVE [Channel!Next]_(Channel!vars)
    BY <2>2, <2>4 DEF WriterStep, WriterCheck, WriterTake, WriterTest, WriterData,
       WriterUnchanged
  <2>5. CASE App \/ StopServer \/ Server \/ Client \/ UNCHANGED vars
    <3>1. UNCHANGED <<nextId, sent>>
      BY <2>5 DEF App, AcceptConnection, RejectConnection, NotifyAllocator, FilterStart,
         FilterStop, UpstreamStart, UpstreamStop, BeginFlush, EndFlush, Disconnect,
         BreakWriterGone, BreakTimeout, FinishBreak, Delete, Deleted, vars, historyVars,
         StopServer, StopOpen, StopClose, StopServerGone, StopTimeout, StopDisconnect,
         StopCloseHandle, StopDone, StopUnchanged, Server, ServerStart, ServerLoop,
         ServerConnect, ServerAccepted, ServerAfter, ServerUnchanged, Client, ClientOpen,
         ClientRead, ClientClose, ClientUnchanged
    <3>. QED
      BY <3>1
  <2>. QED
    BY <2>3, <2>4, <2>5 DEF Next
<1>. QED
  BY <1>1, <1>2, Invariance, PTL DEF Spec, InOrder, Channel!Spec
=============================================================================
