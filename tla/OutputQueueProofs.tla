-------------------------- MODULE OutputQueueProofs --------------------------
(***************************************************************************)
(* The output queue loses no sample and sends them in order (outputq.cpp): *)
(* the lists a sample moves between are told apart (Accounted), and every  *)
(* list is newer than the one before it (Order), whoever holds the lock.   *)
(* The theorems hold of every queue: its batch size, whether batches are   *)
(* exact, whether it has a thread, and for any number of samples, flushes, *)
(* resets and errors.                                                      *)
(***************************************************************************)
EXTENDS OutputQueue, TLAPS

-----------------------------------------------------------------------------
\* Lists of packets and the samples in them.

\* A list of samples holds nothing else.
LEMMA OnlySamples ==
    ASSUME NEW q \in Seq(Nat \ {0})
    PROVE  q \in Seq(Packets) /\ SamplesIn(q) = ToSet(q) /\ ToSet(q) \subseteq Nat \ {0}
<1>1. q \in Seq(Packets)
  BY DEF Packets
<1>2. \A p \in ToSet(q) : p \in Nat \ {0} /\ ~IsSpecialSample(p)
  BY DEF ToSet, IsSpecialSample
<1>. QED
  BY <1>1, <1>2 DEF SamplesIn

\* The samples on a list are numbers.
LEMMA SampleNumbers ==
    ASSUME NEW q \in Seq(Packets)
    PROVE  SamplesIn(q) \subseteq Nat \ {0}
<1> SUFFICES ASSUME NEW p \in SamplesIn(q) PROVE p \in Nat \ {0}
  OBVIOUS
<1>1. p \in Packets /\ ~IsSpecialSample(p)
  BY DEF SamplesIn, ToSet
<1>. QED
  BY <1>1 DEF Packets, IsSpecialSample, SEND_PACKET, EOS_PACKET, RESET_PACKET, NEW_SEGMENT

\* The empty list is a list of anything and holds no sample.
LEMMA EmptyList ==
    /\ << >> \in Seq(Packets) /\ << >> \in Seq(Nat \ {0}) /\ Len(<< >>) = 0
    /\ SamplesIn(<< >>) = {} /\ ToSet(<< >>) = {} /\ Ascending(<< >>)
  BY DEF SamplesIn, ToSet, Ascending

\* What is added to a list, newer than what it holds.
LEMMA AppendList ==
    ASSUME NEW q \in Seq(Packets), NEW p \in Packets
    PROVE  /\ Append(q, p) \in Seq(Packets)
           /\ ToSet(Append(q, p)) = ToSet(q) \cup {p}
           /\ Ascending(q) /\ (~IsSpecialSample(p) => Before(SamplesIn(q), {p})) =>
                  Ascending(Append(q, p))
<1>1. /\ Append(q, p) \in Seq(Packets) /\ Len(Append(q, p)) = Len(q) + 1 /\ Len(q) \in Nat
      /\ DOMAIN q = 1..Len(q) /\ DOMAIN Append(q, p) = 1..Len(q) + 1
      /\ Append(q, p)[Len(q) + 1] = p
      /\ \A k \in DOMAIN q : Append(q, p)[k] = q[k]
  OBVIOUS
<1>2. ToSet(Append(q, p)) = ToSet(q) \cup {p}
  BY <1>1 DEF ToSet
<1>3. ASSUME Ascending(q), ~IsSpecialSample(p) => Before(SamplesIn(q), {p}),
             NEW a \in DOMAIN Append(q, p), NEW b \in DOMAIN Append(q, p), a < b,
             ~IsSpecialSample(Append(q, p)[a]), ~IsSpecialSample(Append(q, p)[b])
      PROVE  Append(q, p)[a] < Append(q, p)[b]
  <2>1. a \in DOMAIN q /\ Append(q, p)[a] = q[a]
    BY <1>1, <1>3
  <2>2. CASE b \in DOMAIN q
    BY <1>1, <1>3, <2>1, <2>2 DEF Ascending
  <2>3. CASE b = Len(q) + 1
    <3>1. q[a] \in SamplesIn(q) /\ Append(q, p)[b] = p
      BY <1>1, <1>3, <2>1, <2>3 DEF SamplesIn, ToSet
    <3>. QED
      BY <1>3, <2>1, <3>1 DEF Before
  <2>. QED
    BY <1>1, <2>2, <2>3
<1>. QED
  BY <1>1, <1>2, <1>3 DEF Ascending

\* A packet that is posted: only a sample adds to the samples.
LEMMA Posted ==
    ASSUME NEW q \in Seq(Packets), NEW p \in Packets
    PROVE  /\ q \o <<p>> = Append(q, p)
           /\ SamplesIn(Append(q, p)) = SamplesIn(q) \cup (IF IsSpecialSample(p) THEN {} ELSE {p})
<1>1. q \o <<p>> = Append(q, p)
  OBVIOUS
<1>2. ToSet(Append(q, p)) = ToSet(q) \cup {p}
  BY AppendList
<1>. QED
  BY <1>1, <1>2 DEF SamplesIn

\* What is left when the oldest packet is taken, all newer than it.
LEMMA TakeList ==
    ASSUME NEW q \in Seq(Packets), q # << >>
    PROVE  /\ Head(q) \in Packets /\ Tail(q) \in Seq(Packets)
           /\ SamplesIn(q) = SamplesIn(Tail(q)) \cup
                                 (IF IsSpecialSample(Head(q)) THEN {} ELSE {Head(q)})
           /\ Ascending(q) => /\ Ascending(Tail(q))
                              /\ ~IsSpecialSample(Head(q)) =>
                                     Before({Head(q)}, SamplesIn(Tail(q)))
<1>1. /\ Head(q) = q[1] /\ Head(q) \in Packets /\ Tail(q) \in Seq(Packets)
      /\ 1 \in DOMAIN q
      /\ \A k \in DOMAIN Tail(q) : k \in Nat \ {0} /\ k + 1 \in DOMAIN q /\ Tail(q)[k] = q[k + 1]
      /\ \A k \in DOMAIN q : k = 1 \/ (k - 1 \in DOMAIN Tail(q) /\ q[k] = Tail(q)[k - 1])
  OBVIOUS
<1>2. ToSet(q) = ToSet(Tail(q)) \cup {Head(q)}
  <2>1. ASSUME NEW k \in DOMAIN q PROVE q[k] \in ToSet(Tail(q)) \cup {Head(q)}
    BY <1>1 DEF ToSet
  <2>2. ASSUME NEW k \in DOMAIN Tail(q) PROVE Tail(q)[k] \in ToSet(q)
    BY <1>1 DEF ToSet
  <2>3. Head(q) \in ToSet(q)
    BY <1>1 DEF ToSet
  <2>. QED
    BY <2>1, <2>2, <2>3 DEF ToSet
<1>3. \A a, b \in DOMAIN Tail(q) : a < b => a + 1 < b + 1
  BY <1>1
<1>4. Ascending(q) => Ascending(Tail(q))
  BY <1>1, <1>3 DEF Ascending
<1>5. ASSUME Ascending(q), ~IsSpecialSample(Head(q)), NEW n \in SamplesIn(Tail(q))
      PROVE  Head(q) < n
  <2>1. PICK k \in DOMAIN Tail(q) : n = Tail(q)[k]
    BY DEF SamplesIn, ToSet
  <2>2. 1 < k + 1 /\ k + 1 \in DOMAIN q /\ n = q[k + 1] /\ ~IsSpecialSample(n)
    BY <1>1, <1>5, <2>1 DEF SamplesIn
  <2>. QED
    BY <1>1, <1>5, <2>2 DEF Ascending
<1>. QED
  BY <1>1, <1>2, <1>4, <1>5 DEF SamplesIn, Before

\* The last sample of a batch is its newest.
LEMMA LastOfBatch ==
    ASSUME NEW q \in Seq(Nat \ {0}), q # << >>
    PROVE  Last(q) \in ToSet(q)
<1>1. Len(q) \in DOMAIN q
  OBVIOUS
<1>. QED
  BY <1>1 DEF Last, ToSet

-----------------------------------------------------------------------------
\* Who holds samples when.

\* Every step keeps the batch where its holder is: with the thread between its
\* dispatch and the return of the call, with the streaming thread while it sends.
LEMMA PlacesStep ==
    ASSUME Places, [Next]_vars
    PROVE  Places'
<1>0. queue' = queue
  BY DEF Next, vars
<1>1. CASE Receive
  BY <1>0, <1>1 DEF Receive, CanStream, NotifyThread, Places, Queued, queueVars, waitVars,
     stateVars, threadVars, streamVars, appVars
<1>2. CASE SendAnyway
  BY <1>0, <1>2 DEF SendAnyway, CanStream, Post, NotifyThread, PostUnchanged, Places, Queued,
     queueVars, waitVars, stateVars, threadVars, streamVars, appVars
<1>3. CASE NewSegment
  BY <1>0, <1>3 DEF NewSegment, CanStream, Post, NotifyThread, PostUnchanged, Places, Queued,
     queueVars, waitVars, stateVars, threadVars, streamVars, appVars
<1>4. CASE EOS
  BY <1>0, <1>4 DEF EOS, CanStream, Post, NotifyThread, PostUnchanged, Places, Queued,
         queueVars,
     waitVars, stateVars, threadVars, streamVars, appVars
<1>5. CASE Reset
  BY <1>0, <1>5 DEF Reset, CanStream, Post, NotifyThread, PostUnchanged, Places, Queued,
     queueVars, waitVars, stateVars, threadVars, streamVars, appVars
<1>6. CASE ResetWait
  BY <1>0, <1>6 DEF ResetWait, Places, Queued, queueVars, waitVars, stateVars, threadVars,
     streamVars, appVars
<1>7. CASE ReceiveDirect
  BY <1>0, <1>7 DEF ReceiveDirect, CanStream, SendBatch, DirectUnchanged, Places, Queued,
     queueVars, waitVars, stateVars, threadVars, streamVars, appVars
<1>8. CASE DirectReturns
  BY <1>0, <1>8 DEF DirectReturns, DirectUnchanged, Places, Queued, queueVars, waitVars,
     stateVars, threadVars, streamVars, appVars
<1>9. CASE ResetDirect
  BY <1>0, <1>9 DEF ResetDirect, Places, Queued, queueVars, waitVars, stateVars, threadVars,
     streamVars, appVars
<1>10. CASE \E p \in {SEND_PACKET, EOS_PACKET, NEW_SEGMENT} : SendDirect(p)
  BY <1>0, <1>10 DEF SendDirect, CanStream, SendBatch, DirectUnchanged, Places, Queued,
     queueVars, waitVars, stateVars, threadVars, streamVars, appVars
<1>11. CASE ThreadLock
  BY <1>0, <1>11 DEF ThreadLock, Places, Queued, queueVars, waitVars, stateVars, threadVars,
     streamVars, appVars
<1>12. CASE ThreadTerminate
  BY <1>0, <1>12 DEF ThreadTerminate, FreeSamples, Places, Queued, queueVars, waitVars,
     stateVars, threadVars, streamVars, appVars
<1>13. CASE ThreadFlush
  BY <1>0, <1>13 DEF ThreadFlush, FreeSamples, Places, Queued, queueVars, waitVars, stateVars,
     threadVars, streamVars, appVars
<1>14. CASE TakeSample
  BY <1>0, <1>14 DEF TakeSample, CanTake, Dispatch, Places, Queued, queueVars, waitVars,
     stateVars, threadVars, streamVars, appVars
<1>15. CASE TakeSpecial
  BY <1>0, <1>15 DEF TakeSpecial, CanTake, Dispatch, Places, Queued, queueVars, waitVars,
     stateVars, threadVars, streamVars, appVars
<1>16. CASE TakeNothing
  BY <1>0, <1>16 DEF TakeNothing, CanTake, Dispatch, Places, Queued, queueVars, waitVars,
     stateVars, threadVars, streamVars, appVars
<1>17. CASE ThreadWait
  BY <1>0, <1>17 DEF ThreadWait, Places, Queued, queueVars, waitVars, stateVars, threadVars,
     streamVars, appVars
<1>18. CASE ThreadSend
  BY <1>0, <1>18 DEF ThreadSend, Places, Queued, queueVars, waitVars, stateVars, threadVars,
     streamVars, appVars
<1>19. CASE ThreadReceived
  BY <1>0, <1>19 DEF ThreadReceived, Places, Queued, queueVars, waitVars, stateVars, threadVars,
     streamVars, appVars
<1>20. CASE ThreadPacket
  BY <1>0, <1>20 DEF ThreadPacket, Places, Queued, queueVars, waitVars, stateVars, threadVars,
     streamVars, appVars
<1>21. CASE BeginFlush
  BY <1>0, <1>21 DEF BeginFlush, FlushUnchanged, Places, Queued, queueVars, waitVars, stateVars,
     threadVars, streamVars, appVars
<1>22. CASE BeginFlushDirect
  BY <1>0, <1>22 DEF BeginFlushDirect, FlushUnchanged, Places, Queued, queueVars, waitVars,
     stateVars, threadVars, streamVars, appVars
<1>23. CASE BeginFlushLock
  BY <1>0, <1>23 DEF BeginFlushLock, FlushUnchanged, Places, Queued, queueVars, waitVars,
     stateVars, threadVars, streamVars, appVars
<1>24. CASE BeginFlushDown
  BY <1>0, <1>24 DEF BeginFlushDown, FlushUnchanged, Places, Queued, queueVars, waitVars,
     stateVars, threadVars, streamVars, appVars
<1>25. CASE EndFlush
  BY <1>0, <1>25 DEF EndFlush, FlushUnchanged, Places, Queued, queueVars, waitVars, stateVars,
     threadVars, streamVars, appVars
<1>26. CASE EndFlushWait
  BY <1>0, <1>26 DEF EndFlushWait, FlushUnchanged, Places, Queued, queueVars, waitVars,
     stateVars, threadVars, streamVars, appVars
<1>27. CASE EndFlushFree
  BY <1>0, <1>27 DEF EndFlushFree, FreeSamples, Places, Queued, queueVars, waitVars, stateVars,
     threadVars, streamVars, appVars
<1>28. CASE EndFlushClear
  BY <1>0, <1>28 DEF EndFlushClear, FlushUnchanged, Places, Queued, queueVars, waitVars,
     stateVars, threadVars, streamVars, appVars
<1>29. CASE EndFlushDown
  BY <1>0, <1>29 DEF EndFlushDown, Places, Queued, queueVars, waitVars, stateVars, threadVars,
     streamVars, appVars
<1>30. CASE EndFlushDone
  BY <1>0, <1>30 DEF EndFlushDone, FlushUnchanged, Places, Queued, queueVars, waitVars,
     stateVars, threadVars, streamVars, appVars
<1>31. CASE Join
  BY <1>0, <1>31 DEF Join, Places, Queued, queueVars, waitVars, stateVars, threadVars,
     streamVars, appVars
<1>32. CASE Delete
  BY <1>0, <1>32 DEF Delete, FreeSamples, NotifyThread, Places, Queued, queueVars, waitVars,
     stateVars, threadVars, streamVars, appVars
<1>33. CASE UNCHANGED vars
  BY <1>0, <1>33 DEF vars, Places, Queued, queueVars, waitVars, stateVars, threadVars,
     streamVars, appVars
<1>. QED
  BY <1>0, <1>1, <1>2, <1>3, <1>4, <1>5, <1>6, <1>7, <1>8, <1>9, <1>10, <1>11, <1>12, <1>13,
     <1>14, <1>15, <1>16, <1>17, <1>18, <1>19, <1>20, <1>21, <1>22, <1>23, <1>24, <1>25,
     <1>26, <1>27, <1>28, <1>29, <1>30, <1>31, <1>32, <1>33
  DEF Next, Step, Stream, Thread, Flush

\* The other steps leave every sample where it is.
Moves == \/ Receive \/ SendAnyway \/ NewSegment \/ EOS \/ Reset \/ ReceiveDirect
         \/ DirectReturns \/ \E p \in {SEND_PACKET, EOS_PACKET, NEW_SEGMENT} : SendDirect(p)
         \/ ThreadTerminate \/ ThreadFlush \/ TakeSample \/ TakeSpecial \/ TakeNothing
         \/ ThreadSend \/ ThreadReceived \/ EndFlushFree \/ Delete

\* A step that is none of these moves no sample, and begins no call downstream.
LEMMA StillStep ==
    ASSUME [Next]_vars, ~Moves
    PROVE  /\ UNCHANGED <<queueVars, received>>
           /\ pcThread = "receive" => pcThread' = "receive"
           /\ pcStream = "direct" => pcStream' = "direct"
<1>1. CASE ResetWait
  BY <1>1 DEF ResetWait, queueVars, streamVars, threadVars
<1>2. CASE ResetDirect
  BY <1>2 DEF ResetDirect, queueVars, streamVars, threadVars
<1>3. CASE ThreadLock
  BY <1>3 DEF ThreadLock, queueVars, streamVars, threadVars
<1>4. CASE ThreadWait
  BY <1>4 DEF ThreadWait, queueVars, streamVars, threadVars
<1>5. CASE ThreadPacket
  BY <1>5 DEF ThreadPacket, queueVars, streamVars, threadVars
<1>6. CASE BeginFlush
  BY <1>6 DEF BeginFlush, FlushUnchanged, queueVars, streamVars, threadVars
<1>7. CASE BeginFlushDirect
  BY <1>7 DEF BeginFlushDirect, FlushUnchanged, queueVars, streamVars, threadVars
<1>8. CASE BeginFlushLock
  BY <1>8 DEF BeginFlushLock, FlushUnchanged, queueVars, streamVars, threadVars
<1>9. CASE BeginFlushDown
  BY <1>9 DEF BeginFlushDown, FlushUnchanged, queueVars, streamVars, threadVars
<1>10. CASE EndFlush
  BY <1>10 DEF EndFlush, FlushUnchanged, queueVars, streamVars, threadVars
<1>11. CASE EndFlushWait
  BY <1>11 DEF EndFlushWait, FlushUnchanged, queueVars, streamVars, threadVars
<1>12. CASE EndFlushClear
  BY <1>12 DEF EndFlushClear, FlushUnchanged, queueVars, streamVars, threadVars
<1>13. CASE EndFlushDown
  BY <1>13 DEF EndFlushDown, queueVars, streamVars, threadVars
<1>14. CASE EndFlushDone
  BY <1>14 DEF EndFlushDone, FlushUnchanged, queueVars, streamVars, threadVars
<1>15. CASE Join
  BY <1>15 DEF Join, queueVars, streamVars, threadVars
<1>16. CASE UNCHANGED vars
  BY <1>16 DEF vars, queueVars, streamVars, threadVars
<1>. QED
  BY <1>1, <1>2, <1>3, <1>4, <1>5, <1>6, <1>7, <1>8, <1>9, <1>10, <1>11, <1>12, <1>13,
     <1>14, <1>15, <1>16
  DEF Next, Step, Stream, Thread, Flush, Moves

\* What the thread takes is the head of the list.
LEMMA TakenSample ==
    ASSUME Taken \in Samples
    PROVE  m_List # << >> /\ Taken = Head(m_List) /\ Taken \in Nat \ {0}
<1>1. PICK c \in Configurations : Taken \in 1..c.samples /\ c.samples \in Nat
  BY ConfigurationsAssumption DEF Samples, Queues
<1>2. Taken # NULL
  BY <1>1 DEF NULL
<1>. QED
  BY <1>1, <1>2 DEF Taken

\* A special packet that is taken was the head of the list.
LEMMA TakenSpecial ==
    ASSUME IsSpecialSample(Taken)
    PROVE  m_List # << >> /\ Taken = Head(m_List)
<1>1. ~IsSpecialSample(NULL)
  BY DEF IsSpecialSample, NULL
<1>. QED
  BY <1>1 DEF Taken

\* Every step keeps the lists lists: samples are numbers that were received, and
\* only m_List holds packets.
LEMMA TypeStep ==
    ASSUME TypeOK, Accounted, [Next]_vars
    PROVE  TypeOK'
<1>0. queue' = queue
  BY DEF Next, vars
<1>1. CASE Receive
  <2>1. /\ received' = received + 1 /\ received' \in Packets /\ lastSent' = lastSent
        /\ m_List' = m_List \/ m_List' = Append(m_List, received')
        /\ UNCHANGED <<m_ppSamples, sending>>
    BY <1>1 DEF Receive, TypeOK, Packets
  <2>2. m_List' \in Seq(Packets)
    BY <2>1, AppendList DEF TypeOK
  <2>3. received' \in Nat /\ lastSent' \in 0..received'
    BY <2>1 DEF TypeOK
  <2>. QED
    BY <1>0, <2>1, <2>2, <2>3 DEF TypeOK
<1>2. CASE SendAnyway
  <2>1. /\ m_List' = Append(m_List, SEND_PACKET) /\ SEND_PACKET \in Packets
        /\ UNCHANGED <<m_ppSamples, sending, released, received, lastSent>>
    BY <1>2, Posted DEF SendAnyway, Post, PostUnchanged, TypeOK, Packets
  <2>. QED
    BY <1>0, <2>1, AppendList DEF TypeOK
<1>3. CASE NewSegment
  <2>1. /\ m_List' = Append(m_List, NEW_SEGMENT) /\ NEW_SEGMENT \in Packets
        /\ UNCHANGED <<m_ppSamples, sending, released, received, lastSent>>
    BY <1>3, Posted DEF NewSegment, Post, PostUnchanged, TypeOK, Packets
  <2>. QED
    BY <1>0, <2>1, AppendList DEF TypeOK
<1>4. CASE EOS
  <2>1. /\ m_List' = Append(m_List, EOS_PACKET) /\ EOS_PACKET \in Packets
        /\ UNCHANGED <<m_ppSamples, sending, released, received, lastSent>>
    BY <1>4, Posted DEF EOS, Post, PostUnchanged, TypeOK, Packets
  <2>. QED
    BY <1>0, <2>1, AppendList DEF TypeOK
<1>5. CASE Reset
  <2>1. /\ m_List' = Append(m_List, RESET_PACKET) /\ RESET_PACKET \in Packets
        /\ UNCHANGED <<m_ppSamples, sending, released, received, lastSent>>
    BY <1>5, Posted DEF Reset, Post, PostUnchanged, TypeOK, Packets
  <2>. QED
    BY <1>0, <2>1, AppendList DEF TypeOK
<1>6. CASE ReceiveDirect
  <2>1. received' = received + 1 /\ received' \in Nat \ {0}
    BY <1>6 DEF ReceiveDirect, TypeOK
  <2>2. /\ UNCHANGED <<m_List, sending>>
        /\ \/ m_ppSamples' = m_ppSamples /\ lastSent' = lastSent
           \/ /\ m_ppSamples' = Append(m_ppSamples, received')
              /\ lastSent' = lastSent \/ lastSent' = Last(Append(m_ppSamples, received'))
    BY <1>6 DEF ReceiveDirect, SendBatch, DirectUnchanged
  <2>3. Last(Append(m_ppSamples, received')) = received'
    BY <2>1 DEF Last, TypeOK
  <2>4. m_ppSamples' \in Seq(Nat \ {0})
    <3>1. m_ppSamples \in Seq(Nat \ {0})
      BY DEF TypeOK
    <3>. QED
      BY SMTT(40), <2>1, <2>2, <3>1
  <2>5. lastSent' \in 0..received'
    BY <2>1, <2>2, <2>3 DEF TypeOK
  <2>. QED
    BY <1>0, <2>1, <2>2, <2>4, <2>5 DEF TypeOK
<1>7. CASE DirectReturns
  <2>1. UNCHANGED <<m_List, sending, received, lastSent>> /\ m_ppSamples' = << >>
    BY <1>7 DEF DirectReturns, DirectUnchanged
  <2>. QED
    BY <1>0, <2>1, EmptyList DEF TypeOK
<1>8. CASE \E p \in {SEND_PACKET, EOS_PACKET, NEW_SEGMENT} : SendDirect(p)
  <2>1. /\ UNCHANGED <<m_List, m_ppSamples, sending, received>>
        /\ lastSent' = Last(m_ppSamples) /\ m_ppSamples # << >>
    BY <1>8 DEF SendDirect, SendBatch, DirectUnchanged
  <2>2. lastSent' \in ToSet(m_ppSamples)
    BY <2>1, LastOfBatch DEF TypeOK
  <2>3. lastSent' \in 0..received
    BY <2>2 DEF Accounted
  <2>. QED
    BY <1>0, <2>1, <2>3 DEF TypeOK
<1>9. CASE ThreadTerminate
  <2>1. /\ UNCHANGED <<sending, received, lastSent>>
        /\ m_List' \in {m_List, << >>} /\ m_ppSamples' \in {m_ppSamples, << >>}
    BY <1>9 DEF ThreadTerminate, FreeSamples, streamVars
  <2>. QED
    BY <1>0, <2>1, EmptyList DEF TypeOK
<1>10. CASE ThreadFlush
  <2>1. /\ UNCHANGED <<sending, received, lastSent>>
        /\ m_List' \in {m_List, << >>} /\ m_ppSamples' \in {m_ppSamples, << >>}
    BY <1>10 DEF ThreadFlush, FreeSamples, streamVars
  <2>. QED
    BY <1>0, <2>1, EmptyList DEF TypeOK
<1>11. CASE TakeSample
  <2>1. m_List # << >> /\ Taken = Head(m_List) /\ Taken \in Nat \ {0}
    BY <1>11, TakenSample DEF TakeSample
  <2>2. /\ m_List' = Tail(m_List) /\ UNCHANGED <<received, lastSent>>
        /\ \/ m_ppSamples' = Append(m_ppSamples, Taken) /\ sending' = sending
           \/ m_ppSamples' = << >> /\ sending' = Append(m_ppSamples, Taken)
    BY <1>11 DEF TakeSample, Dispatch, streamVars
  <2>3. Append(m_ppSamples, Taken) \in Seq(Nat \ {0})
    BY <2>1 DEF TypeOK
  <2>. QED
    BY <1>0, <2>1, <2>2, <2>3, TakeList, EmptyList DEF TypeOK
<1>12. CASE TakeSpecial
  <2>1. m_List # << >>
    BY <1>12, TakenSpecial DEF TakeSpecial
  <2>2. /\ m_List' = Tail(m_List) /\ UNCHANGED <<received, lastSent>>
        /\ \/ UNCHANGED <<m_ppSamples, sending>>
           \/ m_ppSamples' = << >> /\ sending' = m_ppSamples
    BY <1>12 DEF TakeSpecial, Dispatch, streamVars
  <2>. QED
    BY <1>0, <2>1, <2>2, TakeList, EmptyList DEF TypeOK
<1>13. CASE TakeNothing
  <2>1. /\ UNCHANGED <<m_List, received, lastSent>>
        /\ \/ UNCHANGED <<m_ppSamples, sending>>
           \/ m_ppSamples' = << >> /\ sending' = m_ppSamples
    BY <1>13 DEF TakeNothing, Dispatch, streamVars
  <2>. QED
    BY <1>0, <2>1, EmptyList DEF TypeOK
<1>14. CASE ThreadSend
  <2>1. /\ UNCHANGED <<m_List, m_ppSamples, received>>
        /\ \/ sending' = << >> /\ lastSent' = lastSent
           \/ sending # << >> /\ sending' = sending /\ lastSent' = Last(sending)
    BY <1>14 DEF ThreadSend, streamVars
  <2>2. sending # << >> => Last(sending) \in 0..received
    BY LastOfBatch DEF TypeOK, Accounted
  <2>. QED
    BY <1>0, <2>1, <2>2, EmptyList DEF TypeOK
<1>15. CASE ThreadReceived
  <2>1. UNCHANGED <<m_List, m_ppSamples, received, lastSent>> /\ sending' = << >>
    BY <1>15 DEF ThreadReceived, streamVars
  <2>. QED
    BY <1>0, <2>1, EmptyList DEF TypeOK
<1>16. CASE EndFlushFree
  <2>1. /\ UNCHANGED <<sending, received, lastSent>>
        /\ m_List' \in {m_List, << >>} /\ m_ppSamples' \in {m_ppSamples, << >>}
    BY <1>16 DEF EndFlushFree, FreeSamples, streamVars
  <2>. QED
    BY <1>0, <2>1, EmptyList DEF TypeOK
<1>17. CASE Delete
  <2>1. /\ UNCHANGED <<sending, received, lastSent>>
        /\ m_List' \in {m_List, << >>} /\ m_ppSamples' \in {m_ppSamples, << >>}
    BY <1>17 DEF Delete, FreeSamples, streamVars
  <2>. QED
    BY <1>0, <2>1, EmptyList DEF TypeOK
<1>18. CASE ~Moves
  BY <1>0, <1>18, StillStep DEF TypeOK, queueVars
<1>. QED
  BY <1>1, <1>2, <1>3, <1>4, <1>5, <1>6, <1>7, <1>8, <1>9, <1>10, <1>11, <1>12, <1>13,
     <1>14, <1>15, <1>16, <1>17, <1>18 DEF Moves

-----------------------------------------------------------------------------
\* Every sample is somewhere, and only there.

\* A new number.
LEMMA OneMore ==
    ASSUME TypeOK, received' = received + 1
    PROVE  received' \in Packets /\ ~IsSpecialSample(received') /\ received' \notin 1..received
           /\ 1..received' = 1..received \cup {received'}
  BY DEF TypeOK, Packets, IsSpecialSample

\* The lists as sets.
LEMMA Lists ==
    ASSUME TypeOK
    PROVE  /\ m_List \in Seq(Packets) /\ m_ppSamples \in Seq(Packets) /\ sending \in Seq(Packets)
           /\ SamplesIn(m_ppSamples) = ToSet(m_ppSamples) /\ SamplesIn(sending) = ToSet(sending)
           /\ SamplesIn(m_List) \subseteq Nat /\ ToSet(m_ppSamples) \subseteq Nat
           /\ ToSet(sending) \subseteq Nat
  BY OnlySamples, SampleNumbers DEF TypeOK

\* What is sent is not on the list any more.
LEMMA SentApart ==
    ASSUME TypeOK, Order
    PROVE  (ToSet(m_ppSamples) \cup ToSet(sending)) \cap SamplesIn(m_List) = {}
<1> SUFFICES ASSUME NEW m \in ToSet(m_ppSamples) \cup ToSet(sending), m \in SamplesIn(m_List)
             PROVE  FALSE
  OBVIOUS
<1>1. m < m /\ m \in Nat
  BY Lists DEF Order, Before
<1>. QED
  BY <1>1

\* No step loses a sample, nor releases one that is still held: what leaves a list
\* enters another or is released.
LEMMA AccountedStep ==
    ASSUME TypeOK, Places, Accounted, Order, [Next]_vars
    PROVE  Accounted'
<1>1. CASE Receive
  <2>1. received' = received + 1 /\ UNCHANGED <<m_ppSamples, sending>>
    BY <1>1 DEF Receive
  <2>2. CASE m_List' = m_List /\ released' = released \cup {received'}
    BY <2>1, <2>2, OneMore DEF Accounted
  <2>3. CASE m_List' = Append(m_List, received') /\ released' = released
    <3>1. SamplesIn(m_List') = SamplesIn(m_List) \cup {received'}
      BY <2>1, <2>3, OneMore, Posted DEF TypeOK
    <3>. QED
      BY <2>1, <2>3, <3>1, OneMore DEF Accounted
  <2>. QED
    BY <1>1, <2>2, <2>3 DEF Receive
<1>2. CASE SendAnyway
  <2>1. /\ m_List' = Append(m_List, SEND_PACKET)
        /\ SEND_PACKET \in Packets /\ IsSpecialSample(SEND_PACKET)
        /\ UNCHANGED <<m_ppSamples, sending, released, received>>
    BY <1>2, Posted DEF SendAnyway, Post, PostUnchanged, TypeOK, Packets, IsSpecialSample,
       SEND_PACKET, EOS_PACKET, RESET_PACKET, NEW_SEGMENT
  <2>2. SamplesIn(m_List') = SamplesIn(m_List)
    BY <2>1, Posted DEF TypeOK
  <2>. QED
    BY <2>1, <2>2 DEF Accounted
<1>3. CASE NewSegment
  <2>1. /\ m_List' = Append(m_List, NEW_SEGMENT)
        /\ NEW_SEGMENT \in Packets /\ IsSpecialSample(NEW_SEGMENT)
        /\ UNCHANGED <<m_ppSamples, sending, released, received>>
    BY <1>3, Posted DEF NewSegment, Post, PostUnchanged, TypeOK, Packets, IsSpecialSample,
       SEND_PACKET, EOS_PACKET, RESET_PACKET, NEW_SEGMENT
  <2>2. SamplesIn(m_List') = SamplesIn(m_List)
    BY <2>1, Posted DEF TypeOK
  <2>. QED
    BY <2>1, <2>2 DEF Accounted
<1>4. CASE EOS
  <2>1. /\ m_List' = Append(m_List, EOS_PACKET)
        /\ EOS_PACKET \in Packets /\ IsSpecialSample(EOS_PACKET)
        /\ UNCHANGED <<m_ppSamples, sending, released, received>>
    BY <1>4, Posted DEF EOS, Post, PostUnchanged, TypeOK, Packets, IsSpecialSample,
       SEND_PACKET, EOS_PACKET, RESET_PACKET, NEW_SEGMENT
  <2>2. SamplesIn(m_List') = SamplesIn(m_List)
    BY <2>1, Posted DEF TypeOK
  <2>. QED
    BY <2>1, <2>2 DEF Accounted
<1>5. CASE Reset
  <2>1. /\ m_List' = Append(m_List, RESET_PACKET)
        /\ RESET_PACKET \in Packets /\ IsSpecialSample(RESET_PACKET)
        /\ UNCHANGED <<m_ppSamples, sending, released, received>>
    BY <1>5, Posted DEF Reset, Post, PostUnchanged, TypeOK, Packets, IsSpecialSample,
       SEND_PACKET, EOS_PACKET, RESET_PACKET, NEW_SEGMENT
  <2>2. SamplesIn(m_List') = SamplesIn(m_List)
    BY <2>1, Posted DEF TypeOK
  <2>. QED
    BY <2>1, <2>2 DEF Accounted
<1>6. CASE ReceiveDirect
  <2>1. received' = received + 1 /\ UNCHANGED <<m_List, sending>>
    BY <1>6 DEF ReceiveDirect, DirectUnchanged
  <2>2. CASE m_ppSamples' = m_ppSamples /\ released' = released \cup {received'}
    BY <2>1, <2>2, OneMore DEF Accounted
  <2>3. CASE m_ppSamples' = Append(m_ppSamples, received') /\ released' = released
    <3>1. ToSet(m_ppSamples') = ToSet(m_ppSamples) \cup {received'}
      BY <2>1, <2>3, OneMore, Lists, AppendList
    <3>. QED
      BY <2>1, <2>3, <3>1, OneMore DEF Accounted
  <2>. QED
    BY <1>6, <2>2, <2>3 DEF ReceiveDirect, SendBatch
<1>7. CASE DirectReturns
  <2>1. UNCHANGED <<m_List, sending, received>> /\ m_ppSamples' = << >>
        /\ released' = released \cup ToSet(m_ppSamples)
    BY <1>7 DEF DirectReturns, DirectUnchanged
  <2>2. sending = << >>
    BY <1>7 DEF DirectReturns, Places
  <2>. QED
    BY <2>1, <2>2, EmptyList, SentApart DEF Accounted
<1>8. CASE \E p \in {SEND_PACKET, EOS_PACKET, NEW_SEGMENT} : SendDirect(p)
  BY <1>8 DEF SendDirect, SendBatch, DirectUnchanged, Accounted
<1>9. CASE ThreadTerminate
  <2>1. UNCHANGED <<sending, received>> /\ sending = << >>
    BY <1>9 DEF ThreadTerminate, Places, streamVars
  <2>2. /\ m_List' = << >> /\ m_ppSamples' = << >>
        /\ released' = released \cup SamplesIn(m_List) \cup ToSet(m_ppSamples)
    BY <1>9 DEF ThreadTerminate, FreeSamples
  <2>. QED
    BY <2>1, <2>2, EmptyList DEF Accounted
<1>10. CASE ThreadFlush
  <2>1. UNCHANGED <<sending, received>> /\ sending = << >>
    BY <1>10 DEF ThreadFlush, Places, streamVars
  <2>2. /\ m_List' = << >> /\ m_ppSamples' = << >>
        /\ released' = released \cup SamplesIn(m_List) \cup ToSet(m_ppSamples)
    BY <1>10 DEF ThreadFlush, FreeSamples
  <2>. QED
    BY <2>1, <2>2, EmptyList DEF Accounted
<1>11. CASE TakeSample
  <2>1. /\ m_List # << >> /\ Taken = Head(m_List) /\ Taken \in Nat \ {0}
        /\ Taken \in Packets /\ ~IsSpecialSample(Taken)
    BY <1>11, TakenSample DEF TakeSample, Packets, IsSpecialSample
  <2>2. /\ m_List' = Tail(m_List) /\ UNCHANGED <<received, released>> /\ sending = << >>
        /\ \/ m_ppSamples' = Append(m_ppSamples, Taken) /\ sending' = sending
           \/ m_ppSamples' = << >> /\ sending' = Append(m_ppSamples, Taken)
    BY <1>11 DEF TakeSample, CanTake, Dispatch, streamVars, Places
  <2>3. SamplesIn(m_List) = SamplesIn(m_List') \cup {Taken}
    BY <2>1, <2>2, TakeList DEF TypeOK
  <2>4. ToSet(Append(m_ppSamples, Taken)) = ToSet(m_ppSamples) \cup {Taken}
    BY <2>1, Lists, AppendList
  <2>. QED
    BY <2>2, <2>3, <2>4, EmptyList DEF Accounted
<1>12. CASE TakeSpecial
  <2>1. m_List # << >> /\ Taken = Head(m_List) /\ IsSpecialSample(Taken)
    BY <1>12, TakenSpecial DEF TakeSpecial
  <2>2. /\ m_List' = Tail(m_List) /\ UNCHANGED <<received, released>> /\ sending = << >>
        /\ \/ UNCHANGED <<m_ppSamples, sending>>
           \/ m_ppSamples' = << >> /\ sending' = m_ppSamples
    BY <1>12 DEF TakeSpecial, CanTake, Dispatch, streamVars, Places
  <2>3. SamplesIn(m_List) = SamplesIn(m_List')
    BY <2>1, <2>2, TakeList DEF TypeOK
  <2>. QED
    BY <2>2, <2>3, EmptyList DEF Accounted
<1>13. CASE TakeNothing
  <2>1. /\ UNCHANGED <<m_List, received, released>> /\ sending = << >>
        /\ \/ UNCHANGED <<m_ppSamples, sending>>
           \/ m_ppSamples' = << >> /\ sending' = m_ppSamples
    BY <1>13 DEF TakeNothing, CanTake, Dispatch, streamVars, Places
  <2>. QED
    BY <2>1, EmptyList DEF Accounted
<1>14. CASE ThreadSend
  <2>1. UNCHANGED <<m_List, m_ppSamples, received>> /\ m_ppSamples = << >>
    BY <1>14 DEF ThreadSend, streamVars, Places
  <2>2. CASE UNCHANGED <<sending, released>>
    BY <2>1, <2>2 DEF Accounted
  <2>3. CASE sending' = << >> /\ released' = released \cup ToSet(sending)
    BY <2>1, <2>3, EmptyList, SentApart DEF Accounted
  <2>. QED
    BY <1>14, <2>2, <2>3 DEF ThreadSend
<1>15. CASE ThreadReceived
  <2>1. UNCHANGED <<m_List, m_ppSamples, received>> /\ m_ppSamples = << >>
    BY <1>15 DEF ThreadReceived, streamVars, Places
  <2>2. sending' = << >> /\ released' = released \cup ToSet(sending)
    BY <1>15 DEF ThreadReceived
  <2>. QED
    BY <2>1, <2>2, EmptyList, SentApart DEF Accounted
<1>16. CASE EndFlushFree
  <2>1. UNCHANGED <<sending, received>> /\ sending = << >>
    BY <1>16 DEF EndFlushFree, Places, streamVars
  <2>2. /\ m_List' = << >> /\ m_ppSamples' = << >>
        /\ released' = released \cup SamplesIn(m_List) \cup ToSet(m_ppSamples)
    BY <1>16 DEF EndFlushFree, FreeSamples
  <2>. QED
    BY <2>1, <2>2, EmptyList DEF Accounted
<1>17. CASE Delete
  <2>1. UNCHANGED <<sending, received>>
    BY <1>17 DEF Delete, streamVars
  <2>2. CASE Queued
    BY <1>17, <2>1, <2>2 DEF Delete, Accounted
  <2>3. CASE ~Queued
    <3>1. /\ m_List' = << >> /\ m_ppSamples' = << >>
          /\ released' = released \cup SamplesIn(m_List) \cup ToSet(m_ppSamples)
      BY <1>17, <2>3 DEF Delete, FreeSamples
    <3>2. sending = << >>
      BY <2>3 DEF Places
    <3>. QED
      BY <2>1, <3>1, <3>2, EmptyList DEF Accounted
  <2>. QED
    BY <2>2, <2>3
<1>18. CASE ~Moves
  BY <1>18, StillStep DEF Accounted, queueVars
<1>. QED
  BY <1>1, <1>2, <1>3, <1>4, <1>5, <1>6, <1>7, <1>8, <1>9, <1>10, <1>11, <1>12, <1>13,
     <1>14, <1>15, <1>16, <1>17, <1>18 DEF Moves

-----------------------------------------------------------------------------
\* The order of the samples.

\* A new number is behind all others.
LEMMA Newest ==
    ASSUME TypeOK, Accounted, received' = received + 1
    PROVE  /\ Before(SamplesIn(m_List), {received'}) /\ Before(ToSet(m_ppSamples), {received'})
           /\ Before(ToSet(sending), {received'}) /\ lastSent < received'
<1>1. \A m \in 1..received : m < received'
  BY DEF TypeOK
<1>. QED
  BY <1>1 DEF Accounted, Before, TypeOK

\* No step puts a sample before an older one: what came later stays behind the
\* batch, and the batch behind what was sent last.
LEMMA OrderStep ==
    ASSUME TypeOK, Places, Accounted, Order, [Next]_vars
    PROVE  Order'
<1>1. CASE Receive
  <2>1. /\ received' = received + 1
        /\ UNCHANGED <<m_ppSamples, sending, lastSent, pcThread, pcStream>>
    BY <1>1 DEF Receive, threadVars
  <2>2. CASE m_List' = m_List
    BY <2>1, <2>2 DEF Order
  <2>3. CASE m_List' = Append(m_List, received')
    <3>1. SamplesIn(m_List') = SamplesIn(m_List) \cup {received'}
      BY <2>1, <2>3, OneMore, Posted DEF TypeOK
    <3>2. Ascending(m_List')
      BY <2>1, <2>3, OneMore, Newest, AppendList DEF TypeOK, Order
    <3>. QED
      BY <2>1, <3>1, <3>2, Newest DEF Order, Before
  <2>. QED
    BY <1>1, <2>2, <2>3 DEF Receive
<1>2. CASE SendAnyway
  <2>1. /\ m_List' = Append(m_List, SEND_PACKET)
        /\ SEND_PACKET \in Packets /\ IsSpecialSample(SEND_PACKET)
        /\ UNCHANGED <<m_ppSamples, sending, lastSent, pcThread>>
        /\ pcStream = "direct" => pcStream' = "direct"
    BY <1>2, Posted DEF SendAnyway, CanStream, Post, PostUnchanged, threadVars, TypeOK, Packets,
       IsSpecialSample, SEND_PACKET, EOS_PACKET, RESET_PACKET, NEW_SEGMENT
  <2>2. SamplesIn(m_List') = SamplesIn(m_List)
    BY <2>1, Posted DEF TypeOK
  <2>3. Ascending(m_List')
    BY <2>1, AppendList DEF TypeOK, Order
  <2>. QED
    BY <2>1, <2>2, <2>3 DEF Order
<1>3. CASE NewSegment
  <2>1. /\ m_List' = Append(m_List, NEW_SEGMENT)
        /\ NEW_SEGMENT \in Packets /\ IsSpecialSample(NEW_SEGMENT)
        /\ UNCHANGED <<m_ppSamples, sending, lastSent, pcThread>>
        /\ pcStream = "direct" => pcStream' = "direct"
    BY <1>3, Posted DEF NewSegment, CanStream, Post, PostUnchanged, threadVars, TypeOK, Packets,
       IsSpecialSample, SEND_PACKET, EOS_PACKET, RESET_PACKET, NEW_SEGMENT
  <2>2. SamplesIn(m_List') = SamplesIn(m_List)
    BY <2>1, Posted DEF TypeOK
  <2>3. Ascending(m_List')
    BY <2>1, AppendList DEF TypeOK, Order
  <2>. QED
    BY <2>1, <2>2, <2>3 DEF Order
<1>4. CASE EOS
  <2>1. /\ m_List' = Append(m_List, EOS_PACKET)
        /\ EOS_PACKET \in Packets /\ IsSpecialSample(EOS_PACKET)
        /\ UNCHANGED <<m_ppSamples, sending, lastSent, pcThread>>
        /\ pcStream = "direct" => pcStream' = "direct"
    BY <1>4, Posted DEF EOS, CanStream, Post, PostUnchanged, threadVars, TypeOK, Packets,
       IsSpecialSample, SEND_PACKET, EOS_PACKET, RESET_PACKET, NEW_SEGMENT
  <2>2. SamplesIn(m_List') = SamplesIn(m_List)
    BY <2>1, Posted DEF TypeOK
  <2>3. Ascending(m_List')
    BY <2>1, AppendList DEF TypeOK, Order
  <2>. QED
    BY <2>1, <2>2, <2>3 DEF Order
<1>5. CASE Reset
  <2>1. /\ m_List' = Append(m_List, RESET_PACKET)
        /\ RESET_PACKET \in Packets /\ IsSpecialSample(RESET_PACKET)
        /\ UNCHANGED <<m_ppSamples, sending, lastSent, pcThread>>
        /\ pcStream = "direct" => pcStream' = "direct"
    BY <1>5, Posted DEF Reset, CanStream, Post, PostUnchanged, threadVars, TypeOK, Packets,
       IsSpecialSample, SEND_PACKET, EOS_PACKET, RESET_PACKET, NEW_SEGMENT
  <2>2. SamplesIn(m_List') = SamplesIn(m_List)
    BY <2>1, Posted DEF TypeOK
  <2>3. Ascending(m_List')
    BY <2>1, AppendList DEF TypeOK, Order
  <2>. QED
    BY <2>1, <2>2, <2>3 DEF Order
<1>6. CASE ReceiveDirect
  <2>1. received' = received + 1 /\ UNCHANGED <<m_List, sending, pcThread>>
        /\ m_List = << >> /\ pcStream # "direct"
    BY <1>6 DEF ReceiveDirect, DirectUnchanged, threadVars, CanStream, Places
  <2>2. CASE UNCHANGED <<m_ppSamples, lastSent>>
    BY <2>1, <2>2 DEF Order
  <2>3. CASE m_ppSamples' = Append(m_ppSamples, received')
    <3>1. ToSet(m_ppSamples') = ToSet(m_ppSamples) \cup {received'}
      BY <2>1, <2>3, OneMore, Lists, AppendList
    <3>2. Ascending(m_ppSamples')
      <4>1. Before(SamplesIn(m_ppSamples), {received'})
        BY <2>1, Newest, Lists
      <4>. QED
        BY <2>1, <2>3, <4>1, OneMore, Lists, AppendList DEF Order
    <3>3. SamplesIn(m_List) = {} /\ ToSet(sending) = {}
      BY <1>6, <2>1, EmptyList DEF ReceiveDirect, Places
    <3>4. lastSent' = lastSent \/ pcStream' = "direct"
      BY <1>6 DEF ReceiveDirect, SendBatch
    <3>5. pcStream' # "direct" => Before({lastSent'}, ToSet(m_ppSamples'))
      BY <2>1, <3>1, <3>4, Newest DEF Order, Before
    <3>. QED
      BY <2>1, <3>2, <3>3, <3>5 DEF Order, Before
  <2>. QED
    BY <1>6, <2>2, <2>3 DEF ReceiveDirect, SendBatch
<1>7. CASE DirectReturns
  <2>1. UNCHANGED <<m_List, sending, lastSent, pcThread>> /\ m_ppSamples' = << >>
    BY <1>7 DEF DirectReturns, DirectUnchanged, threadVars
  <2>. QED
    BY <2>1, EmptyList DEF Order, Before
<1>8. CASE \E p \in {SEND_PACKET, EOS_PACKET, NEW_SEGMENT} : SendDirect(p)
  <2>1. UNCHANGED <<m_List, m_ppSamples, sending, pcThread>> /\ pcStream' = "direct"
        /\ m_List = << >> /\ sending = << >>
    BY <1>8 DEF SendDirect, SendBatch, DirectUnchanged, threadVars, Places
  <2>. QED
    BY <2>1, EmptyList DEF Order, Before
<1>9. CASE ThreadTerminate
  <2>1. UNCHANGED <<sending, lastSent>> /\ sending = << >>
    BY <1>9 DEF ThreadTerminate, Places, streamVars
  <2>2. m_List' = << >> /\ m_ppSamples' = << >>
    BY <1>9 DEF ThreadTerminate, FreeSamples
  <2>. QED
    BY <2>1, <2>2, EmptyList DEF Order, Before
<1>10. CASE ThreadFlush
  <2>1. UNCHANGED <<sending, lastSent>> /\ sending = << >>
    BY <1>10 DEF ThreadFlush, Places, streamVars
  <2>2. m_List' = << >> /\ m_ppSamples' = << >>
    BY <1>10 DEF ThreadFlush, FreeSamples
  <2>. QED
    BY <2>1, <2>2, EmptyList DEF Order, Before
<1>11. CASE TakeSample
  <2>1. /\ m_List # << >> /\ Taken = Head(m_List) /\ Taken \in Nat \ {0}
        /\ Taken \in Packets /\ ~IsSpecialSample(Taken)
    BY <1>11, TakenSample DEF TakeSample, Packets, IsSpecialSample
  <2>2. /\ m_List' = Tail(m_List) /\ UNCHANGED <<lastSent, pcStream>> /\ sending = << >>
        /\ \/ m_ppSamples' = Append(m_ppSamples, Taken) /\ sending' = sending
           \/ m_ppSamples' = << >> /\ sending' = Append(m_ppSamples, Taken)
        /\ pcStream # "direct"
    BY <1>11 DEF TakeSample, CanTake, Dispatch, streamVars, Places
  <2>3. /\ SamplesIn(m_List) = SamplesIn(m_List') \cup {Taken} /\ Ascending(m_List')
        /\ Before({Taken}, SamplesIn(m_List'))
    BY <2>1, <2>2, TakeList DEF TypeOK, Order
  <2>4. /\ ToSet(Append(m_ppSamples, Taken)) = ToSet(m_ppSamples) \cup {Taken}
        /\ Ascending(Append(m_ppSamples, Taken))
    <3>1. Before(SamplesIn(m_ppSamples), {Taken})
      BY <2>3, Lists DEF Order, Before
    <3>. QED
      BY <2>1, <3>1, Lists, AppendList DEF Order
  <2>5. /\ Before(ToSet(m_ppSamples) \cup {Taken}, SamplesIn(m_List'))
        /\ Before({lastSent}, ToSet(m_ppSamples) \cup {Taken})
        /\ Before({lastSent}, SamplesIn(m_List'))
    BY <2>2, <2>3 DEF Order, Before
  <2>. QED
    BY <2>2, <2>3, <2>4, <2>5, EmptyList DEF Order, Before
<1>12. CASE TakeSpecial
  <2>1. m_List # << >> /\ Taken = Head(m_List) /\ IsSpecialSample(Taken)
    BY <1>12, TakenSpecial DEF TakeSpecial
  <2>2. /\ m_List' = Tail(m_List) /\ UNCHANGED <<lastSent, pcStream>> /\ sending = << >>
        /\ \/ UNCHANGED <<m_ppSamples, sending>>
           \/ m_ppSamples' = << >> /\ sending' = m_ppSamples
        /\ pcStream # "direct"
    BY <1>12 DEF TakeSpecial, CanTake, Dispatch, streamVars, Places
  <2>3. SamplesIn(m_List) = SamplesIn(m_List') /\ Ascending(m_List')
    BY <2>1, <2>2, TakeList DEF TypeOK, Order
  <2>. QED
    BY <2>2, <2>3, EmptyList DEF Order, Before
<1>13. CASE TakeNothing
  <2>1. /\ UNCHANGED <<m_List, lastSent, pcStream>> /\ sending = << >>
        /\ \/ UNCHANGED <<m_ppSamples, sending>>
           \/ m_ppSamples' = << >> /\ sending' = m_ppSamples
        /\ pcStream # "direct"
    BY <1>13 DEF TakeNothing, CanTake, Dispatch, streamVars, Places
  <2>. QED
    BY <2>1, EmptyList DEF Order, Before
<1>14. CASE ThreadSend
  <2>1. UNCHANGED <<m_List, m_ppSamples, pcStream>> /\ m_ppSamples = << >>
    BY <1>14 DEF ThreadSend, streamVars, Places
  <2>2. CASE sending' = << >> /\ lastSent' = lastSent
    BY <2>1, <2>2, EmptyList DEF Order, Before
  <2>3. CASE /\ sending # << >> /\ sending' = sending /\ lastSent' = Last(sending)
             /\ pcThread' = "receive"
    <3>1. Last(sending) \in ToSet(sending)
      BY <2>3, LastOfBatch DEF TypeOK
    <3>. QED
      BY <2>1, <2>3, <3>1, EmptyList DEF Order, Before
  <2>. QED
    BY <1>14, <2>2, <2>3 DEF ThreadSend
<1>15. CASE ThreadReceived
  <2>1. UNCHANGED <<m_List, m_ppSamples, lastSent, pcStream>> /\ sending' = << >>
    BY <1>15 DEF ThreadReceived, streamVars
  <2>. QED
    BY <2>1, EmptyList DEF Order, Before
<1>16. CASE EndFlushFree
  <2>1. UNCHANGED <<sending, lastSent>> /\ sending = << >>
    BY <1>16 DEF EndFlushFree, Places, streamVars
  <2>2. m_List' = << >> /\ m_ppSamples' = << >>
    BY <1>16 DEF EndFlushFree, FreeSamples
  <2>. QED
    BY <2>1, <2>2, EmptyList DEF Order, Before
<1>17. CASE Delete
  <2>1. UNCHANGED <<sending, lastSent, pcThread, pcStream>>
    BY <1>17 DEF Delete, streamVars, threadVars
  <2>2. CASE UNCHANGED <<m_List, m_ppSamples>>
    BY <2>1, <2>2 DEF Order
  <2>3. CASE m_List' = << >> /\ m_ppSamples' = << >>
    BY <2>1, <2>3, EmptyList DEF Order, Before
  <2>. QED
    BY <1>17, <2>2, <2>3 DEF Delete, FreeSamples
<1>18. CASE ~Moves
  BY <1>18, StillStep DEF Order, queueVars
<1>. QED
  BY <1>1, <1>2, <1>3, <1>4, <1>5, <1>6, <1>7, <1>8, <1>9, <1>10, <1>11, <1>12, <1>13,
     <1>14, <1>15, <1>16, <1>17, <1>18 DEF Moves

-----------------------------------------------------------------------------
\* The theorems.

\* The places of the samples, one behind the other.
LEMMA PlacesInOrder ==
    ASSUME TypeOK, Places, Order
    PROVE  LET places == sending \o m_ppSamples \o m_List
           IN  /\ SamplesIn(places)
                      = SamplesIn(m_List) \cup ToSet(m_ppSamples) \cup ToSet(sending)
               /\ Ascending(places)
<1> DEFINE mine   == sending \o m_ppSamples
           places == mine \o m_List
<1>1. /\ m_List \in Seq(Packets) /\ m_ppSamples \in Seq(Nat \ {0}) /\ sending \in Seq(Nat \ {0})
      /\ sending = << >> \/ m_ppSamples = << >>
  BY DEF TypeOK, Places
<1>2. \/ m_ppSamples = << >> /\ mine = sending
      \/ sending = << >> /\ mine = m_ppSamples
  <2>1. CASE m_ppSamples = << >>
    <3>1. sending \o << >> = sending
      BY <1>1
    <3>. QED
      BY <2>1, <3>1
  <2>2. CASE sending = << >>
    <3>1. << >> \o m_ppSamples = m_ppSamples
      BY <1>1
    <3>. QED
      BY <2>2, <3>1
  <2>. QED
    BY <1>1, <2>1, <2>2
<1>3. mine \in Seq(Packets) /\ Ascending(mine) /\ SamplesIn(mine) = ToSet(mine)
      /\ ToSet(mine) = ToSet(m_ppSamples) \cup ToSet(sending)
  <2>1. CASE m_ppSamples = << >> /\ mine = sending
    BY <1>1, <2>1, OnlySamples, EmptyList DEF Order
  <2>2. CASE sending = << >> /\ mine = m_ppSamples
    BY <1>1, <2>2, OnlySamples, EmptyList DEF Order
  <2>. QED
    BY <1>2, <2>1, <2>2
<1>4. Before(ToSet(mine), SamplesIn(m_List))
  BY <1>3 DEF Order
<1> HIDE DEF mine
<1>5. /\ DOMAIN places = 1..(Len(mine) + Len(m_List)) /\ Len(mine) \in Nat /\ Len(m_List) \in Nat
      /\ DOMAIN mine = 1..Len(mine) /\ DOMAIN m_List = 1..Len(m_List)
      /\ \A k \in 1..Len(mine) : places[k] = mine[k]
      /\ \A k \in 1..Len(m_List) : places[Len(mine) + k] = m_List[k]
  <2>1. /\ Len(mine) \in Nat /\ Len(m_List) \in Nat /\ places \in Seq(Packets)
        /\ Len(places) = Len(mine) + Len(m_List)
        /\ DOMAIN mine = 1..Len(mine) /\ DOMAIN m_List = 1..Len(m_List)
    BY <1>1, <1>3
  <2>2. \A k \in 1..Len(mine) : places[k] = mine[k]
    BY <1>1, <1>3, <2>1
  <2>3. \A k \in 1..Len(m_List) : places[Len(mine) + k] = m_List[k]
    BY <1>1, <1>3, <2>1
  <2>. QED
    BY <2>1, <2>2, <2>3
<1>6. \A k \in DOMAIN places :
          \/ k \in DOMAIN mine /\ places[k] = mine[k]
          \/ /\ k - Len(mine) \in DOMAIN m_List /\ places[k] = m_List[k - Len(mine)]
             /\ k > Len(mine)
  BY <1>5
<1> HIDE DEF places
<1>7. SamplesIn(places) = SamplesIn(m_List) \cup ToSet(mine)
  <2>1. ASSUME NEW k \in DOMAIN places, ~IsSpecialSample(places[k])
        PROVE  places[k] \in SamplesIn(m_List) \cup ToSet(mine)
    BY <1>6, <2>1 DEF SamplesIn, ToSet
  <2>2. ASSUME NEW k \in DOMAIN m_List PROVE m_List[k] \in ToSet(places)
    <3>1. Len(mine) + k \in DOMAIN places /\ places[Len(mine) + k] = m_List[k]
      BY <1>5
    <3>. QED
      BY <3>1 DEF ToSet
  <2>3. ASSUME NEW k \in DOMAIN mine PROVE mine[k] \in ToSet(places)
    <3>1. k \in DOMAIN places /\ places[k] = mine[k]
      BY <1>5
    <3>. QED
      BY <3>1 DEF ToSet
  <2>4. SamplesIn(m_List) \subseteq SamplesIn(places)
    BY <2>2 DEF SamplesIn, ToSet
  <2>5. SamplesIn(mine) \subseteq SamplesIn(places)
    BY <2>3 DEF SamplesIn, ToSet
  <2>6. SamplesIn(places) \subseteq SamplesIn(m_List) \cup ToSet(mine)
    BY <2>1 DEF SamplesIn, ToSet
  <2>. QED
    BY <1>3, <2>4, <2>5, <2>6
<1>8. ASSUME NEW a \in DOMAIN places, NEW b \in DOMAIN places, a < b,
             ~IsSpecialSample(places[a]), ~IsSpecialSample(places[b])
      PROVE  places[a] < places[b]
  <2>1. CASE a \in DOMAIN mine /\ places[a] = mine[a] /\ b \in DOMAIN mine /\ places[b] = mine[b]
    BY <1>3, <1>8, <2>1 DEF Ascending
  <2>2. CASE /\ a \in DOMAIN mine /\ places[a] = mine[a]
             /\ b - Len(mine) \in DOMAIN m_List /\ places[b] = m_List[b - Len(mine)]
    <3>1. places[a] \in ToSet(mine) /\ places[b] \in SamplesIn(m_List)
      BY <1>8, <2>2 DEF SamplesIn, ToSet
    <3>. QED
      BY <1>4, <3>1 DEF Before
  <2>3. CASE /\ a - Len(mine) \in DOMAIN m_List /\ places[a] = m_List[a - Len(mine)]
             /\ b - Len(mine) \in DOMAIN m_List /\ places[b] = m_List[b - Len(mine)]
    <3>1. a - Len(mine) < b - Len(mine)
      BY <1>5, <1>8
    <3>. QED
      BY <1>8, <2>3, <3>1 DEF Order, Ascending
  <2>4. ~(a > Len(mine) /\ b \in DOMAIN mine)
    BY <1>5, <1>8
  <2>. QED
    BY <1>6, <2>1, <2>2, <2>3, <2>4
<1>. QED
  BY <1>3, <1>7, <1>8 DEF places, mine, Ascending

\* A new queue holds nothing.
LEMMA InitInv == Init => IInv
<1> SUFFICES ASSUME Init PROVE IInv
  OBVIOUS
<1>1. TypeOK
  BY EmptyList DEF Init, TypeOK
<1>2. Places
  BY DEF Init, Places
<1>3. Accounted
  BY EmptyList DEF Init, Accounted
<1>4. Order
  BY EmptyList DEF Init, Order, Before
<1>. QED
  BY <1>1, <1>2, <1>3, <1>4 DEF IInv

\* The invariant is inductive.
LEMMA InvStep == IInv /\ [Next]_vars => IInv'
  BY TypeStep, PlacesStep, AccountedStep, OrderStep DEF IInv

\* The invariant holds of every queue, whatever its batches, its bounds and the
\* flushes, resets and errors it goes through.
THEOREM Invariance == Spec => []IInv
  BY InitInv, InvStep, PTL DEF Spec

\* No sample is lost or released twice: each that was received is on the list, in
\* the batch, being sent, or released.
THEOREM NothingLost == Spec => []EachSampleOnce
<1>1. IInv => EachSampleOnce
  <2> SUFFICES ASSUME IInv PROVE EachSampleOnce
    OBVIOUS
  <2> DEFINE places == sending \o m_ppSamples \o m_List
  <2>1. /\ SamplesIn(places) = SamplesIn(m_List) \cup ToSet(m_ppSamples) \cup ToSet(sending)
        /\ Ascending(places)
    BY PlacesInOrder DEF IInv
  <2>2. DOMAIN places \subseteq Nat /\ places \in Seq(Packets)
    BY OnlySamples DEF IInv, TypeOK
  <2> HIDE DEF places
  <2>3. ASSUME NEW a \in DOMAIN places, NEW b \in DOMAIN places, places[a] = places[b],
               ~IsSpecialSample(places[a])
        PROVE  a = b
    <3>1. places[a] \in Nat
      BY <2>2, <2>3, SampleNumbers DEF SamplesIn, ToSet
    <3>2. ~(a < b) /\ ~(b < a)
      BY <2>1, <2>3, <3>1 DEF Ascending
    <3>. QED
      BY <2>2, <3>2
  <2>4. SamplesIn(places) \cup released = 1..received /\ SamplesIn(places) \cap released = {}
    BY <2>1 DEF IInv, Accounted
  <2>. QED
    BY <2>3, <2>4 DEF EachSampleOnce, places
<1>. QED
  BY <1>1, Invariance, PTL

\* Samples go downstream in the order in which they came, and a packet behind the
\* samples that were queued before it.
THEOREM Ordered == Spec => []InOrder
<1>1. IInv => InOrder
  <2> SUFFICES ASSUME IInv PROVE InOrder
    OBVIOUS
  <2> DEFINE places == sending \o m_ppSamples \o m_List
  <2>1. /\ SamplesIn(places) = SamplesIn(m_List) \cup ToSet(m_ppSamples) \cup ToSet(sending)
        /\ Ascending(places)
    BY PlacesInOrder DEF IInv
  <2>2. ASSUME pcThread # "receive", pcStream # "direct", NEW a \in DOMAIN places,
               ~IsSpecialSample(places[a])
        PROVE  lastSent < places[a]
    <3>1. places[a] \in SamplesIn(places)
      BY <2>2 DEF SamplesIn, ToSet
    <3>. QED
      BY <2>1, <2>2, <3>1 DEF IInv, Order, Before
  <2>3. pcThread = "packet" => m_ppSamples = << >>
    BY DEF IInv, Places
  <2>. QED
    BY <2>1, <2>2, <2>3 DEF InOrder, Ascending
<1>. QED
  BY <1>1, Invariance, PTL
-----------------------------------------------------------------------------
\* Flushes.

\* No step takes back what was released, and samples are received one by one.
LEMMA ReleasedStep ==
    ASSUME TypeOK, [Next]_vars
    PROVE  /\ released \subseteq released'
           /\ \/ received' = received
              \/ /\ Receive \/ ReceiveDirect
                 /\ received' = received + 1
<1>1. CASE Receive
  BY <1>1 DEF Receive, CanStream, queueVars, streamVars
<1>2. CASE SendAnyway
  BY <1>2 DEF SendAnyway, PostUnchanged, queueVars, streamVars
<1>3. CASE NewSegment
  BY <1>3 DEF NewSegment, PostUnchanged, queueVars, streamVars
<1>4. CASE EOS
  BY <1>4 DEF EOS, PostUnchanged, queueVars, streamVars
<1>5. CASE Reset
  BY <1>5 DEF Reset, PostUnchanged, queueVars, streamVars
<1>6. CASE ResetWait
  BY <1>6 DEF ResetWait, queueVars, streamVars
<1>7. CASE ReceiveDirect
  BY <1>7 DEF ReceiveDirect, DirectUnchanged, queueVars, streamVars
<1>8. CASE DirectReturns
  BY <1>8 DEF DirectReturns, DirectUnchanged, queueVars, streamVars
<1>9. CASE ResetDirect
  BY <1>9 DEF ResetDirect, queueVars, streamVars
<1>10. CASE ThreadLock
  BY <1>10 DEF ThreadLock, queueVars, streamVars
<1>11. CASE ThreadTerminate
  BY <1>11 DEF ThreadTerminate, FreeSamples, queueVars, streamVars
<1>12. CASE ThreadFlush
  BY <1>12 DEF ThreadFlush, FreeSamples, queueVars, streamVars
<1>13. CASE TakeSample
  BY <1>13 DEF TakeSample, queueVars, streamVars
<1>14. CASE TakeSpecial
  BY <1>14 DEF TakeSpecial, queueVars, streamVars
<1>15. CASE TakeNothing
  BY <1>15 DEF TakeNothing, queueVars, streamVars
<1>16. CASE ThreadWait
  BY <1>16 DEF ThreadWait, queueVars, streamVars
<1>17. CASE ThreadSend
  BY <1>17 DEF ThreadSend, queueVars, streamVars
<1>18. CASE ThreadReceived
  BY <1>18 DEF ThreadReceived, queueVars, streamVars
<1>19. CASE ThreadPacket
  BY <1>19 DEF ThreadPacket, queueVars, streamVars
<1>20. CASE BeginFlush
  BY <1>20 DEF BeginFlush, FlushUnchanged, queueVars, streamVars
<1>21. CASE BeginFlushDirect
  BY <1>21 DEF BeginFlushDirect, FlushUnchanged, queueVars, streamVars
<1>22. CASE BeginFlushLock
  BY <1>22 DEF BeginFlushLock, FlushUnchanged, queueVars, streamVars
<1>23. CASE BeginFlushDown
  BY <1>23 DEF BeginFlushDown, FlushUnchanged, queueVars, streamVars
<1>24. CASE EndFlush
  BY <1>24 DEF EndFlush, FlushUnchanged, queueVars, streamVars
<1>25. CASE EndFlushWait
  BY <1>25 DEF EndFlushWait, FlushUnchanged, queueVars, streamVars
<1>26. CASE EndFlushFree
  BY <1>26 DEF EndFlushFree, FreeSamples, queueVars, streamVars
<1>27. CASE EndFlushClear
  BY <1>27 DEF EndFlushClear, FlushUnchanged, queueVars, streamVars
<1>28. CASE EndFlushDown
  BY <1>28 DEF EndFlushDown, queueVars, streamVars
<1>29. CASE EndFlushDone
  BY <1>29 DEF EndFlushDone, FlushUnchanged, queueVars, streamVars
<1>30. CASE Join
  BY <1>30 DEF Join, queueVars, streamVars
<1>31. CASE Delete
  BY <1>31 DEF Delete, FreeSamples, queueVars, streamVars
<1>32. CASE \E p \in {SEND_PACKET, EOS_PACKET, NEW_SEGMENT} : SendDirect(p)
  BY <1>32 DEF SendDirect, DirectUnchanged, queueVars, streamVars
<1>33. CASE UNCHANGED vars
  BY <1>33 DEF vars, queueVars, streamVars
<1>. QED
  BY <1>1, <1>2, <1>3, <1>4, <1>5, <1>6, <1>7, <1>8, <1>9, <1>10, <1>11, <1>12, <1>13, <1>14,
     <1>15, <1>16, <1>17, <1>18, <1>19, <1>20, <1>21, <1>22, <1>23, <1>24, <1>25, <1>26, <1>27,
     <1>28, <1>29, <1>30, <1>31, <1>32, <1>33
  DEF Next, Step, Stream, Thread, Flush

\* What has all been released stays so, until a sample is queued or batched.
LEMMA AllReleasedStep ==
    ASSUME IInv, [Next]_vars, AllReleased, received' = received \/ m_hr # "S_OK"
    PROVE  AllReleased'
<1>1. /\ released \subseteq released' /\ received \in Nat
      /\ received' = received \/ ((Receive \/ ReceiveDirect) /\ received' = received + 1)
  BY ReleasedStep DEF IInv, TypeOK
<1>2. released' \subseteq 1..received'
  <2>1. Accounted'
    BY InvStep DEF IInv
  <2>. QED
    BY <2>1 DEF Accounted
<1>3. CASE received' = received
  BY <1>1, <1>2, <1>3 DEF AllReleased
<1>4. CASE received' = received + 1 /\ m_hr # "S_OK" /\ (Receive \/ ReceiveDirect)
  <2>1. released' = released \cup {received'}
    BY <1>4 DEF Receive, ReceiveDirect
  <2>2. 1..received' = 1..received \cup {received'}
    BY <1>1, <1>4
  <2>. QED
    BY <2>1, <2>2 DEF AllReleased
<1>. QED
  BY <1>1, <1>3, <1>4

\* With nothing being sent, FreeSamples releases all there is.
LEMMA AllFreed ==
    ASSUME IInv, [Next]_vars, FreeSamples, sending' = << >>
    PROVE  AllReleased'
<1>1. Accounted'
  BY InvStep DEF IInv
<1>2. m_List' = << >> /\ m_ppSamples' = << >>
  BY DEF FreeSamples
<1>. QED
  BY <1>1, <1>2, EmptyList DEF Accounted, AllReleased

\* A queue that is not reset has no packet of a reset.
LEMMA NoResetsStep ==
    ASSUME IInv, ResetsApart, NoResets, [Next]_vars
    PROVE  NoResets'
<1> DEFINE Free(list) == RESET_PACKET \notin ToSet(list)
<1>0. /\ m_List \in Seq(Packets) /\ (Receive => received' \in Nat \ {0})
      /\ RESET_PACKET # NULL /\ Free(<< >>)
  BY EmptyList DEF IInv, TypeOK, RESET_PACKET, NULL, Receive
<1>00. ~Queued => NoResets'
  BY DEF NoResets, Queued, Next, vars
<1>01. ASSUME NEW p \in Packets, Queued, p # RESET_PACKET
       PROVE  Free(Append(m_List, p)) /\ m_List \o <<p>> = Append(m_List, p)
  <2>1. m_List \o <<p>> = Append(m_List, p) /\ ToSet(Append(m_List, p)) = ToSet(m_List) \cup {p}
    BY <1>0, AppendList, Posted
  <2>. QED
    BY <1>01, <2>1 DEF NoResets
<1>02. ASSUME m_List # << >>, Queued
       PROVE  Head(m_List) # RESET_PACKET /\ Free(Tail(m_List))
  <2>1. \A k \in DOMAIN m_List : m_List[k] # RESET_PACKET
    BY <1>02 DEF NoResets, ToSet
  <2>2. /\ 1 \in DOMAIN m_List /\ Head(m_List) = m_List[1]
        /\ \A k \in DOMAIN Tail(m_List) : k + 1 \in DOMAIN m_List /\ Tail(m_List)[k] = m_List[k + 1]
    BY <1>0, <1>02
  <2>. QED
    BY <2>1, <2>2 DEF ToSet
<1>03. /\ SEND_PACKET \in Packets \ {RESET_PACKET} /\ EOS_PACKET \in Packets \ {RESET_PACKET}
       /\ NEW_SEGMENT \in Packets \ {RESET_PACKET}
       /\ \A n \in Nat \ {0} : n \in Packets \ {RESET_PACKET}
  BY DEF Packets, SEND_PACKET, EOS_PACKET, RESET_PACKET, NEW_SEGMENT
<1> HIDE DEF Free
<1> SUFFICES ASSUME Queued PROVE Free(m_List') /\ pSample' # RESET_PACKET
  BY <1>00, <1>0 DEF NoResets, Free
<1>04. Free(m_List) /\ pSample # RESET_PACKET
  BY DEF NoResets, Free
<1>1. CASE Receive
  BY <1>0, <1>01, <1>03, <1>04, <1>1 DEF Receive, threadVars
<1>2. CASE SendAnyway
  BY <1>01, <1>03, <1>04, <1>2 DEF SendAnyway, Post, PostUnchanged, threadVars
<1>3. CASE NewSegment
  BY <1>01, <1>03, <1>04, <1>3 DEF NewSegment, Post, PostUnchanged, threadVars
<1>4. CASE EOS
  BY <1>01, <1>03, <1>04, <1>4 DEF EOS, Post, PostUnchanged, threadVars
<1>5. CASE Reset
  BY <1>5 DEF Reset, ResetsApart
<1>6. CASE ResetWait
  BY <1>0, <1>04, <1>6 DEF ResetWait, queueVars, threadVars
<1>7. CASE ReceiveDirect
  BY <1>7 DEF ReceiveDirect
<1>8. CASE DirectReturns
  BY <1>0, <1>04, <1>8 DEF DirectReturns, DirectUnchanged, queueVars, threadVars
<1>9. CASE ResetDirect
  BY <1>0, <1>04, <1>9 DEF ResetDirect, queueVars, threadVars
<1>10. CASE ThreadLock
  BY <1>0, <1>04, <1>10 DEF ThreadLock, queueVars, threadVars
<1>11. CASE ThreadTerminate
  BY <1>0, <1>04, <1>11 DEF ThreadTerminate, FreeSamples, queueVars, threadVars
<1>12. CASE ThreadFlush
  BY <1>0, <1>04, <1>12 DEF ThreadFlush, FreeSamples, queueVars, threadVars
<1>13. CASE TakeSample
  BY <1>0, <1>02, <1>13, TakenSample DEF TakeSample
<1>14. CASE TakeSpecial
  BY <1>0, <1>02, <1>14, TakenSpecial DEF TakeSpecial
<1>15. CASE TakeNothing
  BY <1>0, <1>04, <1>15 DEF TakeNothing, Dispatch, queueVars, threadVars
<1>16. CASE ThreadWait
  BY <1>0, <1>04, <1>16 DEF ThreadWait, queueVars, threadVars
<1>17. CASE ThreadSend
  BY <1>0, <1>04, <1>17 DEF ThreadSend, queueVars, threadVars
<1>18. CASE ThreadReceived
  BY <1>0, <1>04, <1>18 DEF ThreadReceived, queueVars, threadVars
<1>19. CASE ThreadPacket
  BY <1>0, <1>04, <1>19 DEF ThreadPacket, queueVars, threadVars
<1>20. CASE BeginFlush
  BY <1>0, <1>04, <1>20 DEF BeginFlush, Discarding, FlushUnchanged, queueVars, threadVars
<1>21. CASE BeginFlushDirect
  BY <1>0, <1>04, <1>21 DEF BeginFlushDirect, FlushUnchanged, queueVars, threadVars
<1>22. CASE BeginFlushLock
  BY <1>0, <1>04, <1>22 DEF BeginFlushLock, Discarding, FlushUnchanged, queueVars,
     threadVars
<1>23. CASE BeginFlushDown
  BY <1>0, <1>04, <1>23 DEF BeginFlushDown, FlushUnchanged, queueVars, threadVars
<1>24. CASE EndFlush
  BY <1>0, <1>04, <1>24 DEF EndFlush, FlushUnchanged, queueVars, threadVars
<1>25. CASE EndFlushWait
  BY <1>0, <1>04, <1>25 DEF EndFlushWait, FlushUnchanged, queueVars, threadVars
<1>26. CASE EndFlushFree
  BY <1>0, <1>04, <1>26 DEF EndFlushFree, FreeSamples, queueVars, threadVars
<1>27. CASE EndFlushClear
  BY <1>0, <1>04, <1>27 DEF EndFlushClear, FlushUnchanged, queueVars, threadVars
<1>28. CASE EndFlushDown
  BY <1>0, <1>04, <1>28 DEF EndFlushDown, queueVars, threadVars
<1>29. CASE EndFlushDone
  BY <1>0, <1>04, <1>29 DEF EndFlushDone, FlushUnchanged, queueVars, threadVars
<1>30. CASE Join
  BY <1>0, <1>04, <1>30 DEF Join, queueVars, threadVars
<1>31. CASE Delete
  BY <1>0, <1>04, <1>31 DEF Delete, FreeSamples, queueVars, threadVars
<1>32. CASE \E p \in {SEND_PACKET, EOS_PACKET, NEW_SEGMENT} : SendDirect(p)
  BY <1>32 DEF SendDirect
<1>33. CASE UNCHANGED vars
  BY <1>0, <1>04, <1>33 DEF vars, queueVars, threadVars
<1>. QED
  BY <1>1, <1>2, <1>3, <1>4, <1>5, <1>6, <1>7, <1>8, <1>9, <1>10, <1>11, <1>12, <1>13,
     <1>14, <1>15, <1>16, <1>17, <1>18, <1>19, <1>20, <1>21, <1>22, <1>23, <1>24, <1>25,
     <1>26, <1>27, <1>28, <1>29, <1>30, <1>31, <1>32, <1>33
  DEF Next, Step, Stream, Thread, Flush

\* Nothing is kept through a flush: BeginFlush has it all released, at once or by the
\* thread, and until EndFlush is over nothing is taken.
LEMMA FlushPhasesStep ==
    ASSUME IInv, ResetsApart, NoResets, FlushPhases, [Next]_vars
    PROVE  FlushPhases'
<1>0. /\ queue' = queue /\ Places
      /\ AllReleased /\ (received' = received \/ m_hr # "S_OK") => AllReleased'
      /\ FreeSamples /\ sending' = << >> => AllReleased'
  BY AllReleasedStep, AllFreed DEF Next, vars, IInv
<1>00. ~(Queued /\ pSample = RESET_PACKET)
  BY DEF NoResets
<1> HIDE DEF AllReleased
<1>1. CASE Receive
  BY <1>0, <1>00, <1>1 DEF Receive, CanStream, FlushPhases, Places, Queued, queueVars,
     waitVars, stateVars, threadVars, streamVars, appVars
<1>2. CASE SendAnyway
  BY <1>0, <1>00, <1>2 DEF SendAnyway, PostUnchanged, FlushPhases, Places, Queued,
     queueVars, waitVars, stateVars, threadVars, streamVars, appVars
<1>3. CASE NewSegment
  BY <1>0, <1>00, <1>3 DEF NewSegment, PostUnchanged, FlushPhases, Places, Queued,
     queueVars, waitVars, stateVars, threadVars, streamVars, appVars
<1>4. CASE EOS
  BY <1>0, <1>00, <1>4 DEF EOS, PostUnchanged, FlushPhases, Places, Queued, queueVars,
     waitVars, stateVars, threadVars, streamVars, appVars
<1>5. CASE Reset
  BY <1>5 DEF Reset, ResetsApart, FlushPhases, Queued
<1>6. CASE ResetWait
  BY <1>0, <1>00, <1>6 DEF ResetWait, FlushPhases, Places, Queued, queueVars, waitVars,
     stateVars, threadVars, streamVars, appVars
<1>7. CASE ReceiveDirect
  BY <1>0, <1>00, <1>7 DEF ReceiveDirect, CanStream, SendBatch, DirectUnchanged,
     FlushPhases, Places, Queued, queueVars, waitVars, stateVars, threadVars, streamVars,
     appVars
<1>8. CASE DirectReturns
  BY <1>0, <1>00, <1>8 DEF DirectReturns, DirectUnchanged, FlushPhases, Places, Queued,
     queueVars, waitVars, stateVars, threadVars, streamVars, appVars
<1>9. CASE ResetDirect
  BY <1>0, <1>00, <1>9 DEF ResetDirect, FlushPhases, Places, Queued, queueVars, waitVars,
     stateVars, threadVars, streamVars, appVars
<1>10. CASE ThreadLock
  BY <1>0, <1>00, <1>10 DEF ThreadLock, FlushPhases, Places, Queued, queueVars, waitVars,
     stateVars, threadVars, streamVars, appVars
<1>11. CASE ThreadTerminate
  BY <1>0, <1>00, <1>11 DEF ThreadTerminate, FreeSamples, FlushPhases, Places, Queued,
     queueVars, waitVars, stateVars, threadVars, streamVars, appVars
<1>12. CASE ThreadFlush
  BY <1>0, <1>00, <1>12 DEF ThreadFlush, FreeSamples, FlushPhases, Places, Queued,
     queueVars, waitVars, stateVars, threadVars, streamVars, appVars
<1>13. CASE TakeSample
  BY <1>0, <1>00, <1>13 DEF TakeSample, Dispatch, FlushPhases, Places, Queued, queueVars,
     waitVars, stateVars, threadVars, streamVars, appVars
<1>14. CASE TakeSpecial
  BY <1>0, <1>00, <1>14 DEF TakeSpecial, Dispatch, FlushPhases, Places, Queued, queueVars,
     waitVars, stateVars, threadVars, streamVars, appVars
<1>15. CASE TakeNothing
  BY <1>0, <1>00, <1>15 DEF TakeNothing, Dispatch, FlushPhases, Places, Queued, queueVars,
     waitVars, stateVars, threadVars, streamVars, appVars
<1>16. CASE ThreadWait
  BY <1>0, <1>00, <1>16 DEF ThreadWait, FlushPhases, Places, Queued, queueVars, waitVars,
     stateVars, threadVars, streamVars, appVars
<1>17. CASE ThreadSend
  BY <1>0, <1>00, <1>17 DEF ThreadSend, FlushPhases, Places, Queued, queueVars, waitVars,
     stateVars, threadVars, streamVars, appVars
<1>18. CASE ThreadReceived
  BY <1>0, <1>00, <1>18 DEF ThreadReceived, FlushPhases, Places, Queued, queueVars,
     waitVars, stateVars, threadVars, streamVars, appVars
<1>19. CASE ThreadPacket
  BY <1>0, <1>00, <1>19 DEF ThreadPacket, FlushPhases, Places, Queued, queueVars, waitVars,
     stateVars, threadVars, streamVars, appVars
<1>20. CASE BeginFlush
  BY <1>0, <1>00, <1>20 DEF BeginFlush, Discarding, FlushUnchanged, FlushPhases, Places,
     Queued, queueVars, waitVars, stateVars, threadVars, streamVars, appVars
<1>21. CASE BeginFlushDirect
  BY <1>0, <1>00, <1>21 DEF BeginFlushDirect, FlushUnchanged, FlushPhases, Places, Queued,
     queueVars, waitVars, stateVars, threadVars, streamVars, appVars
<1>22. CASE BeginFlushLock
  BY <1>0, <1>00, <1>22 DEF BeginFlushLock, Discarding, FlushUnchanged, FlushPhases,
     Places, Queued, queueVars, waitVars, stateVars, threadVars, streamVars, appVars
<1>23. CASE BeginFlushDown
  BY <1>0, <1>00, <1>23 DEF BeginFlushDown, FlushUnchanged, FlushPhases, Places, Queued,
     queueVars, waitVars, stateVars, threadVars, streamVars, appVars
<1>24. CASE EndFlush
  BY <1>0, <1>00, <1>24 DEF EndFlush, FlushUnchanged, FlushPhases, Places, Queued,
     queueVars, waitVars, stateVars, threadVars, streamVars, appVars
<1>25. CASE EndFlushWait
  BY <1>0, <1>00, <1>25 DEF EndFlushWait, FlushUnchanged, FlushPhases, Places, Queued,
     queueVars, waitVars, stateVars, threadVars, streamVars, appVars
<1>26. CASE EndFlushFree
  BY <1>0, <1>00, <1>26 DEF EndFlushFree, FreeSamples, FlushPhases, Places, Queued,
     queueVars, waitVars, stateVars, threadVars, streamVars, appVars
<1>27. CASE EndFlushClear
  BY <1>0, <1>00, <1>27 DEF EndFlushClear, FlushUnchanged, FlushPhases, Places, Queued,
     queueVars, waitVars, stateVars, threadVars, streamVars, appVars
<1>28. CASE EndFlushDown
  BY <1>0, <1>00, <1>28 DEF EndFlushDown, FlushPhases, Places, Queued, queueVars, waitVars,
     stateVars, threadVars, streamVars, appVars
<1>29. CASE EndFlushDone
  BY <1>0, <1>00, <1>29 DEF EndFlushDone, FlushUnchanged, FlushPhases, Places, Queued,
     queueVars, waitVars, stateVars, threadVars, streamVars, appVars
<1>30. CASE Join
  BY <1>0, <1>00, <1>30 DEF Join, FlushPhases, Places, Queued, queueVars, waitVars,
     stateVars, threadVars, streamVars, appVars
<1>31. CASE Delete
  BY <1>0, <1>00, <1>31 DEF Delete, FreeSamples, FlushPhases, Places, Queued, queueVars,
     waitVars, stateVars, threadVars, streamVars, appVars
<1>32. CASE \E p \in {SEND_PACKET, EOS_PACKET, NEW_SEGMENT} : SendDirect(p)
  BY <1>0, <1>00, <1>32 DEF SendDirect, CanStream, SendBatch, DirectUnchanged, FlushPhases,
     Places, Queued, queueVars, waitVars, stateVars, threadVars, streamVars, appVars
<1>33. CASE UNCHANGED vars
  BY <1>0, <1>00, <1>33 DEF vars, FlushPhases, Places, Queued, queueVars, waitVars,
     stateVars, threadVars, streamVars, appVars
<1>. QED
  BY <1>1, <1>2, <1>3, <1>4, <1>5, <1>6, <1>7, <1>8, <1>9, <1>10, <1>11, <1>12, <1>13,
     <1>14, <1>15, <1>16, <1>17, <1>18, <1>19, <1>20, <1>21, <1>22, <1>23, <1>24, <1>25,
     <1>26, <1>27, <1>28, <1>29, <1>30, <1>31, <1>32, <1>33
  DEF Next, Step, Stream, Thread, Flush

\* What is downstream is the batch whose last sample is the last one sent.
LEMMA SendsStep ==
    ASSUME IInv, Sends, [Next]_vars
    PROVE  Sends'
<1>0. /\ Places /\ queue' = queue
      /\ sending # << >> => Last(sending) \in ToSet(sending)
      /\ m_ppSamples # << >> => Last(m_ppSamples) \in ToSet(m_ppSamples)
  BY LastOfBatch DEF IInv, TypeOK, Next, vars
<1>00. ReceiveDirect =>
          Last(Append(m_ppSamples, received')) \in ToSet(Append(m_ppSamples, received'))
  <2>1. SUFFICES ASSUME ReceiveDirect
                 PROVE  /\ Append(m_ppSamples, received') \in Seq(Nat \ {0})
                        /\ Append(m_ppSamples, received') # << >>
    BY LastOfBatch
  <2>2. m_ppSamples \in Seq(Nat \ {0}) /\ received' \in Nat \ {0}
    BY <2>1 DEF ReceiveDirect, IInv, TypeOK
  <2>. QED
    BY <2>2
<1>1. CASE Receive
  BY <1>0, <1>00, <1>1 DEF Receive, CanStream, Sends, Places, Queued, queueVars,
     threadVars, streamVars
<1>2. CASE SendAnyway
  BY <1>0, <1>00, <1>2 DEF SendAnyway, PostUnchanged, Sends, Places, Queued, queueVars,
     threadVars, streamVars
<1>3. CASE NewSegment
  BY <1>0, <1>00, <1>3 DEF NewSegment, PostUnchanged, Sends, Places, Queued, queueVars,
     threadVars, streamVars
<1>4. CASE EOS
  BY <1>0, <1>00, <1>4 DEF EOS, PostUnchanged, Sends, Places, Queued, queueVars,
     threadVars, streamVars
<1>5. CASE Reset
  BY <1>0, <1>00, <1>5 DEF Reset, PostUnchanged, Sends, Places, Queued, queueVars,
     threadVars, streamVars
<1>6. CASE ResetWait
  BY <1>0, <1>00, <1>6 DEF ResetWait, Sends, Places, Queued, queueVars, threadVars,
     streamVars
<1>7. CASE ReceiveDirect
  BY <1>0, <1>00, <1>7 DEF ReceiveDirect, CanStream, SendBatch, DirectUnchanged, Sends,
     Places, Queued, queueVars, threadVars, streamVars
<1>8. CASE DirectReturns
  BY <1>0, <1>00, <1>8 DEF DirectReturns, DirectUnchanged, Sends, Places, Queued,
     queueVars, threadVars, streamVars
<1>9. CASE ResetDirect
  BY <1>0, <1>00, <1>9 DEF ResetDirect, Sends, Places, Queued, queueVars, threadVars,
     streamVars
<1>10. CASE ThreadLock
  BY <1>0, <1>00, <1>10 DEF ThreadLock, Sends, Places, Queued, queueVars, threadVars,
     streamVars
<1>11. CASE ThreadTerminate
  BY <1>0, <1>00, <1>11 DEF ThreadTerminate, FreeSamples, Sends, Places, Queued, queueVars,
     threadVars, streamVars
<1>12. CASE ThreadFlush
  BY <1>0, <1>00, <1>12 DEF ThreadFlush, FreeSamples, Sends, Places, Queued, queueVars,
     threadVars, streamVars
<1>13. CASE TakeSample
  BY <1>0, <1>00, <1>13 DEF TakeSample, CanTake, Dispatch, Sends, Places, Queued,
     queueVars, threadVars, streamVars
<1>14. CASE TakeSpecial
  BY <1>0, <1>00, <1>14 DEF TakeSpecial, CanTake, Dispatch, Sends, Places, Queued,
     queueVars, threadVars, streamVars
<1>15. CASE TakeNothing
  BY <1>0, <1>00, <1>15 DEF TakeNothing, CanTake, Dispatch, Sends, Places, Queued,
     queueVars, threadVars, streamVars
<1>16. CASE ThreadWait
  BY <1>0, <1>00, <1>16 DEF ThreadWait, Sends, Places, Queued, queueVars, threadVars,
     streamVars
<1>17. CASE ThreadSend
  BY <1>0, <1>00, <1>17 DEF ThreadSend, Sends, Places, Queued, queueVars, threadVars,
     streamVars
<1>18. CASE ThreadReceived
  BY <1>0, <1>00, <1>18 DEF ThreadReceived, Sends, Places, Queued, queueVars, threadVars,
     streamVars
<1>19. CASE ThreadPacket
  BY <1>0, <1>00, <1>19 DEF ThreadPacket, Sends, Places, Queued, queueVars, threadVars,
     streamVars
<1>20. CASE BeginFlush
  BY <1>0, <1>00, <1>20 DEF BeginFlush, Discarding, FlushUnchanged, Sends, Places, Queued,
     queueVars, threadVars, streamVars
<1>21. CASE BeginFlushDirect
  BY <1>0, <1>00, <1>21 DEF BeginFlushDirect, FlushUnchanged, Sends, Places, Queued,
     queueVars, threadVars, streamVars
<1>22. CASE BeginFlushLock
  BY <1>0, <1>00, <1>22 DEF BeginFlushLock, Discarding, FlushUnchanged, Sends, Places,
     Queued, queueVars, threadVars, streamVars
<1>23. CASE BeginFlushDown
  BY <1>0, <1>00, <1>23 DEF BeginFlushDown, FlushUnchanged, Sends, Places, Queued,
     queueVars, threadVars, streamVars
<1>24. CASE EndFlush
  BY <1>0, <1>00, <1>24 DEF EndFlush, FlushUnchanged, Sends, Places, Queued, queueVars,
     threadVars, streamVars
<1>25. CASE EndFlushWait
  BY <1>0, <1>00, <1>25 DEF EndFlushWait, FlushUnchanged, Sends, Places, Queued, queueVars,
     threadVars, streamVars
<1>26. CASE EndFlushFree
  BY <1>0, <1>00, <1>26 DEF EndFlushFree, FreeSamples, Sends, Places, Queued, queueVars,
     threadVars, streamVars
<1>27. CASE EndFlushClear
  BY <1>0, <1>00, <1>27 DEF EndFlushClear, FlushUnchanged, Sends, Places, Queued,
     queueVars, threadVars, streamVars
<1>28. CASE EndFlushDown
  BY <1>0, <1>00, <1>28 DEF EndFlushDown, Sends, Places, Queued, queueVars, threadVars,
     streamVars
<1>29. CASE EndFlushDone
  BY <1>0, <1>00, <1>29 DEF EndFlushDone, FlushUnchanged, Sends, Places, Queued, queueVars,
     threadVars, streamVars
<1>30. CASE Join
  BY <1>0, <1>00, <1>30 DEF Join, Sends, Places, Queued, queueVars, threadVars, streamVars
<1>31. CASE Delete
  BY <1>0, <1>00, <1>31 DEF Delete, FreeSamples, Sends, Places, Queued, queueVars,
     threadVars, streamVars
<1>32. CASE \E p \in {SEND_PACKET, EOS_PACKET, NEW_SEGMENT} : SendDirect(p)
  BY <1>0, <1>00, <1>32 DEF SendDirect, CanStream, SendBatch, DirectUnchanged, Sends,
     Places, Queued, queueVars, threadVars, streamVars
<1>33. CASE UNCHANGED vars
  BY <1>0, <1>00, <1>33 DEF vars, Sends, Places, Queued, queueVars, threadVars, streamVars
<1>. QED
  BY <1>1, <1>2, <1>3, <1>4, <1>5, <1>6, <1>7, <1>8, <1>9, <1>10, <1>11, <1>12, <1>13,
     <1>14, <1>15, <1>16, <1>17, <1>18, <1>19, <1>20, <1>21, <1>22, <1>23, <1>24, <1>25,
     <1>26, <1>27, <1>28, <1>29, <1>30, <1>31, <1>32, <1>33
  DEF Next, Step, Stream, Thread, Flush

\* What EndFlush has been passed on for is over: all that came before is released.
LEMMA FreshStep ==
    ASSUME IInv, FlushPhases, Fresh, [Next]_vars
    PROVE  Fresh'
<1>1. /\ released \subseteq released' /\ received \in Nat
      /\ received' = received \/ received' = received + 1
  BY ReleasedStep DEF IInv, TypeOK
<1>2. firstNew' = firstNew \/ EndFlushDown
  <2>1. CASE Receive
    BY <2>1 DEF Receive, CanStream, appVars
  <2>2. CASE SendAnyway
    BY <2>2 DEF SendAnyway, PostUnchanged, appVars
  <2>3. CASE NewSegment
    BY <2>3 DEF NewSegment, PostUnchanged, appVars
  <2>4. CASE EOS
    BY <2>4 DEF EOS, PostUnchanged, appVars
  <2>5. CASE Reset
    BY <2>5 DEF Reset, PostUnchanged, appVars
  <2>6. CASE ResetWait
    BY <2>6 DEF ResetWait, appVars
  <2>7. CASE ReceiveDirect
    BY <2>7 DEF ReceiveDirect, CanStream, SendBatch, DirectUnchanged, appVars
  <2>8. CASE DirectReturns
    BY <2>8 DEF DirectReturns, DirectUnchanged, appVars
  <2>9. CASE ResetDirect
    BY <2>9 DEF ResetDirect, appVars
  <2>10. CASE ThreadLock
    BY <2>10 DEF ThreadLock, appVars
  <2>11. CASE ThreadTerminate
    BY <2>11 DEF ThreadTerminate, FreeSamples, appVars
  <2>12. CASE ThreadFlush
    BY <2>12 DEF ThreadFlush, FreeSamples, appVars
  <2>13. CASE TakeSample
    BY <2>13 DEF TakeSample, CanTake, Dispatch, appVars
  <2>14. CASE TakeSpecial
    BY <2>14 DEF TakeSpecial, CanTake, Dispatch, appVars
  <2>15. CASE TakeNothing
    BY <2>15 DEF TakeNothing, CanTake, Dispatch, appVars
  <2>16. CASE ThreadWait
    BY <2>16 DEF ThreadWait, appVars
  <2>17. CASE ThreadSend
    BY <2>17 DEF ThreadSend, appVars
  <2>18. CASE ThreadReceived
    BY <2>18 DEF ThreadReceived, appVars
  <2>19. CASE ThreadPacket
    BY <2>19 DEF ThreadPacket, appVars
  <2>20. CASE BeginFlush
    BY <2>20 DEF BeginFlush, Discarding, FlushUnchanged, appVars
  <2>21. CASE BeginFlushDirect
    BY <2>21 DEF BeginFlushDirect, FlushUnchanged, appVars
  <2>22. CASE BeginFlushLock
    BY <2>22 DEF BeginFlushLock, Discarding, FlushUnchanged, appVars
  <2>23. CASE BeginFlushDown
    BY <2>23 DEF BeginFlushDown, FlushUnchanged, appVars
  <2>24. CASE EndFlush
    BY <2>24 DEF EndFlush, FlushUnchanged, appVars
  <2>25. CASE EndFlushWait
    BY <2>25 DEF EndFlushWait, FlushUnchanged, appVars
  <2>26. CASE EndFlushFree
    BY <2>26 DEF EndFlushFree, FreeSamples, appVars
  <2>27. CASE EndFlushClear
    BY <2>27 DEF EndFlushClear, FlushUnchanged, appVars
  <2>28. CASE EndFlushDown
    BY <2>28
  <2>29. CASE EndFlushDone
    BY <2>29 DEF EndFlushDone, FlushUnchanged, appVars
  <2>30. CASE Join
    BY <2>30 DEF Join, appVars
  <2>31. CASE Delete
    BY <2>31 DEF Delete, FreeSamples, appVars
  <2>32. CASE \E p \in {SEND_PACKET, EOS_PACKET, NEW_SEGMENT} : SendDirect(p)
    BY <2>32 DEF SendDirect, CanStream, SendBatch, DirectUnchanged, appVars
  <2>33. CASE UNCHANGED vars
    BY <2>33 DEF vars, appVars
  <2>. QED
    BY <2>1, <2>2, <2>3, <2>4, <2>5, <2>6, <2>7, <2>8, <2>9, <2>10, <2>11, <2>12, <2>13,
       <2>14, <2>15, <2>16, <2>17, <2>18, <2>19, <2>20, <2>21, <2>22, <2>23, <2>24, <2>25,
       <2>26, <2>27, <2>28, <2>29, <2>30, <2>31, <2>32, <2>33
    DEF Next, Step, Stream, Thread, Flush
<1>3. CASE firstNew' = firstNew
  BY <1>1, <1>3 DEF Fresh
<1>4. CASE EndFlushDown
  <2>1. /\ firstNew' = received + 1 /\ received' = received /\ released = 1..received
    BY <1>4 DEF EndFlushDown, FlushPhases, AllReleased, streamVars
  <2>. QED
    BY <1>1, <2>1 DEF Fresh
<1>. QED
  BY <1>2, <1>3, <1>4

\* A queue that is not reset, or has no thread, sends nothing from before a flush
\* once EndFlush has been passed on, whatever was queued, batched or downstream when
\* the flush began (outputq.cpp lines 463 to 556).
THEOREM FlushedForGood == Spec => []NothingStale
<1>1. Init => (ResetsApart => FlushInv)
  <2> SUFFICES ASSUME Init PROVE FlushInv
    OBVIOUS
  <2>1. NoResets
    BY EmptyList DEF Init, NoResets, NULL, RESET_PACKET
  <2>2. FlushPhases /\ Sends /\ Fresh
    BY DEF Init, FlushPhases, AllReleased, Sends, Fresh
  <2>. QED
    BY <2>1, <2>2 DEF FlushInv
<1>2. IInv /\ (ResetsApart => FlushInv) /\ [Next]_vars => (ResetsApart => FlushInv)'
  <2> SUFFICES ASSUME IInv, ResetsApart', ResetsApart => FlushInv, [Next]_vars
               PROVE  FlushInv'
    OBVIOUS
  <2>1. ResetsApart
    BY DEF Next, vars, ResetsApart, Queued, Resets
  <2>. QED
    BY <2>1, NoResetsStep, FlushPhasesStep, SendsStep, FreshStep DEF FlushInv
<1>3. IInv /\ (ResetsApart => FlushInv) => NothingStale
  <2> SUFFICES ASSUME IInv, FlushInv, pcThread = "receive" \/ pcStream = "direct"
               PROVE  lastSent >= firstNew
    BY DEF NothingStale
  <2>1. lastSent \in SamplesIn(m_List) \cup ToSet(m_ppSamples) \cup ToSet(sending)
    BY DEF FlushInv, Sends
  <2>2. lastSent \notin released /\ lastSent \in 1..received /\ received \in Nat
    BY <2>1 DEF IInv, Accounted, TypeOK
  <2>. QED
    BY <2>2 DEF FlushInv, Fresh
<1>. QED
  BY <1>1, <1>2, <1>3, Invariance, PTL DEF Spec
=============================================================================
