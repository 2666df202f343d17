----------------------------- MODULE OutputQueue -----------------------------
(***************************************************************************)
(* COutputQueue: an output pin hands its samples to the queue, which sends *)
(* them downstream in batches, on a thread of its own (Queued) or on the   *)
(* caller's.                                                               *)
(*                                                                         *)
(*   - the streaming thread sends samples and the packets that travel in   *)
(*     order with them: SEND, EOS, RESET, NEW_SEGMENT (with its data);     *)
(*   - the application thread flushes and deletes.  As the comments ask,   *)
(*     nothing is sent between the return of BeginFlush and of EndFlush;   *)
(*   - the queue's thread takes packets under the lock, delivers without;  *)
(*   - the input pin downstream may block until it is flushed.             *)
(*                                                                         *)
(* A section of a caller that holds the lock throughout is one action; the *)
(* thread's, which loops, holds it over several.                           *)
(***************************************************************************)
EXTENDS Integers, SequencesExt

CONSTANTS BatchSize,       \* m_lBatchSize
          Configurations   \* the queues to look at: what each was made with, and
                           \* the bounds on what is done to it

\* What COutputQueue is made with: a thread or none, exact batches, the flushing
\* optimisation; the rest are what is done to it, and how much of it.
Queues == [queued : BOOLEAN, exact : BOOLEAN, optimised : BOOLEAN,
           resets : {"never", "alone", "free"}, samples : Nat, packets : Nat, flushes : Nat]

ASSUME ConfigurationsAssumption ==
    BatchSize \in Nat \ {0} /\ \A c \in Configurations : c \in Queues

VARIABLE queue   \* the configuration

Queued      == queue.queued      \* is there a thread
BatchExact  == queue.exact       \* m_bBatchExact
FlushingOpt == queue.optimised   \* m_bFlushingOpt
Resets      == queue.resets      \* is Reset called: "never", "alone" (no flush
                                 \* meanwhile), "free"
MaxSamples  == queue.samples     \* bound: samples ever received
MaxPackets  == queue.packets     \* bound: packets on the list
MaxFlushes  == queue.flushes     \* bound: flushes

Samples == UNION {1..c.samples : c \in Configurations}
NULL         == 0
SEND_PACKET  == -2
EOS_PACKET   == -3
RESET_PACKET == -4
NEW_SEGMENT  == -5
IsSpecialSample(p) == p < 0

VARIABLES
    m_List, m_ppSamples,     \* packets queued; the batch (its length is m_nBatched)
    m_lWaiting, m_hSem,      \* the waiting count, the semaphore
    m_bFlushing, m_bFlushed, m_bTerminate, m_hr, m_evFlushComplete,
    lock,                    \* "free", or who holds the critical section
    pcThread, pSample, sending,  \* the thread, its packet, the batch it sends
    pcStream, then,          \* the streaming thread; what a direct send is for
    pcApp, flushes,          \* the application thread
    downFlushing,            \* is the pin downstream flushing
    received, released,      \* samples received so far; samples released
    firstNew, lastSent       \* history: first sample since EndFlush; last one sent

queueVars  == <<m_List, m_ppSamples, sending, released, lastSent>>
waitVars   == <<m_lWaiting, m_hSem>>
stateVars  == <<m_bFlushing, m_bFlushed, m_bTerminate, m_hr, m_evFlushComplete>>
threadVars == <<pcThread, pSample>>
streamVars == <<pcStream, then, received>>
appVars    == <<pcApp, flushes, downFlushing, firstNew>>
vars == <<queue, queueVars, waitVars, stateVars, lock, threadVars, streamVars, appVars>>

Init ==
    /\ queue \in Configurations
    /\ m_List = << >> /\ m_ppSamples = << >> /\ sending = << >>
    /\ released = {} /\ lastSent = 0
    /\ m_lWaiting = 0 /\ m_hSem = 0
    /\ m_bFlushing = FALSE /\ m_bFlushed = TRUE /\ m_bTerminate = FALSE
    /\ m_hr = "S_OK" /\ m_evFlushComplete = FALSE
    /\ lock = "free" /\ pcThread = (IF Queued THEN "top" ELSE "none") /\ pSample = NULL
    /\ pcStream = "idle" /\ then = NULL /\ received = 0
    /\ pcApp = "idle" /\ flushes = 0 /\ downFlushing = FALSE /\ firstNew = 1

SamplesIn(s) == {p \in ToSet(s) : ~IsSpecialSample(p)}

NotifyThread == m_hSem' = m_hSem + m_lWaiting /\ m_lWaiting' = 0

\* FreeSamples: what is queued and what is batched is released.
FreeSamples ==
    /\ released' = released \cup SamplesIn(m_List) \cup ToSet(m_ppSamples)
    /\ m_List' = << >> /\ m_ppSamples' = << >>
-----------------------------------------------------------------------------
\* The streaming thread, with a queue.

CanStream == pcStream = "idle" /\ lock = "free" /\ pcApp \in {"idle", "begin", "beginLock"}

\* QueueSample and NotifyThread.
Post(packets) == m_List' = m_List \o packets /\ NotifyThread

\* ReceiveMultiple of one sample: released when m_hr is not S_OK, else queued.
Receive ==
    /\ Queued /\ CanStream /\ received < MaxSamples /\ Len(m_List) < MaxPackets
    /\ received' = received + 1
    /\ IF m_hr # "S_OK"
       THEN released' = released \cup {received'} /\ UNCHANGED <<m_List, waitVars, m_bFlushed>>
       ELSE /\ m_bFlushed' = FALSE /\ m_List' = Append(m_List, received')
            /\ IF BatchExact => Len(m_ppSamples) + Len(m_List') >= BatchSize
               THEN NotifyThread ELSE UNCHANGED waitVars
            /\ UNCHANGED released
    /\ UNCHANGED <<m_ppSamples, sending, lastSent, m_bFlushing, m_bTerminate, m_hr,
                   m_evFlushComplete, lock, threadVars, pcStream, then, appVars>>

PostUnchanged == <<m_ppSamples, sending, released, lastSent, m_bFlushing, m_bTerminate,
                   m_hr, m_evFlushComplete, lock, threadVars, then, received, appVars>>

SendAnyway ==
    /\ Queued /\ CanStream /\ Len(m_List) < MaxPackets
    /\ Post(<<SEND_PACKET>>)
    /\ UNCHANGED <<PostUnchanged, m_bFlushed, pcStream>>

NewSegment ==
    /\ Queued /\ CanStream /\ Len(m_List) < MaxPackets /\ m_hr = "S_OK"
    /\ Post(<<NEW_SEGMENT>>)
    /\ UNCHANGED <<PostUnchanged, m_bFlushed, pcStream>>

EOS ==
    /\ Queued /\ CanStream /\ Len(m_List) < MaxPackets /\ m_hr = "S_OK"
    /\ m_bFlushed' = FALSE
    /\ Post(<<EOS_PACKET>>)
    /\ UNCHANGED <<PostUnchanged, pcStream>>

Reset ==
    /\ Queued /\ CanStream /\ Len(m_List) < MaxPackets
    /\ Resets \in {"alone", "free"} /\ (Resets = "alone" => pcApp = "idle")
    /\ Post(<<RESET_PACKET>>)
    /\ pcStream' = "reset"
    /\ UNCHANGED <<PostUnchanged, m_bFlushed>>

ResetWait ==
    /\ pcStream = "reset" /\ m_evFlushComplete
    /\ m_evFlushComplete' = FALSE /\ pcStream' = "idle"
    /\ UNCHANGED <<queueVars, waitVars, m_bFlushing, m_bFlushed, m_bTerminate, m_hr, lock,
                   threadVars, then, received, appVars>>
-----------------------------------------------------------------------------
\* The queue's thread: one turn of the inner loop, which holds the lock.

ThreadLock ==
    /\ pcThread = "top" /\ lock = "free"
    /\ lock' = "thread" /\ pcThread' = "take"
    /\ UNCHANGED <<queueVars, waitVars, stateVars, pSample, streamVars, appVars>>

ThreadTerminate ==
    /\ pcThread = "take" /\ m_bTerminate
    /\ FreeSamples
    /\ lock' = "free" /\ pcThread' = "none" /\ pSample' = NULL
    /\ UNCHANGED <<sending, lastSent, waitVars, stateVars, streamVars, appVars>>

\* A flush empties the list; then there is nothing to take, and it waits.
ThreadFlush ==
    /\ pcThread = "take" /\ ~m_bTerminate /\ m_bFlushing
    /\ FreeSamples
    /\ m_evFlushComplete' = TRUE
    /\ m_lWaiting' = m_lWaiting + 1 /\ pcThread' = "wait" /\ lock' = "free"
    /\ pSample' = NULL
    /\ UNCHANGED <<sending, lastSent, m_hSem, m_bFlushing, m_bFlushed, m_bTerminate, m_hr,
                   streamVars, appVars>>

\* What is taken off the list, NULL if it is empty.
Taken == IF m_List = << >> THEN NULL ELSE Head(m_List)

CanTake == pcThread = "take" /\ ~m_bTerminate /\ ~m_bFlushing

\* The batch leaves the critical section.
Dispatch(batch) ==
    /\ sending' = batch /\ m_ppSamples' = << >>
    /\ lock' = "free" /\ pcThread' = "send"

\* A sample goes into the batch, and is no packet to come behind it.
TakeSample ==
    /\ CanTake /\ Taken \in Samples
    /\ m_List' = Tail(m_List) /\ pSample' = NULL
    /\ IF Len(m_ppSamples) + 1 = BatchSize
       THEN Dispatch(Append(m_ppSamples, Taken))
       ELSE /\ m_ppSamples' = Append(m_ppSamples, Taken)
            /\ UNCHANGED <<sending, lock, pcThread>>
    /\ UNCHANGED <<released, lastSent, waitVars, stateVars, streamVars, appVars>>

\* Fault: end of stream does not wait for the batch before it.
TakeSpecialFirst ==
    /\ CanTake /\ IsSpecialSample(Taken)
    /\ m_List' = Tail(m_List) /\ pSample' = Taken
    /\ IF Taken = SEND_PACKET /\ m_ppSamples = << >>
       THEN UNCHANGED <<m_ppSamples, sending, lock, pcThread>>
       ELSE lock' = "free" /\ pcThread' = "send" /\ UNCHANGED <<sending, m_ppSamples>>
    /\ UNCHANGED <<released, lastSent, waitVars, stateVars, streamVars, appVars>>

\* Every special packet sends the batch before it; SEND without a batch is nothing.
TakeSpecial ==
    /\ CanTake /\ IsSpecialSample(Taken)
    /\ m_List' = Tail(m_List)
    /\ IF Taken = SEND_PACKET /\ m_ppSamples = << >>
       THEN pSample' = NULL /\ UNCHANGED <<m_ppSamples, sending, lock, pcThread>>
       ELSE pSample' = Taken /\ Dispatch(m_ppSamples)
    /\ UNCHANGED <<released, lastSent, waitVars, stateVars, streamVars, appVars>>

TakeNothing ==
    /\ CanTake /\ Taken = NULL /\ pSample' = NULL
    /\ IF BatchExact \/ m_ppSamples = << >>
       THEN /\ m_lWaiting' = m_lWaiting + 1
            /\ lock' = "free" /\ pcThread' = "wait" /\ UNCHANGED <<m_ppSamples, sending>>
       ELSE Dispatch(m_ppSamples) /\ UNCHANGED m_lWaiting
    /\ UNCHANGED <<m_List, released, lastSent, m_hSem, stateVars, streamVars, appVars>>

ThreadWait ==
    /\ pcThread = "wait" /\ m_hSem > 0
    /\ m_hSem' = m_hSem - 1 /\ pcThread' = "top"
    /\ UNCHANGED <<queueVars, m_lWaiting, stateVars, lock, pSample, streamVars, appVars>>
-----------------------------------------------------------------------------
\* The thread without the lock: the batch, then the packet behind it.

\* Fault: a batch that is not sent is not released either.
ThreadSendDrops ==
    /\ pcThread = "send"
    /\ IF sending # << >> /\ m_hr = "S_OK"
       THEN pcThread' = "receive" /\ lastSent' = Last(sending) /\ UNCHANGED sending
       ELSE pcThread' = "packet" /\ sending' = << >> /\ UNCHANGED lastSent
    /\ UNCHANGED <<released, m_List, m_ppSamples, waitVars, stateVars, lock, pSample,
                   streamVars, appVars>>

ThreadSend ==
    /\ pcThread = "send"
    /\ IF sending # << >> /\ m_hr = "S_OK"
       THEN pcThread' = "receive" /\ lastSent' = Last(sending) /\ UNCHANGED <<sending, released>>
       ELSE /\ pcThread' = "packet" /\ sending' = << >>
            /\ released' = released \cup ToSet(sending) /\ UNCHANGED lastSent
    /\ UNCHANGED <<m_List, m_ppSamples, waitVars, stateVars, lock, pSample, streamVars,
                   appVars>>

\* ReceiveMultiple downstream returns: S_FALSE from a pin that flushes, an error
\* from one that has one.
Results == IF downFlushing THEN {"S_FALSE"} ELSE {"S_OK", "error"}

\* A flush that has begun keeps its m_hr.
ThreadReceived ==
    /\ pcThread = "receive" /\ lock = "free"
    /\ \E hr \in Results : m_hr' = IF m_hr = "S_OK" THEN hr ELSE m_hr
    /\ released' = released \cup ToSet(sending) /\ sending' = << >>
    /\ pcThread' = "packet"
    /\ UNCHANGED <<m_List, m_ppSamples, lastSent, waitVars, m_bFlushing, m_bFlushed,
                   m_bTerminate, m_evFlushComplete, lock, pSample, streamVars, appVars>>

\* EndOfStream and NewSegment change nothing here.
ThreadPacket ==
    /\ pcThread = "packet" /\ pcThread' = "top" /\ pSample' = NULL
    /\ IF pSample = RESET_PACKET
       THEN m_hr' = "S_OK" /\ m_evFlushComplete' = TRUE
       ELSE UNCHANGED <<m_hr, m_evFlushComplete>>
    /\ UNCHANGED <<queueVars, waitVars, m_bFlushing, m_bFlushed, m_bTerminate, lock,
                   streamVars, appVars>>
-----------------------------------------------------------------------------
\* The streaming thread without a queue: the lock is held while downstream is called.

DirectUnchanged == <<m_List, sending, waitVars, threadVars, m_bFlushing, m_bTerminate,
                     m_evFlushComplete, appVars>>

\* A full batch, or any batch on SendAnyway, goes downstream.
SendBatch(batch, after) ==
    /\ m_ppSamples' = batch /\ then' = after
    /\ pcStream' = "direct" /\ lock' = "stream" /\ lastSent' = Last(batch)

ReceiveDirect ==
    /\ ~Queued /\ CanStream /\ received < MaxSamples
    /\ received' = received + 1
    /\ IF m_hr # "S_OK"
       THEN /\ released' = released \cup {received'}
            /\ UNCHANGED <<m_bFlushed, m_ppSamples, then, pcStream, lock, lastSent>>
       ELSE /\ m_bFlushed' = FALSE /\ UNCHANGED released
            /\ IF Len(m_ppSamples) + 1 = BatchSize
               THEN SendBatch(Append(m_ppSamples, received'), NULL)
               ELSE /\ m_ppSamples' = Append(m_ppSamples, received')
                    /\ UNCHANGED <<then, pcStream, lock, lastSent>>
    /\ UNCHANGED <<DirectUnchanged, m_hr>>

\* SendAnyway, or EOS and NewSegment, which send an exact batch first.
SendDirect(packet) ==
    /\ ~Queued /\ CanStream /\ m_hr = "S_OK" /\ m_ppSamples # << >>
    /\ m_bFlushed' = FALSE
    /\ SendBatch(m_ppSamples, packet)
    /\ UNCHANGED <<DirectUnchanged, received, released, m_hr>>

DirectReturns ==
    /\ pcStream = "direct"
    /\ m_hr' \in Results
    /\ released' = released \cup ToSet(m_ppSamples) /\ m_ppSamples' = << >>
    /\ pcStream' = "idle" /\ then' = NULL /\ lock' = "free"
    /\ UNCHANGED <<DirectUnchanged, m_bFlushed, received, lastSent>>

ResetDirect ==
    /\ ~Queued /\ Resets # "never" /\ pcStream = "idle" /\ pcApp = "idle"
    /\ m_hr' = "S_OK"
    /\ UNCHANGED <<queueVars, waitVars, m_bFlushing, m_bFlushed, m_bTerminate,
                   m_evFlushComplete, lock, threadVars, streamVars, appVars>>
-----------------------------------------------------------------------------
\* The application: BeginFlush and EndFlush.

FlushUnchanged == <<queueVars, lock, threadVars, streamVars, firstNew, m_bTerminate>>

Discarding == m_hr' = IF m_hr = "S_OK" THEN "S_FALSE" ELSE m_hr

\* Fault: a thread that waits is not woken for the flush.
BeginFlushSilently ==
    /\ Queued /\ pcApp = "idle" /\ lock = "free" /\ flushes < MaxFlushes
    /\ Resets = "alone" => pcStream # "reset"
    /\ flushes' = flushes + 1
    /\ m_bFlushing' = TRUE /\ Discarding
    /\ IF m_bFlushed /\ FlushingOpt
       THEN pcApp' = "flushing" /\ UNCHANGED <<m_evFlushComplete, waitVars>>
       ELSE pcApp' = "begin" /\ m_evFlushComplete' = FALSE /\ UNCHANGED waitVars
    /\ UNCHANGED <<FlushUnchanged, m_bFlushed, downFlushing>>

\* With a queue: the optimisation ends it here when nothing came since the last.
BeginFlush ==
    /\ Queued /\ pcApp = "idle" /\ lock = "free" /\ flushes < MaxFlushes
    /\ Resets = "alone" => pcStream # "reset"
    /\ flushes' = flushes + 1
    /\ m_bFlushing' = TRUE /\ Discarding
    /\ IF m_bFlushed /\ FlushingOpt
       THEN pcApp' = "flushing" /\ UNCHANGED <<m_evFlushComplete, waitVars>>
       ELSE pcApp' = "begin" /\ m_evFlushComplete' = FALSE /\ NotifyThread
    /\ UNCHANGED <<FlushUnchanged, m_bFlushed, downFlushing>>

\* Without one: downstream first.
BeginFlushDirect ==
    /\ ~Queued /\ pcApp = "idle" /\ flushes < MaxFlushes
    /\ flushes' = flushes + 1
    /\ downFlushing' = TRUE /\ pcApp' = "beginLock"
    /\ UNCHANGED <<FlushUnchanged, waitVars, m_bFlushing, m_bFlushed, m_hr,
                   m_evFlushComplete>>

BeginFlushLock ==
    /\ pcApp = "beginLock" /\ lock = "free"
    /\ m_bFlushing' = TRUE /\ Discarding
    /\ pcApp' = "flushing"
    /\ UNCHANGED <<FlushUnchanged, waitVars, flushes, downFlushing, m_bFlushed,
                   m_evFlushComplete>>

BeginFlushDown ==
    /\ pcApp = "begin"
    /\ downFlushing' = TRUE /\ pcApp' = "flushing"
    /\ UNCHANGED <<FlushUnchanged, waitVars, flushes, m_bFlushing, m_bFlushed, m_hr,
                   m_evFlushComplete>>

\* EndFlush, in the order of the code; a call in progress has returned by then.
EndFlush ==
    /\ pcApp = "flushing" /\ pcStream = "idle" /\ lock = "free"
    /\ IF FlushingOpt /\ m_bFlushed /\ Queued
       THEN /\ m_bFlushing' = FALSE /\ m_hr' = "S_OK" /\ pcApp' = "idle"
       ELSE /\ pcApp' = "end" /\ UNCHANGED <<m_bFlushing, m_hr>>
    /\ UNCHANGED <<FlushUnchanged, waitVars, flushes, downFlushing, m_bFlushed,
                   m_evFlushComplete>>

EndFlushWait ==
    /\ pcApp = "end" /\ Queued /\ m_evFlushComplete
    /\ m_evFlushComplete' = FALSE /\ pcApp' = "clear"
    /\ UNCHANGED <<FlushUnchanged, waitVars, flushes, downFlushing, m_bFlushing, m_bFlushed,
                   m_hr>>

\* Fault: the batch outlives the flush.
EndFlushKeepsBatch ==
    /\ pcApp = "end" /\ ~Queued /\ lock = "free"
    /\ pcApp' = "clear"
    /\ UNCHANGED <<queueVars, waitVars, stateVars, lock, threadVars, streamVars, flushes,
                   downFlushing, firstNew>>

EndFlushFree ==
    /\ pcApp = "end" /\ ~Queued /\ lock = "free"
    /\ FreeSamples /\ pcApp' = "clear"
    /\ UNCHANGED <<sending, lastSent, waitVars, stateVars, lock, threadVars, streamVars,
                   flushes, downFlushing, firstNew>>

EndFlushClear ==
    /\ pcApp = "clear"
    /\ m_bFlushing' = FALSE /\ m_bFlushed' = TRUE /\ pcApp' = "endDown"
    /\ UNCHANGED <<FlushUnchanged, waitVars, flushes, downFlushing, m_hr, m_evFlushComplete>>

EndFlushDown ==
    /\ pcApp = "endDown"
    /\ downFlushing' = FALSE /\ firstNew' = received + 1 /\ pcApp' = "hr"
    /\ UNCHANGED <<queueVars, waitVars, stateVars, lock, threadVars, streamVars, flushes>>

EndFlushDone ==
    /\ pcApp = "hr"
    /\ m_hr' = "S_OK" /\ pcApp' = "idle"
    /\ UNCHANGED <<FlushUnchanged, waitVars, flushes, downFlushing, m_bFlushing, m_bFlushed,
                   m_evFlushComplete>>

\* The destructor tells the thread to end and waits for it.
Delete ==
    /\ pcApp = "idle" /\ pcStream = "idle" /\ lock = "free"
    /\ IF Queued
       THEN /\ m_bTerminate' = TRUE /\ m_hr' = "S_FALSE" /\ NotifyThread
            /\ pcApp' = "join"
            /\ UNCHANGED <<m_List, m_ppSamples, released>>
       ELSE /\ FreeSamples /\ pcApp' = "gone" /\ UNCHANGED <<m_bTerminate, m_hr, waitVars>>
    /\ UNCHANGED <<sending, lastSent, m_bFlushing, m_bFlushed, m_evFlushComplete, lock,
                   threadVars, streamVars, flushes, downFlushing, firstNew>>

Join ==
    /\ pcApp = "join" /\ pcThread = "none"
    /\ pcApp' = "gone"
    /\ UNCHANGED <<queueVars, waitVars, stateVars, lock, threadVars, streamVars, flushes,
                   downFlushing, firstNew>>
-----------------------------------------------------------------------------
Stream == \/ Receive \/ SendAnyway \/ NewSegment \/ EOS \/ Reset \/ ResetWait
          \/ ReceiveDirect \/ DirectReturns \/ ResetDirect
          \/ \E p \in {SEND_PACKET, EOS_PACKET, NEW_SEGMENT} : SendDirect(p)

Thread == \/ ThreadLock \/ ThreadTerminate \/ ThreadFlush \/ TakeSample \/ TakeSpecial
          \/ TakeNothing \/ ThreadWait \/ ThreadSend \/ ThreadReceived \/ ThreadPacket

Flush == \/ BeginFlushLock \/ BeginFlushDown \/ EndFlush \/ EndFlushWait \/ EndFlushFree
         \/ EndFlushClear \/ EndFlushDown \/ EndFlushDone \/ Join

Step == Stream \/ Thread \/ BeginFlush \/ BeginFlushDirect \/ Flush \/ Delete

Next == Step /\ UNCHANGED queue

Spec == Init /\ [][Next]_vars

\* Threads that can run do; the pin downstream returns when it is flushed, and
\* is not trusted to otherwise.
FairSpec ==
    /\ Spec /\ WF_vars(Flush /\ UNCHANGED queue)
    /\ WF_vars(ResetWait /\ UNCHANGED queue)
    /\ WF_vars(Thread /\ (pcThread = "receive" => downFlushing) /\ UNCHANGED queue)
    /\ WF_vars(DirectReturns /\ downFlushing /\ UNCHANGED queue)
-----------------------------------------------------------------------------
\* "On return all samples will have been Release()'d" (line 591), in the end:
\* a sample is queued, batched, being sent or released, and only one of these.
EachSampleOnce ==
    LET places == sending \o m_ppSamples \o m_List IN
    /\ SamplesIn(places) \cup released = 1..received
    /\ SamplesIn(places) \cap released = {}
    /\ \A a, b \in DOMAIN places :
           places[a] = places[b] /\ ~IsSpecialSample(places[a]) => a = b

\* Samples go downstream in the order in which they came, and a packet goes
\* behind every sample that was queued before it.
InOrder ==
    LET places == sending \o m_ppSamples \o m_List
        Sample(k) == ~IsSpecialSample(places[k])
    IN  /\ \A a, b \in DOMAIN places :
               Sample(a) /\ Sample(b) /\ a < b => places[a] < places[b]
        /\ pcThread # "receive" /\ pcStream # "direct" =>
               \A a \in DOMAIN places : Sample(a) => lastSent < places[a]
        /\ pcThread = "packet" /\ IsSpecialSample(pSample) => m_ppSamples = << >>

\* The queue is reset only if it has no thread.
ResetsApart == Queued => Resets = "never"

\* A sample from before a flush is not sent after EndFlush has been passed on.
NothingStale ==
    ResetsApart /\ ~downFlushing /\ (pcThread = "receive" \/ pcStream = "direct") /\ pcApp \in {"idle", "hr"}
        => lastSent >= firstNew

\* A flush that is under way, or a sample on the list while the pin downstream does
\* not hold the thread up.  (Without exact batches, which wait for more.)
Unfinished ==
    \/ pcApp \in {"begin", "beginLock", "end"}
    \/ ~BatchExact /\ SamplesIn(m_List) # {} /\ pcThread # "receive"

\* A flush gets through, whatever blocks downstream; and the samples that are queued
\* leave the queue, or the pin downstream holds the thread up.
GetsThrough == Unfinished ~> ~Unfinished

-----------------------------------------------------------------------------
\* What carries EachSampleOnce and InOrder from step to step.

Packets == (Nat \ {0}) \cup {SEND_PACKET, EOS_PACKET, RESET_PACKET, NEW_SEGMENT}

TypeOK ==
    /\ queue \in Configurations
    /\ m_List \in Seq(Packets)
    /\ m_ppSamples \in Seq(Nat \ {0}) /\ sending \in Seq(Nat \ {0})
    /\ received \in Nat /\ lastSent \in 0..received

\* Who holds samples when: the thread keeps a batch only until it dispatches one,
\* and without a thread the batch stays where it is while it is sent.
Places ==
    /\ Queued => pcStream # "direct"
    /\ ~Queued => pcThread = "none" /\ pcStream # "reset" /\ m_List = << >>
    /\ pcThread \notin {"send", "receive"} => sending = << >>
    /\ pcThread \in {"send", "receive", "packet"} => m_ppSamples = << >>
    /\ pcStream = "direct" => lock = "stream"

\* Everything that is held and what was released.
Accounted ==
    LET held == SamplesIn(m_List) \cup ToSet(m_ppSamples) \cup ToSet(sending) IN
    /\ held \cup released = 1..received
    /\ held \cap released = {}

Ascending(s) ==
    \A a, b \in DOMAIN s :
        ~IsSpecialSample(s[a]) /\ ~IsSpecialSample(s[b]) /\ a < b => s[a] < s[b]
Before(earlier, later) == \A m \in earlier, n \in later : m < n

Order ==
    /\ Ascending(m_List) /\ Ascending(m_ppSamples) /\ Ascending(sending)
    /\ Before(ToSet(m_ppSamples) \cup ToSet(sending), SamplesIn(m_List))
    /\ Before({lastSent}, SamplesIn(m_List))
    /\ pcThread # "receive" => Before({lastSent}, ToSet(sending))
    /\ pcStream # "direct" => Before({lastSent}, ToSet(m_ppSamples))

IInv == TypeOK /\ Places /\ Accounted /\ Order

\* What carries NothingStale: where the queue is not reset, nothing is held from the
\* time a flush is complete until EndFlush has been passed on, and what comes after
\* that is new.
AllReleased == released = 1..received

NoResets == Queued => RESET_PACKET \notin ToSet(m_List) /\ pSample # RESET_PACKET

FlushPhases ==
    /\ Queued => pcApp # "beginLock"
    /\ Queued /\ pcApp \in {"begin", "flushing", "end"} =>
           m_hr # "S_OK" /\ (m_evFlushComplete => AllReleased)
    /\ Queued /\ m_bFlushed => AllReleased
    /\ pcApp \in {"clear", "endDown", "hr"} => AllReleased

Sends ==
    /\ pcThread = "receive" => lastSent \in ToSet(sending)
    /\ pcStream = "direct" => lastSent \in ToSet(m_ppSamples)

Fresh == firstNew \in 1..received + 1 /\ 1..firstNew - 1 \subseteq released

FlushInv == NoResets /\ FlushPhases /\ Sends /\ Fresh
=============================================================================
