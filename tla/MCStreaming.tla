---------------------------- MODULE MCStreaming -----------------------------
(***************************************************************************)
(* Instances for TLC of the parts of the base classes that streaming       *)
(* threads run through: the allocator, which is the module this one        *)
(* extends, the pull pin, the dynamic output pin and the renderer. They    *)
(* share no state here, so "part" says which one takes the steps of a      *)
(* behaviour and the others stay at rest: every behaviour of each is       *)
(* explored, and none of their products.                                   *)
(***************************************************************************)
EXTENDS MemAllocator

CONSTANTS Readers, MaxCalls

CONSTANTS Callers, MaxUsers, MaxSwitches

ASSUME ReadersAssumption ==
    \A r \in Readers :
        /\ r.duration \in Nat /\ {r.align, r.size, r.buffers} \subseteq Nat \ {0}
        /\ r.sync \in BOOLEAN /\ r.size % r.align = 0

MCReaders ==    \* overlapped, overlapped with one buffer, synchronous and unaligned
    { [duration |-> 3, align |-> 2, size |-> 2, buffers |-> 2, sync |-> FALSE],
      [duration |-> 3, align |-> 1, size |-> 1, buffers |-> 1, sync |-> FALSE],
      [duration |-> 3, align |-> 2, size |-> 4, buffers |-> 1, sync |-> TRUE] }

VARIABLE part    \* the component that takes the steps

VARIABLES reader, m_pullState, m_tStart, m_tStop, target, pullConnected, pullPcApp,
          goal, calls, request, answered, pcThread, play, tCurrent, sample, first, hr,
          queue, pullFlushing, pullCommitted, free, held, delivered, eos, refused
PullPin == INSTANCE PullPin WITH
      m_State <- m_pullState, connected <- pullConnected, pcApp <- pullPcApp,
      flushing <- pullFlushing, committed <- pullCommitted
PullPinvars == <<reader, m_pullState, m_tStart, m_tStop, target, pullConnected,
                 pullPcApp, goal, calls, request, answered, pcThread, play, tCurrent,
                 sample, first, hr, queue, pullFlushing, pullCommitted, free, held,
                 delivered, eos, refused>>

VARIABLES m_BlockState, m_dwNumOutstandingOutputPinUsers,
          m_hNotifyCallerPinBlockedEvent, m_dwBlockCallerThreadID,
          m_hUnblockOutputPinEvent, m_hStopEvent, events, pcCaller, pcStream, woken,
          m_mt, peer, dynamicCommitted, active, switches
DynamicPin == INSTANCE DynamicPin WITH
      committed <- dynamicCommitted
DynamicPinvars == <<m_BlockState, m_dwNumOutstandingOutputPinUsers,
                    m_hNotifyCallerPinBlockedEvent, m_dwBlockCallerThreadID,
                    m_hUnblockOutputPinEvent, m_hStopEvent, events, pcCaller, pcStream,
                    woken, m_mt, peer, dynamicCommitted, active, switches>>

ASSUME CallersAssumption ==
    DynamicPin!Nobody \notin Callers /\ MaxUsers \in Nat \ {0} /\ MaxSwitches \in Nat

VARIABLES m_rendererState, rendererConnected, rendererFlushing, rendererCommitted,
          m_bStreaming, m_bAbort, m_bRunTimeError, m_bRepaintStatus, m_bEOS,
          m_bEOSDelivered, m_EndOfStreamTimer, m_pMediaSample, m_dwAdvise, advises,
          m_RenderEvent, m_ThreadSignal, m_evComplete, m_bInReceive, pcReceive, holder,
          completes
Renderer == INSTANCE Renderer WITH
      m_State <- m_rendererState, connected <- rendererConnected,
      flushing <- rendererFlushing, committed <- rendererCommitted
Renderervars == <<m_rendererState, rendererConnected, rendererFlushing,
                  rendererCommitted, m_bStreaming, m_bAbort, m_bRunTimeError,
                  m_bRepaintStatus, m_bEOS, m_bEOSDelivered, m_EndOfStreamTimer,
                  m_pMediaSample, m_dwAdvise, advises, m_RenderEvent, m_ThreadSignal,
                  m_evComplete, m_bInReceive, pcReceive, holder, completes>>

components == <<vars, PullPinvars, DynamicPinvars, Renderervars>>

Parts == {"PullPin", "Allocator", "DynamicPin", "Renderer"}

\* A part that takes no steps has one initial state, and nothing is asked of it.
MCInit ==
    /\ part \in Parts
    /\ Init
    /\ PullPin!Init
    /\ part = "PullPin" \/ reader = CHOOSE r \in Readers : TRUE
    /\ DynamicPin!Init
    /\ Renderer!Init

MCNext ==
    /\ UNCHANGED part
    /\ IF part = "Allocator" THEN Next ELSE UNCHANGED vars
    /\ IF part = "PullPin" THEN PullPin!Next ELSE UNCHANGED PullPinvars
    /\ IF part = "DynamicPin" THEN DynamicPin!Next ELSE UNCHANGED DynamicPinvars
    /\ IF part = "Renderer" THEN Renderer!Next ELSE UNCHANGED Renderervars

\* The fairness of each; nothing of it is enabled in a part at rest.
MCSpec ==
    /\ MCInit /\ [][MCNext]_<<part, components>>
    /\ Fairness /\ PullPin!Fairness /\ DynamicPin!Fairness /\ Renderer!Fairness
-----------------------------------------------------------------------------
\* What is read is delivered without a gap, once, and to the stop, while the reader
\* flushes when it is asked to, and the pull pin's buffers are with its reader, its
\* thread or the receiver (pullpin.cpp lines 186 to 470).
Contiguous == part = "PullPin" => PullPin!Contiguous /\ PullPin!BuffersAccounted

\* Blocking, unblocking and using a dynamic pin leave it in a valid state
\* (amfilter.cpp lines 4496 to 4516).
BlockStateValid == part = "DynamicPin" => DynamicPin!BlockStateValid

\* The end of a stream is reported once, and after its samples (renbase.cpp lines
\* 1252 to 1324).
CompleteOnce == part = "Renderer" => Renderer!CompleteOnce

\* What is waited for, in each part by up to two who do not wait for each other.
SomebodyWaits(k) ==
    CASE part = "PullPin" -> k = 1 /\ PullPin!Waits
      [] part = "Allocator" -> Waits(k)
      [] part = "DynamicPin" -> DynamicPin!Waits(k)
      [] part = "Renderer" -> Renderer!Waits(k)

\* Whoever waits is released: a pull pin's seek or stop while its reader hangs but
\* flushes when it is asked to, a thread in GetBuffer when the allocator is
\* decommitted, a Block that waits for the streaming thread, a renderer's Stop and
\* flush that wait for Receive.  The end of the stream is reported at last, and an
\* allocator nobody needs is deleted.
CallsReturn == \A k \in 1..2 : SomebodyWaits(k) ~> ~SomebodyWaits(k)
=============================================================================
