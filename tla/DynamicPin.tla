----------------------------- MODULE DynamicPin -----------------------------
(***************************************************************************)
(* CDynamicOutputPin: an output pin that can be blocked, and given another *)
(* type, while data flows.                                                 *)
(*                                                                         *)
(*   - the streaming thread brackets what it does with the pin in          *)
(*     StartUsingOutputPin and StopUsingOutputPin, and may nest these;     *)
(*   - application threads block the pin, with or without waiting, and     *)
(*     unblock it; they also start, stop and flush the filter.             *)
(*                                                                         *)
(* What is done under m_BlockStateLock is one action; StartUsingOutputPin  *)
(* leaves the lock to wait.  A change of type is a step for each call that *)
(* may fail.                                                               *)
(***************************************************************************)
EXTENDS Integers, FiniteSets

CONSTANTS Callers,      \* application threads
          MaxUsers,     \* bound: how deep the streaming thread nests
          MaxSwitches   \* bound: starts, stops and flushes

Nobody == 0
Types == {"old", "new"}

VARIABLES
    m_BlockState, m_dwNumOutstandingOutputPinUsers,
    m_hNotifyCallerPinBlockedEvent,   \* whose event it is
    m_dwBlockCallerThreadID,
    m_hUnblockOutputPinEvent, m_hStopEvent,   \* are they signalled
    events,                  \* callers' events that are signalled
    pcCaller,                \* the callers
    pcStream, woken,         \* the streaming thread, why its wait ended
    m_mt, peer, committed,   \* this pin's type, the input pin's; the allocator
    active, switches

blockVars  == <<m_BlockState, m_hNotifyCallerPinBlockedEvent, m_dwBlockCallerThreadID,
                m_hUnblockOutputPinEvent, events>>
streamVars == <<pcStream, woken, m_dwNumOutstandingOutputPinUsers>>
typeVars   == <<m_mt, peer, committed>>
filterVars == <<m_hStopEvent, active, switches>>
vars == <<blockVars, streamVars, typeVars, filterVars, pcCaller>>

Init ==
    /\ m_BlockState = "NOT_BLOCKED" /\ m_dwNumOutstandingOutputPinUsers = 0
    /\ m_hNotifyCallerPinBlockedEvent = Nobody /\ m_dwBlockCallerThreadID = Nobody
    /\ m_hUnblockOutputPinEvent = TRUE /\ m_hStopEvent = FALSE /\ events = {}
    /\ pcCaller = [c \in Callers |-> "idle"] /\ pcStream = "idle" /\ woken = FALSE
    /\ m_mt = "old" /\ peer = "old" /\ committed = FALSE /\ active = FALSE /\ switches = 0

StreamingThreadUsingOutputPin == m_dwNumOutstandingOutputPinUsers > 0
-----------------------------------------------------------------------------
\* Block, on an application thread.

\* BlockOutputPin: the event named is signalled and its handle closed.
BlockOutputPin(notified) ==
    /\ m_BlockState' = "BLOCKED" /\ m_hUnblockOutputPinEvent' = FALSE
    /\ events' = events \cup {notified}
    /\ m_hNotifyCallerPinBlockedEvent' = Nobody

\* Fault: the pin is blocked at once, whoever uses it.
BlockAtOnce(c) ==
    /\ pcCaller[c] = "idle" /\ m_BlockState = "NOT_BLOCKED"
    /\ m_dwBlockCallerThreadID' = c /\ BlockOutputPin(c)
    /\ pcCaller' \in {pcCaller, [pcCaller EXCEPT ![c] = "wait"]}
    /\ UNCHANGED <<streamVars, typeVars, filterVars>>

\* Block: the event is reset, and signalled when nobody uses the pin.  A
\* synchronous call then waits for an event of its own.
Block(c) ==
    /\ pcCaller[c] = "idle" /\ m_BlockState = "NOT_BLOCKED"
    /\ m_dwBlockCallerThreadID' = c
    /\ IF StreamingThreadUsingOutputPin
       THEN /\ m_BlockState' = "PENDING" /\ m_hNotifyCallerPinBlockedEvent' = c
            /\ events' = events \ {c} /\ UNCHANGED m_hUnblockOutputPinEvent
       ELSE BlockOutputPin(c)
    /\ pcCaller' \in {pcCaller, [pcCaller EXCEPT ![c] = "wait"]}
    /\ UNCHANGED <<streamVars, typeVars, filterVars>>

\* Already blocked, by this thread or another: only the event has been reset.
BlockRefused(c) ==
    /\ pcCaller[c] = "idle" /\ m_BlockState # "NOT_BLOCKED"
    /\ events' = events \ {c}
    /\ UNCHANGED <<m_BlockState, m_hNotifyCallerPinBlockedEvent, m_dwBlockCallerThreadID,
                   m_hUnblockOutputPinEvent, streamVars, typeVars, filterVars, pcCaller>>

BlockReturns(c) ==
    /\ pcCaller[c] = "wait" /\ c \in events
    /\ events' = events \ {c}
    /\ pcCaller' = [pcCaller EXCEPT ![c] = "idle"]
    /\ UNCHANGED <<m_BlockState, m_hNotifyCallerPinBlockedEvent, m_dwBlockCallerThreadID,
                   m_hUnblockOutputPinEvent, streamVars, typeVars, filterVars>>

\* Fault: a pending block is cancelled and its caller is not told.
UnblockSilently(c) ==
    /\ pcCaller[c] = "idle" /\ m_BlockState # "NOT_BLOCKED"
    /\ m_hUnblockOutputPinEvent' = TRUE /\ m_BlockState' = "NOT_BLOCKED"
    /\ m_dwBlockCallerThreadID' = Nobody /\ m_hNotifyCallerPinBlockedEvent' = Nobody
    /\ UNCHANGED <<events, streamVars, typeVars, filterVars, pcCaller>>

\* Any thread may unblock, and cancel a block that is pending.
Unblock(c) ==
    /\ pcCaller[c] = "idle" /\ m_BlockState # "NOT_BLOCKED"
    /\ m_hUnblockOutputPinEvent' = TRUE /\ m_BlockState' = "NOT_BLOCKED"
    /\ events' = events \cup ({m_hNotifyCallerPinBlockedEvent} \ {Nobody})
    /\ m_dwBlockCallerThreadID' = Nobody /\ m_hNotifyCallerPinBlockedEvent' = Nobody
    /\ UNCHANGED <<streamVars, typeVars, filterVars, pcCaller>>
-----------------------------------------------------------------------------
\* The streaming thread.

StartUsing ==
    /\ pcStream = "idle" /\ m_BlockState # "BLOCKED"
    /\ m_dwNumOutstandingOutputPinUsers < MaxUsers
    /\ m_dwNumOutstandingOutputPinUsers' = m_dwNumOutstandingOutputPinUsers + 1
    /\ UNCHANGED <<blockVars, pcStream, woken, typeVars, filterVars, pcCaller>>

StartUsingWait ==
    /\ pcStream = "idle" /\ m_BlockState = "BLOCKED"
    /\ pcStream' = "wait"
    /\ UNCHANGED <<blockVars, woken, m_dwNumOutstandingOutputPinUsers, typeVars,
                   filterVars, pcCaller>>

\* The wait ends, the lock is still to be taken; the first event of the two counts.
Wake ==
    /\ pcStream = "wait" /\ (m_hUnblockOutputPinEvent \/ m_hStopEvent)
    /\ woken' = m_hUnblockOutputPinEvent /\ pcStream' = "relock"
    /\ UNCHANGED <<blockVars, m_dwNumOutstandingOutputPinUsers, typeVars, filterVars,
                   pcCaller>>

\* Fault: woken for an unblock, the thread does not look again.
RelockAtOnce ==
    /\ pcStream = "relock" /\ woken' = FALSE /\ pcStream' = "idle"
    /\ m_dwNumOutstandingOutputPinUsers' = m_dwNumOutstandingOutputPinUsers
                                             + (IF woken THEN 1 ELSE 0)
    /\ UNCHANGED <<blockVars, typeVars, filterVars, pcCaller>>

\* Stopped: VFW_E_STATE_CHANGED.  Unblocked: it may be blocked once more.
Relock ==
    /\ pcStream = "relock" /\ woken' = FALSE
    /\ pcStream' = IF woken /\ m_BlockState = "BLOCKED" THEN "wait" ELSE "idle"
    /\ m_dwNumOutstandingOutputPinUsers' = m_dwNumOutstandingOutputPinUsers
          + (IF woken /\ m_BlockState # "BLOCKED" THEN 1 ELSE 0)
    /\ UNCHANGED <<blockVars, typeVars, filterVars, pcCaller>>

\* The last of nested uses completes a block that is pending.
StopUsing ==
    /\ pcStream = "idle" /\ StreamingThreadUsingOutputPin
    /\ m_dwNumOutstandingOutputPinUsers' = m_dwNumOutstandingOutputPinUsers - 1
    /\ IF m_dwNumOutstandingOutputPinUsers = 1 /\ m_BlockState # "NOT_BLOCKED"
       THEN BlockOutputPin(m_hNotifyCallerPinBlockedEvent)
            /\ UNCHANGED m_dwBlockCallerThreadID
       ELSE UNCHANGED blockVars
    /\ UNCHANGED <<pcStream, woken, typeVars, filterVars, pcCaller>>
-----------------------------------------------------------------------------
\* ChangeMediaType, while the pin is used and the filter is not stopped.

TypeUnchanged == <<blockVars, woken, m_dwNumOutstandingOutputPinUsers, filterVars, pcCaller>>

\* The input pin accepts the type; or the graph is asked to reconnect, which
\* does it all, or nothing.
ChangeMediaType ==
    /\ pcStream = "idle" /\ StreamingThreadUsingOutputPin /\ active
    /\ \E pmt \in Types \ {m_mt} :
          \/ peer' = pmt /\ pcStream' = "type" /\ UNCHANGED <<m_mt, committed>>
          \/ peer' = pmt /\ m_mt' = pmt /\ UNCHANGED <<pcStream, committed>>
    /\ UNCHANGED TypeUnchanged

\* SetMediaType of this pin, then Decommit.
ChangeType ==
    /\ pcStream = "type"
    /\ \/ m_mt' = peer /\ pcStream' = "allocator" /\ committed' = FALSE
       \/ pcStream' = "idle" /\ UNCHANGED <<m_mt, committed>>
    /\ UNCHANGED <<peer, TypeUnchanged>>

\* DecideBufferSize, Commit and NotifyAllocator, each of which may fail.
ChangeAllocator ==
    /\ pcStream = "allocator" /\ pcStream' = "idle"
    /\ committed' \in BOOLEAN
    /\ UNCHANGED <<m_mt, peer, TypeUnchanged>>
-----------------------------------------------------------------------------
\* The filter's state, and flushes.

SwitchUnchanged == <<blockVars, streamVars, m_mt, peer, pcCaller>>
Switch == switches < MaxSwitches /\ switches' = switches + 1

Active ==
    /\ Switch /\ ~active /\ active' = TRUE
    /\ m_hStopEvent' = FALSE /\ committed' = TRUE
    /\ UNCHANGED SwitchUnchanged

Inactive ==
    /\ Switch /\ active /\ active' = FALSE
    /\ m_hStopEvent' = TRUE /\ committed' = FALSE
    /\ UNCHANGED SwitchUnchanged

DeliverBeginFlush ==
    /\ Switch /\ m_hStopEvent' = TRUE
    /\ UNCHANGED <<active, committed, SwitchUnchanged>>

DeliverEndFlush ==
    /\ m_hStopEvent /\ m_hStopEvent' = FALSE
    /\ UNCHANGED <<active, switches, committed, SwitchUnchanged>>
-----------------------------------------------------------------------------
Streaming == \/ StartUsingWait \/ Wake \/ Relock \/ StopUsing
             \/ ChangeType \/ ChangeAllocator

Next ==
    \/ \E c \in Callers : Block(c) \/ BlockRefused(c) \/ BlockReturns(c) \/ Unblock(c)
    \/ StartUsing \/ ChangeMediaType \/ Streaming
    \/ Active \/ Inactive \/ DeliverBeginFlush \/ DeliverEndFlush

Spec == Init /\ [][Next]_vars

\* Threads go on, and the streaming thread does not keep the pin for ever: now
\* and then it has let go of every use.
Fairness ==
    /\ \A c \in Callers : WF_vars(BlockReturns(c))
    /\ WF_vars(Wake) /\ WF_vars(Relock) /\ WF_vars(ChangeType \/ ChangeAllocator)
    /\ SF_vars(StopUsing /\ m_dwNumOutstandingOutputPinUsers = 1)
    /\ SF_vars(StopUsing /\ m_dwNumOutstandingOutputPinUsers = MaxUsers)
FairSpec == Spec /\ Fairness
-----------------------------------------------------------------------------
\* Types of the variables.
FlagsOK ==
    /\ m_hUnblockOutputPinEvent \in BOOLEAN /\ m_hStopEvent \in BOOLEAN
    /\ woken \in BOOLEAN /\ committed \in BOOLEAN /\ active \in BOOLEAN
TypeOK ==
    /\ FlagsOK
    /\ m_BlockState \in {"NOT_BLOCKED", "PENDING", "BLOCKED"}
    /\ m_dwNumOutstandingOutputPinUsers \in 0..MaxUsers
    /\ m_hNotifyCallerPinBlockedEvent \in Callers \cup {Nobody}
    /\ m_dwBlockCallerThreadID \in Callers \cup {Nobody}
    /\ events \subseteq Callers /\ pcCaller \in [Callers -> {"idle", "wait"}]
    /\ pcStream \in {"idle", "wait", "relock", "type", "allocator"}
    /\ m_mt \in Types /\ peer \in Types /\ switches \in 0..MaxSwitches

\* The ASSERTs of AssertValid (lines 4496 to 4516): a blocked pin is used by
\* nobody, an event is kept while a block is pending and only then; and, which
\* they leave out, a block is pending only while the pin is used, and the event
\* that releases the streaming thread is signalled unless the pin is blocked.
BlockStateValid ==
    /\ m_BlockState = "BLOCKED" => ~StreamingThreadUsingOutputPin
    /\ m_BlockState = "PENDING" <=> m_hNotifyCallerPinBlockedEvent # Nobody
    /\ m_BlockState = "NOT_BLOCKED" <=> m_dwBlockCallerThreadID = Nobody
    /\ m_BlockState = "PENDING" => StreamingThreadUsingOutputPin
    /\ m_BlockState # "BLOCKED" <=> m_hUnblockOutputPinEvent

\* A Block that waits returns: when the streaming thread has let go of the pin,
\* or when another thread cancels it (lines 1039 to 1042 of amfilter.h).
Waits(k) == pcCaller[k] = "wait"
=============================================================================
