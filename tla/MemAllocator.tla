---------------------------- MODULE MemAllocator ----------------------------
(***************************************************************************)
(* CBaseAllocator with CMemAllocator on top, and the reference counts of   *)
(* its CMediaSamples: the pool of buffers between two pins.                *)
(*                                                                         *)
(*   - the application thread sets the properties, commits, decommits and  *)
(*     gives its reference up;                                             *)
(*   - streaming threads get buffers, hand references to one another and   *)
(*     release them.                                                       *)
(*                                                                         *)
(* A section under the allocator's lock is one action.  What follows the   *)
(* unlock inside the same call is an action of its own: another thread can *)
(* come between.  The order of the free list is left out.                  *)
(***************************************************************************)
EXTENDS Integers, FiniteSets

CONSTANTS NThreads,      \* the streaming threads, numbered as the samples flow
          MaxBuffers,    \* bound: the largest m_lCount asked for
          MaxSemaphore   \* bound: wake-ups that calls which do not wait leave behind

Threads == 1..NThreads
Samples == 1..MaxBuffers

VARIABLES
    m_bCommitted, m_bDecommitInProgress,
    m_bChanged,      \* the properties changed since the last Alloc
    m_lCount,        \* buffers asked for (0: SetProperties never called)
    m_lAllocated,    \* samples 1..m_lAllocated exist
    m_pBuffer,       \* the block of memory is there
    m_lFree,         \* samples on the free list
    m_lWaiting,      \* wake-ups owed to callers that found the list empty
    m_hSem,          \* count of the semaphore
    appRef,          \* the application's reference on the allocator
    selfRef,         \* references the allocator holds on itself
    alive,           \* the allocator has not been deleted
    m_cRef,          \* reference count of each sample
    holds,           \* samples each thread has a reference on
    pc, arg,         \* each thread, and the sample its call is about
    pcApp            \* "idle", or "release": Decommit between unlock and Release

stateVars  == <<m_bCommitted, m_bDecommitInProgress>>
memoryVars == <<m_bChanged, m_lCount, m_lAllocated, m_pBuffer>>
waitVars   == <<m_lWaiting, m_hSem>>
lifeVars   == <<appRef, selfRef, alive>>
threadVars == <<m_cRef, holds, pc, arg>>
vars == <<stateVars, memoryVars, m_lFree, waitVars, lifeVars, threadVars, pcApp>>

Init ==
    /\ m_bCommitted = FALSE /\ m_bDecommitInProgress = FALSE
    /\ m_bChanged = FALSE /\ m_lCount = 0 /\ m_lAllocated = 0 /\ m_pBuffer = FALSE
    /\ m_lFree = {} /\ m_lWaiting = 0 /\ m_hSem = 0
    /\ appRef = TRUE /\ selfRef = 0 /\ alive = TRUE
    /\ m_cRef = [s \in Samples |-> 0]
    /\ holds = [t \in Threads |-> {}]
    /\ pc = [t \in Threads |-> "idle"] /\ arg = [t \in Threads |-> 0]
    /\ pcApp = "idle"

AllFree == Cardinality(m_lFree) = m_lAllocated

\* NotifySample: every caller that found the list empty gets a wake-up.
NotifySample == m_hSem' = m_hSem + m_lWaiting /\ m_lWaiting' = 0

\* Release of a self reference: the last reference deletes the allocator, whose
\* destructor decommits (nothing is left to do) and frees samples and memory.
ReleaseSelf ==
    /\ selfRef' = selfRef - 1
    /\ IF appRef \/ selfRef > 1
       THEN UNCHANGED <<alive, m_lAllocated, m_pBuffer, m_lFree>>
       ELSE /\ alive' = FALSE /\ m_lAllocated' = 0 /\ m_pBuffer' = FALSE
            /\ m_lFree' = {}
    /\ UNCHANGED <<appRef, m_bChanged, m_lCount>>

(***************************************************************************)
(* The application thread.                                                 *)
(***************************************************************************)
SetProperties(n) ==
    /\ pcApp = "idle" /\ appRef
    /\ ~m_bCommitted /\ AllFree
    /\ m_lCount' = n /\ m_bChanged' = TRUE
    /\ UNCHANGED <<stateVars, m_lAllocated, m_pBuffer, m_lFree, waitVars, lifeVars,
                   threadVars, pcApp>>

\* Fault: the cancelled Decommit's reference is taken once more.
CommitCancelsAddRef ==
    /\ pcApp = "idle" /\ appRef
    /\ ~m_bCommitted /\ m_bDecommitInProgress
    /\ m_bCommitted' = TRUE /\ m_bDecommitInProgress' = FALSE
    /\ selfRef' = selfRef + 1
    /\ UNCHANGED <<memoryVars, m_lFree, waitVars, appRef, alive, threadVars, pcApp>>

\* Commit while a Decommit waits for its last buffer: it is called off.
CommitCancels ==
    /\ pcApp = "idle" /\ appRef
    /\ ~m_bCommitted /\ m_bDecommitInProgress
    /\ m_bCommitted' = TRUE /\ m_bDecommitInProgress' = FALSE
    /\ UNCHANGED <<memoryVars, m_lFree, waitVars, lifeVars, threadVars, pcApp>>

CommitReuses ==
    /\ pcApp = "idle" /\ appRef
    /\ ~m_bCommitted /\ ~m_bDecommitInProgress
    /\ m_lCount > 0 /\ ~m_bChanged
    /\ m_bCommitted' = TRUE /\ selfRef' = selfRef + 1
    /\ UNCHANGED <<m_bDecommitInProgress, memoryVars, m_lFree, waitVars, appRef, alive,
                   threadVars, pcApp>>

\* Fault: an allocation that failed half-way counts as done.
CommitAllocatesSome(gotBlock, made) ==
    /\ pcApp = "idle" /\ appRef
    /\ ~m_bCommitted /\ ~m_bDecommitInProgress
    /\ m_lCount > 0 /\ m_bChanged
    /\ made \in 0..m_lCount /\ (~gotBlock => made = 0)
    /\ m_pBuffer' = gotBlock /\ m_lAllocated' = made /\ m_lFree' = 1..made
    /\ m_bChanged' = FALSE
    /\ IF gotBlock /\ made = m_lCount
       THEN m_bCommitted' = TRUE /\ selfRef' = selfRef + 1
       ELSE UNCHANGED <<m_bCommitted, selfRef>>
    /\ UNCHANGED <<m_bDecommitInProgress, m_lCount, waitVars, appRef, alive,
                   threadVars, pcApp>>

\* The old samples and memory go, the new block is allocated unless that fails
\* ("none"), and samples are made until there are enough or one cannot be made.
\* After a failure Commit takes back m_bCommitted and takes no reference.
CommitAllocates(gotBlock, made) ==
    /\ pcApp = "idle" /\ appRef
    /\ ~m_bCommitted /\ ~m_bDecommitInProgress
    /\ m_lCount > 0 /\ m_bChanged
    /\ made \in 0..m_lCount /\ (~gotBlock => made = 0)
    /\ m_pBuffer' = gotBlock /\ m_lAllocated' = made /\ m_lFree' = 1..made
    /\ IF gotBlock /\ made = m_lCount
       THEN m_bChanged' = FALSE /\ m_bCommitted' = TRUE /\ selfRef' = selfRef + 1
       ELSE UNCHANGED <<m_bChanged, m_bCommitted, selfRef>>
    /\ UNCHANGED <<m_bDecommitInProgress, m_lCount, waitVars, appRef, alive,
                   threadVars, pcApp>>

\* Fault: the reference is given back although buffers are out.
DecommitReleasesAtOnce ==
    /\ pcApp = "idle" /\ appRef
    /\ m_bCommitted
    /\ m_bCommitted' = FALSE
    /\ m_bDecommitInProgress' = FALSE
    /\ pcApp' = "release"
    /\ NotifySample
    /\ UNCHANGED <<memoryVars, m_lFree, lifeVars, threadVars>>

\* The section under the lock; the reference is given back after it.
Decommit ==
    /\ pcApp = "idle" /\ appRef
    /\ m_bCommitted \/ m_bDecommitInProgress
    /\ m_bCommitted' = FALSE
    /\ m_bDecommitInProgress' = ~AllFree
    /\ pcApp' = IF AllFree THEN "release" ELSE "idle"
    /\ NotifySample
    /\ UNCHANGED <<memoryVars, m_lFree, lifeVars, threadVars>>

DecommitRelease ==
    /\ pcApp = "release" /\ pcApp' = "idle"
    /\ ReleaseSelf
    /\ UNCHANGED <<stateVars, waitVars, threadVars>>

\* The pins give their references up: nobody asks for buffers any more, though
\* buffers may still be out.
Drop ==
    /\ pcApp = "idle" /\ appRef
    /\ \A t \in Threads : pc[t] \notin {"get", "wait", "addRef"}
    /\ appRef' = FALSE
    /\ IF selfRef > 0 THEN UNCHANGED <<alive, m_lAllocated, m_pBuffer, m_lFree>>
                      ELSE /\ alive' = FALSE /\ m_lAllocated' = 0
                           /\ m_pBuffer' = FALSE /\ m_lFree' = {}
    /\ UNCHANGED <<stateVars, m_bChanged, m_lCount, waitVars, selfRef, threadVars, pcApp>>

(***************************************************************************)
(* GetBuffer.                                                              *)
(***************************************************************************)
Goto(t, label) == pc' = [pc EXCEPT ![t] = label]

GetBuffer(t) ==
    /\ pc[t] = "idle" /\ appRef
    /\ Goto(t, "get")
    /\ UNCHANGED <<stateVars, memoryVars, m_lFree, waitVars, lifeVars, m_cRef, holds,
                   arg, pcApp>>

\* Fault: a caller looks at the flag before the loop only.
GetAgain(t) ==
    /\ pc[t] = "get" /\ ~m_bCommitted
    /\ Goto(t, "get")
    /\ UNCHANGED <<stateVars, memoryVars, m_lFree, waitVars, lifeVars, m_cRef, holds,
                   arg, pcApp>>

GetNotCommitted(t) ==
    /\ pc[t] = "get" /\ ~m_bCommitted
    /\ Goto(t, "idle")
    /\ UNCHANGED <<stateVars, memoryVars, m_lFree, waitVars, lifeVars, m_cRef, holds,
                   arg, pcApp>>

GetFree(t) ==
    /\ pc[t] = "get" /\ m_bCommitted
    /\ \E s \in m_lFree : /\ m_lFree' = m_lFree \ {s}
                          /\ arg' = [arg EXCEPT ![t] = s]
    /\ Goto(t, "addRef")
    /\ UNCHANGED <<stateVars, memoryVars, waitVars, lifeVars, m_cRef, holds, pcApp>>

\* Outside the lock: the new owner's reference.
GetAddRef(t) ==
    /\ pc[t] = "addRef"
    /\ m_cRef' = [m_cRef EXCEPT ![arg[t]] = 1]
    /\ holds' = [holds EXCEPT ![t] = @ \cup {arg[t]}]
    /\ arg' = [arg EXCEPT ![t] = 0]
    /\ Goto(t, "idle")
    /\ UNCHANGED <<stateVars, memoryVars, m_lFree, waitVars, lifeVars, pcApp>>

\* Fault: the caller is counted once it waits, after the lock.
GetWaitUncounted(t) ==
    /\ pc[t] = "get" /\ m_bCommitted /\ m_lFree = {}
    /\ Goto(t, "wait")
    /\ UNCHANGED <<stateVars, memoryVars, m_lFree, waitVars, lifeVars, m_cRef, holds,
                   arg, pcApp>>

\* SetWaiting counts the caller under the lock, and it waits.
GetWait(t) ==
    /\ pc[t] = "get" /\ m_bCommitted /\ m_lFree = {}
    /\ m_lWaiting' = m_lWaiting + 1
    /\ Goto(t, "wait")
    /\ UNCHANGED <<stateVars, memoryVars, m_lFree, m_hSem, lifeVars, m_cRef, holds,
                   arg, pcApp>>

\* With AM_GBF_NOWAIT the call fails, but it has been counted all the same.
GetNoWait(t) ==
    /\ pc[t] = "get" /\ m_bCommitted /\ m_lFree = {}
    /\ m_lWaiting + m_hSem < MaxSemaphore
    /\ m_lWaiting' = m_lWaiting + 1
    /\ Goto(t, "idle")
    /\ UNCHANGED <<stateVars, memoryVars, m_lFree, m_hSem, lifeVars, m_cRef, holds,
                   arg, pcApp>>

GetWake(t) ==
    /\ pc[t] = "wait" /\ m_hSem > 0
    /\ m_hSem' = m_hSem - 1
    /\ Goto(t, "get")
    /\ UNCHANGED <<stateVars, memoryVars, m_lFree, m_lWaiting, lifeVars, m_cRef, holds,
                   arg, pcApp>>

(***************************************************************************)
(* References on samples, and ReleaseBuffer.                               *)
(***************************************************************************)
\* A filter passes a sample on to the thread of a filter downstream, which keeps a
\* reference of its own.
AddRef(t, u, s) ==
    /\ t < u /\ pc[t] = "idle" /\ s \in holds[t] \ holds[u]
    /\ m_cRef' = [m_cRef EXCEPT ![s] = @ + 1]
    /\ holds' = [holds EXCEPT ![u] = @ \cup {s}]
    /\ UNCHANGED <<stateVars, memoryVars, m_lFree, waitVars, lifeVars, pc, arg, pcApp>>

\* CMediaSample::Release tests for the last reference first...
ReleaseTest(t, s) ==
    /\ pc[t] = "idle" /\ s \in holds[t]
    /\ holds' = [holds EXCEPT ![t] = @ \ {s}]
    /\ arg' = [arg EXCEPT ![t] = s]
    /\ Goto(t, IF m_cRef[s] = 1 THEN "clear" ELSE "decrement")
    /\ UNCHANGED <<stateVars, memoryVars, m_lFree, waitVars, lifeVars, m_cRef, pcApp>>

\* ... and clears the count, ...
ReleaseClear(t) ==
    /\ pc[t] = "clear"
    /\ m_cRef' = [m_cRef EXCEPT ![arg[t]] = 0]
    /\ Goto(t, "requeue")
    /\ UNCHANGED <<stateVars, memoryVars, m_lFree, waitVars, lifeVars, holds, arg, pcApp>>

\* Fault: the result of the decrement is not looked at.
ReleaseDecrementOnly(t) ==
    /\ pc[t] = "decrement"
    /\ m_cRef' = [m_cRef EXCEPT ![arg[t]] = @ - 1]
    /\ Goto(t, "idle") /\ arg' = [arg EXCEPT ![t] = 0]
    /\ UNCHANGED <<stateVars, memoryVars, m_lFree, waitVars, lifeVars, holds, pcApp>>

\* ... or decrements it, which may still make this the last reference.
ReleaseDecrement(t) ==
    /\ pc[t] = "decrement"
    /\ m_cRef' = [m_cRef EXCEPT ![arg[t]] = @ - 1]
    /\ IF m_cRef[arg[t]] = 1
       THEN Goto(t, "requeue") /\ UNCHANGED arg
       ELSE Goto(t, "idle") /\ arg' = [arg EXCEPT ![t] = 0]
    /\ UNCHANGED <<stateVars, memoryVars, m_lFree, waitVars, lifeVars, holds, pcApp>>

\* Fault: a pending Decommit is not completed.
ReleaseBufferOnly(t) ==
    /\ pc[t] = "requeue"
    /\ m_lFree' = m_lFree \cup {arg[t]}
    /\ arg' = [arg EXCEPT ![t] = 0]
    /\ NotifySample
    /\ Goto(t, "notify")
    /\ UNCHANGED <<stateVars, memoryVars, lifeVars, m_cRef, holds, pcApp>>

\* ReleaseBuffer under the lock: the last buffer completes a pending Decommit.
ReleaseBuffer(t) ==
    /\ pc[t] = "requeue"
    /\ m_lFree' = m_lFree \cup {arg[t]}
    /\ arg' = [arg EXCEPT ![t] = 0]
    /\ NotifySample
    /\ LET last == m_bDecommitInProgress /\ Cardinality(m_lFree) + 1 = m_lAllocated
       IN  /\ Goto(t, IF last THEN "notifyLast" ELSE "notify")
           /\ m_bDecommitInProgress' = (m_bDecommitInProgress /\ ~last)
    /\ UNCHANGED <<m_bCommitted, memoryVars, lifeVars, m_cRef, holds, pcApp>>

\* After the lock: m_pNotify is read (nobody has set it), and the reference of a
\* completed Decommit is given back.
ReleaseNotify(t) ==
    /\ pc[t] \in {"notify", "notifyLast"}
    /\ Goto(t, "idle")
    /\ IF pc[t] = "notifyLast"
       THEN ReleaseSelf
       ELSE UNCHANGED <<memoryVars, m_lFree, lifeVars>>
    /\ UNCHANGED <<stateVars, waitVars, m_cRef, holds, arg, pcApp>>

(***************************************************************************)
(* The specification.                                                      *)
(***************************************************************************)
Application ==
    \/ \E n \in Samples : SetProperties(n)
    \/ CommitCancels \/ CommitReuses
    \/ \E gotBlock \in BOOLEAN, made \in 0..MaxBuffers : CommitAllocates(gotBlock, made)
    \/ Decommit \/ DecommitRelease \/ Drop

GetStep(t) == \/ GetNotCommitted(t) \/ GetFree(t) \/ GetAddRef(t)
              \/ GetWait(t) \/ GetNoWait(t) \/ GetWake(t)
ReleaseStep(t) == ReleaseClear(t) \/ ReleaseDecrement(t) \/ ReleaseBuffer(t)
                  \/ ReleaseNotify(t)

Next == \/ Application
        \/ \E t \in Threads :
              \/ GetBuffer(t) \/ GetStep(t) \/ ReleaseStep(t)
              \/ \E s \in Samples : ReleaseTest(t, s)
              \/ \E u \in Threads, s \in Samples : AddRef(t, u, s)

Spec == Init /\ [][Next]_vars

\* Threads inside a call go on, a filter gives every sample back in the end,
\* and an application that has begun to decommit finishes the call.
Fairness ==
    /\ WF_vars(DecommitRelease)
    /\ \A t \in Threads : /\ WF_vars(GetStep(t)) /\ WF_vars(ReleaseStep(t))
                          /\ \A s \in Samples : SF_vars(ReleaseTest(t, s))

(***************************************************************************)
(* Properties.                                                             *)
(***************************************************************************)
Labels == {"idle", "get", "wait", "addRef", "clear", "decrement", "requeue", "notify",
           "notifyLast"}

Waiters == {t \in Threads : pc[t] = "wait"}
\* Threads between GetBuffer's or ReleaseBuffer's two halves with sample s.
Moving(s) == {t \in Threads : arg[t] = s /\ pc[t] \in {"addRef", "requeue"}}
Holders(s) == {t \in Threads : s \in holds[t]}
Releasing(s) == {t \in Threads : arg[t] = s /\ pc[t] \in {"clear", "decrement"}}

\* The lifetime comment above CMediaSample::Release: a sample is on the free list,
\* or on its way from or to it in one thread only, or its count is that of the
\* references on it; it is never handed out twice nor forgotten.
EachBufferInOnePlace ==
    \A s \in 1..m_lAllocated :
        LET refs == Cardinality(Holders(s)) + Cardinality(Releasing(s))
        IN  \/ s \in m_lFree /\ refs = 0 /\ Moving(s) = {} /\ m_cRef[s] = 0
            \/ s \notin m_lFree /\ refs = 0 /\ Cardinality(Moving(s)) = 1 /\ m_cRef[s] = 0
            \/ s \notin m_lFree /\ refs > 0 /\ Moving(s) = {} /\ m_cRef[s] = refs

\* SetWaiting under the lock and ReleaseSemaphore for all (amfilter.cpp lines 4752 to 4769):
\* when a buffer is free or the allocator decommitted, the semaphore has a
\* wake-up for everybody who waits, so nobody sleeps through it.
NoLostWakeUp ==
    m_lFree # {} \/ ~m_bCommitted => Cardinality(Waiters) <= m_hSem

\* AddRef in Commit against the Release in Decommit or in the last ReleaseBuffer:
\* the allocator holds one reference on itself from Commit until the Decommit is
\* complete, whatever was cancelled, repeated or failed in between.
SelfReference ==
    selfRef = (IF m_bCommitted \/ m_bDecommitInProgress THEN 1 ELSE 0)
              + (IF pcApp = "release" THEN 1 ELSE 0)
              + Cardinality({t \in Threads : pc[t] = "notifyLast"})

\* Alloc reuses what it finds when nothing changed (line 4984): what it finds is
\* then all the buffers that were asked for, also after an Alloc that failed.
ReuseIsComplete ==
    alive /\ m_lCount > 0 /\ ~m_bChanged => m_pBuffer /\ m_lAllocated = m_lCount

\* The allocator outlives the buffers that are out and the calls for one.
BuffersOwned ==
    (\E t \in Threads : holds[t] # {} \/ pc[t] \in Labels \ {"idle", "notify"}) => alive

\* No buffer is lost, doubled or out of reach: each is on the free list, in a thread's
\* hands or in a call (amfilter.cpp lines 3342 to 3380 and 4727 to 4860), the allocator
\* outlives them thanks to the reference on itself, and it reuses only what an earlier
\* Alloc completed (lines 4975 to 5050).
BuffersAccounted == EachBufferInOnePlace /\ BuffersOwned /\ SelfReference /\ ReuseIsComplete

\* "Tell anyone waiting that they can go now" (line 4945): a decommit releases
\* every caller of GetBuffer, the one that waits and the one about to.  And the memory
\* goes in the end: when the pins have let go of a decommitted allocator, returning
\* the buffers deletes it.
Waits(t) ==
    \/ pc[t] \in {"get", "wait"} /\ ~m_bCommitted
    \/ ~appRef /\ ~m_bCommitted /\ alive
=============================================================================
