-------------------------- MODULE StreamingProofs ---------------------------
(***************************************************************************)
(* The parts that MCStreaming runs, for every value of its constants.      *)
(*                                                                         *)
(* The allocator, for any number of threads and buffers: nobody sleeps     *)
(* through a buffer or a decommit (NoLostWakeUp), Commit's reference on    *)
(* the allocator is given back once (SelfReference), every buffer is in    *)
(* one place (EachBufferInOnePlace), the allocator outlives what it has    *)
(* given out (BuffersOwned), and what it reuses is complete                *)
(* (ReuseIsComplete).  NoLostWakeUp is not inductive: m_lWaiting must be   *)
(* known to be zero whenever a waiter has reason to go on, and together    *)
(* with the semaphore to cover all who wait.  SelfReference needs to know  *)
(* that an allocator is never committed while a Decommit is in progress.   *)
(* EachBufferInOnePlace needs two facts of its own: the reference found to *)
(* be the last one stays the last until it is cleared (LastCleared), so    *)
(* that no two threads return a buffer, and buffers are only made anew or  *)
(* freed while all of them are on the free list (AllBack).  Every step of  *)
(* a thread concerns one buffer: Tally says what it does to the numbers of *)
(* that buffer, Turned that it changes no other.                           *)
(*                                                                         *)
(* A dynamic pin is always in a valid state of blocking, for any number of *)
(* callers and any depth of nesting, which is what the code's AssertValid  *)
(* asserts and more.  A renderer reports the end of its stream once, and   *)
(* after its samples.  A pull pin delivers what it shall play without a    *)
(* gap, whatever its reader's length, blocks, buffers and errors.  None is *)
(* inductive by itself.  When the streaming thread takes its lock          *)
(* again after a wait, it must be known that the wait began without a use  *)
(* of the pin (WaitsUnused), and when it completes a block that is         *)
(* pending, that the event it signals is a caller's (TypeOK).  When a      *)
(* renderer takes a sample, that the thread signal of the last stop or     *)
(* flush is off (SampleHeld), and when one arrives, that the flush before  *)
(* it has forgotten the end that was reported (FlushForgets).  What the    *)
(* pull pin's thread has requested and not delivered (Outstanding) joins   *)
(* what was delivered to its position (Flow), in whole blocks, so that     *)
(* only the last is cut at the stop.                                       *)
(***************************************************************************)
EXTENDS MCStreaming, FiniteSetTheorems, Sequences, TLAPS
-----------------------------------------------------------------------------
\* The allocator (amfilter.cpp), with the specification of its own module.

At(label) == {t \in Threads : pc[t] = label}

Types ==
    /\ m_lWaiting \in Nat /\ m_hSem \in Nat /\ selfRef \in Int
    /\ pc \in [Threads -> Labels] /\ pcApp \in {"idle", "release"}

\* Whoever waits is counted or has a wake-up, and is counted only while there is
\* nothing to go on for.
WaitersCounted ==
    /\ Cardinality(At("wait")) <= m_lWaiting + m_hSem
    /\ m_lFree # {} \/ ~m_bCommitted => m_lWaiting = 0

\* A Decommit in progress has cleared the flag that Commit sets.
OneState == ~(m_bCommitted /\ m_bDecommitInProgress)

\* SelfReference, in terms of At.
References ==
    selfRef = (IF m_bCommitted \/ m_bDecommitInProgress THEN 1 ELSE 0)
              + (IF pcApp = "release" THEN 1 ELSE 0) + Cardinality(At("notifyLast"))

IInv == Types /\ WaitersCounted /\ OneState /\ References
-----------------------------------------------------------------------------
\* A set of threads is finite.
LEMMA Finite ==
    ASSUME NThreads \in Nat, NEW label
    PROVE  IsFiniteSet(At(label)) /\ Cardinality(At(label)) \in Nat
<1>1. IsFiniteSet(Threads)
  BY FS_Interval DEF Threads
<1>2. At(label) \subseteq Threads
  BY DEF At
<1>. QED
  BY <1>1, <1>2, FS_Subset, FS_CardinalityType

\* Two sets that differ in one element at most.
LEMMA OneElement ==
    ASSUME NEW S, NEW T, NEW t, IsFiniteSet(S), IsFiniteSet(T), S \ {t} = T \ {t}
    PROVE  Cardinality(T) = Cardinality(S) + (IF t \in T THEN 1 ELSE 0)
                                           - (IF t \in S THEN 1 ELSE 0)
<1>1. /\ Cardinality(S \ {t}) = IF t \in S THEN Cardinality(S) - 1 ELSE Cardinality(S)
      /\ Cardinality(T \ {t}) = IF t \in T THEN Cardinality(T) - 1 ELSE Cardinality(T)
  BY FS_RemoveElement
<1>2. Cardinality(S) \in Nat /\ Cardinality(T) \in Nat
  BY FS_CardinalityType
<1>. QED
  BY <1>1, <1>2

\* A thread that goes from one place to another is counted there and not here.
LEMMA Moves ==
    ASSUME NThreads \in Nat, pc \in [Threads -> Labels], NEW t \in Threads, NEW to \in Labels,
           Goto(t, to), NEW label
    PROVE  Cardinality(At(label)') = Cardinality(At(label)) + (IF to = label THEN 1 ELSE 0)
                                                       - (IF pc[t] = label THEN 1 ELSE 0)
<1>1. At(label) \ {t} = At(label)' \ {t} /\ (t \in At(label) <=> pc[t] = label)
      /\ (t \in At(label)' <=> to = label)
  BY DEF At, Goto
<1>2. IsFiniteSet(At(label)) /\ IsFiniteSet(At(label)')
  <2>1. IsFiniteSet(Threads)
    BY FS_Interval DEF Threads
  <2>2. At(label) \subseteq Threads /\ At(label)' \subseteq Threads
    BY DEF At
  <2>. QED
    BY <2>1, <2>2, FS_Subset
<1>. QED
  BY <1>1, <1>2, OneElement

\* The same of the two places that matter here.
LEMMA Counts ==
    ASSUME NThreads \in Nat, Types, NEW t \in Threads, NEW to \in Labels, Goto(t, to)
    PROVE  /\ pc' \in [Threads -> Labels]
           /\ Cardinality(At("wait")') = Cardinality(At("wait"))
                 + (IF to = "wait" THEN 1 ELSE 0) - (IF pc[t] = "wait" THEN 1 ELSE 0)
           /\ Cardinality(At("notifyLast")') = Cardinality(At("notifyLast"))
                 + (IF to = "notifyLast" THEN 1 ELSE 0)
                 - (IF pc[t] = "notifyLast" THEN 1 ELSE 0)
           /\ Cardinality(At("wait")) \in Nat /\ Cardinality(At("notifyLast")) \in Nat
<1>1. pc \in [Threads -> Labels]
  BY DEF Types
<1>2. pc' \in [Threads -> Labels]
  BY <1>1 DEF Goto
<1>3. \A label \in {"wait", "notifyLast"} :
          Cardinality(At(label)') = Cardinality(At(label)) + (IF to = label THEN 1 ELSE 0)
                                                      - (IF pc[t] = label THEN 1 ELSE 0)
  BY <1>1, Moves
<1>4. Cardinality(At("wait")) \in Nat /\ Cardinality(At("notifyLast")) \in Nat
  BY Finite
<1>. QED
  BY <1>2, <1>3, <1>4

\* An allocator is made without a count.
LEMMA InitInv == ASSUME NThreads \in Nat PROVE Init => IInv
<1> SUFFICES ASSUME Init PROVE IInv
  OBVIOUS
<1>1. At("wait") = {} /\ At("notifyLast") = {}
  BY DEF Init, At
<1>2. Types
  BY DEF Init, Types, Labels
<1>. QED
  BY <1>1, <1>2, FS_EmptySet DEF Init, IInv, WaitersCounted, OneState, References

\* The application's calls: a commit takes a reference unless it calls a decommit
\* off, and a decommit wakes everybody.
LEMMA ApplicationStep ==
    ASSUME NThreads \in Nat, IInv, Application
    PROVE  IInv'
<1>1. /\ pc' = pc /\ At("wait")' = At("wait") /\ At("notifyLast")' = At("notifyLast")
      /\ Cardinality(At("wait")) \in Nat /\ Cardinality(At("notifyLast")) \in Nat
  <2>1. pc' = pc
    BY DEF Application, SetProperties, CommitCancels, CommitReuses, CommitAllocates, Decommit,
           DecommitRelease, Drop, threadVars
  <2>. QED
    BY <2>1, Finite DEF At
<1>2. CASE \E n \in Samples : SetProperties(n)
  BY <1>1, <1>2 DEF SetProperties, stateVars, waitVars, lifeVars, IInv, Types, WaitersCounted,
                    OneState, References
<1>3. CASE CommitCancels
  BY <1>1, <1>3 DEF CommitCancels, waitVars, lifeVars, IInv, Types, WaitersCounted, OneState,
                    References
<1>4. CASE CommitReuses
  BY <1>1, <1>4 DEF CommitReuses, waitVars, IInv, Types, WaitersCounted, OneState,
                    References
<1>5. ASSUME NEW gotBlock \in BOOLEAN, NEW made \in 0..MaxBuffers,
             CommitAllocates(gotBlock, made)
      PROVE  IInv'
  <2>1. /\ ~m_bCommitted /\ ~m_bDecommitInProgress /\ ~m_bDecommitInProgress'
        /\ UNCHANGED <<waitVars, pc, pcApp>>
    BY <1>1, <1>5 DEF CommitAllocates
  <2>2. \/ m_bCommitted' /\ selfRef' = selfRef + 1
        \/ ~m_bCommitted' /\ selfRef' = selfRef
    BY <1>5, <2>1 DEF CommitAllocates
  <2>. QED
    BY <1>1, <2>1, <2>2 DEF waitVars, IInv, Types, WaitersCounted, OneState, References
<1>6. CASE Decommit
  <2>1. /\ m_bCommitted \/ m_bDecommitInProgress
        /\ ~m_bCommitted' /\ m_hSem' = m_hSem + m_lWaiting /\ m_lWaiting' = 0
        /\ selfRef' = selfRef /\ pcApp = "idle"
    BY <1>6 DEF Decommit, NotifySample, lifeVars
  <2>2. \/ m_bDecommitInProgress' /\ pcApp' = "idle"
        \/ ~m_bDecommitInProgress' /\ pcApp' = "release"
    <3>1. CASE AllFree
      BY <1>6, <3>1 DEF Decommit
    <3>2. CASE ~AllFree
      BY <1>6, <3>2 DEF Decommit
    <3>. QED
      BY <3>1, <3>2
  <2>. QED
    BY <1>1, <2>1, <2>2 DEF IInv, Types, WaitersCounted, OneState, References
<1>7. CASE DecommitRelease
  BY <1>1, <1>7 DEF DecommitRelease, ReleaseSelf, stateVars, waitVars, IInv, Types,
                    WaitersCounted, OneState, References
<1>8. CASE Drop
  BY <1>1, <1>8 DEF Drop, stateVars, waitVars, IInv, Types, WaitersCounted, OneState,
                    References
<1>. QED
  BY <1>2, <1>3, <1>4, <1>5, <1>6, <1>7, <1>8 DEF Application

\* GetBuffer: a caller that finds nothing is counted under the lock.
LEMMA GetStepInv ==
    ASSUME NThreads \in Nat, IInv, NEW t \in Threads, GetBuffer(t) \/ GetStep(t)
    PROVE  IInv'
<1>1. CASE GetBuffer(t)
  BY <1>1, Counts DEF GetBuffer, stateVars, waitVars, lifeVars, IInv, Types, WaitersCounted,
                      OneState, References, Labels
<1>2. CASE GetNotCommitted(t)
  BY <1>2, Counts DEF GetNotCommitted, stateVars, waitVars, lifeVars, IInv, Types,
                      WaitersCounted, OneState, References, Labels
<1>3. CASE GetFree(t)
  BY <1>3, Counts DEF GetFree, stateVars, waitVars, lifeVars, IInv, Types, WaitersCounted,
                      OneState, References, Labels
<1>4. CASE GetAddRef(t)
  BY <1>4, Counts DEF GetAddRef, stateVars, waitVars, lifeVars, IInv, Types, WaitersCounted,
                      OneState, References, Labels
<1>5. CASE GetWait(t)
  BY <1>5, Counts DEF GetWait, stateVars, lifeVars, IInv, Types, WaitersCounted, OneState,
                      References, Labels
<1>6. CASE GetNoWait(t)
  BY <1>6, Counts DEF GetNoWait, stateVars, lifeVars, IInv, Types, WaitersCounted, OneState,
                      References, Labels
<1>7. CASE GetWake(t)
  BY <1>7, Counts DEF GetWake, stateVars, lifeVars, IInv, Types, WaitersCounted, OneState,
                      References, Labels
<1>. QED
  BY <1>1, <1>2, <1>3, <1>4, <1>5, <1>6, <1>7 DEF GetStep

\* Release and ReleaseBuffer: whoever waits is woken, and the last buffer of a
\* Decommit gives its reference back.
LEMMA ReleaseStepInv ==
    ASSUME NThreads \in Nat, IInv, NEW t \in Threads,
           ReleaseStep(t) \/ \E s \in Samples : ReleaseTest(t, s)
    PROVE  IInv'
<1>1. CASE \E s \in Samples : ReleaseTest(t, s)
  BY <1>1, Counts DEF ReleaseTest, stateVars, waitVars, lifeVars, IInv, Types, WaitersCounted,
                      OneState, References, Labels
<1>2. CASE ReleaseClear(t)
  BY <1>2, Counts DEF ReleaseClear, stateVars, waitVars, lifeVars, IInv, Types, WaitersCounted,
                      OneState, References, Labels
<1>3. CASE ReleaseDecrement(t)
  BY <1>3, Counts DEF ReleaseDecrement, stateVars, waitVars, lifeVars, IInv, Types,
                      WaitersCounted, OneState, References, Labels
<1>4. CASE ReleaseBuffer(t)
  <2>1. /\ pc[t] = "requeue" /\ m_hSem' = m_hSem + m_lWaiting /\ m_lWaiting' = 0
        /\ UNCHANGED <<m_bCommitted, selfRef, pcApp>>
    BY <1>4 DEF ReleaseBuffer, NotifySample, lifeVars
  <2>2. \/ m_bDecommitInProgress /\ ~m_bDecommitInProgress' /\ Goto(t, "notifyLast")
        \/ (m_bDecommitInProgress' <=> m_bDecommitInProgress) /\ Goto(t, "notify")
    <3>1. CASE m_bDecommitInProgress /\ Cardinality(m_lFree) + 1 = m_lAllocated
      BY <1>4, <3>1 DEF ReleaseBuffer
    <3>2. CASE ~(m_bDecommitInProgress /\ Cardinality(m_lFree) + 1 = m_lAllocated)
      BY <1>4, <3>2 DEF ReleaseBuffer
    <3>. QED
      BY <3>1, <3>2
  <2>3. CASE m_bDecommitInProgress /\ ~m_bDecommitInProgress' /\ Goto(t, "notifyLast")
    BY <2>1, <2>3, Counts DEF IInv, Types, WaitersCounted, OneState, References, Labels
  <2>4. CASE (m_bDecommitInProgress' <=> m_bDecommitInProgress) /\ Goto(t, "notify")
    BY <2>1, <2>4, Counts DEF IInv, Types, WaitersCounted, OneState, References, Labels
  <2>. QED
    BY <2>2, <2>3, <2>4
<1>5. CASE ReleaseNotify(t)
  BY <1>5, Counts DEF ReleaseNotify, ReleaseSelf, stateVars, waitVars, memoryVars, lifeVars,
                      IInv, Types, WaitersCounted, OneState, References, Labels
<1>. QED
  BY <1>1, <1>2, <1>3, <1>4, <1>5 DEF ReleaseStep

\* Every step keeps the invariant.
LEMMA NextInv ==
    ASSUME NThreads \in Nat, IInv, [Next]_vars
    PROVE  IInv'
<1>1. CASE UNCHANGED <<stateVars, m_lFree, waitVars, lifeVars, pc, pcApp>>
  BY <1>1 DEF stateVars, waitVars, lifeVars, IInv, Types, WaitersCounted, OneState,
              References, At
<1>2. ASSUME NEW t \in Threads, NEW u \in Threads, NEW s \in Samples, AddRef(t, u, s)
      PROVE  IInv'
  BY <1>1, <1>2 DEF AddRef
<1>3. CASE UNCHANGED vars
  BY <1>1, <1>3 DEF vars, threadVars
<1>. QED
  BY <1>2, <1>3, ApplicationStep, GetStepInv, ReleaseStepInv DEF Next
-----------------------------------------------------------------------------
\* Where the buffers are.

\* Places where a thread's call is about a buffer it has not on its list.
Out == {"addRef", "clear", "decrement", "requeue"}

\* EachBufferInOnePlace of one buffer, in numbers.
Counted(s) ==
    LET refs   == Cardinality(Holders(s)) + Cardinality(Releasing(s))
        moving == Cardinality(Moving(s))
    IN  \/ s \in m_lFree /\ refs = 0 /\ moving = 0 /\ m_cRef[s] = 0
        \/ s \notin m_lFree /\ refs = 0 /\ moving = 1 /\ m_cRef[s] = 0
        \/ s \notin m_lFree /\ refs > 0 /\ moving = 0 /\ m_cRef[s] = refs

PoolTypes ==
    /\ m_lAllocated \in 0..MaxBuffers /\ m_lCount \in 0..MaxBuffers
    /\ m_lFree \subseteq 1..m_lAllocated
    /\ m_cRef \in [Samples -> Int]
    /\ \A s \in Samples : s > m_lAllocated => m_cRef[s] = 0
    /\ holds \in [Threads -> SUBSET Samples]
    /\ \A t \in Threads : holds[t] \subseteq 1..m_lAllocated
    /\ arg \in [Threads -> 0..MaxBuffers]
    /\ \A t \in Threads : pc[t] \in Out => arg[t] \in 1..m_lAllocated

\* The last reference stays the last until it is cleared.
LastCleared == \A t \in Threads : pc[t] = "clear" => m_cRef[arg[t]] = 1

\* An allocator that is not committed, nor waits to be decommitted, has its buffers.
AllBack == ~m_bCommitted /\ ~m_bDecommitInProgress => m_lFree = 1..m_lAllocated

\* Who keeps the allocator: its pins, or itself.
Lives ==
    /\ ~alive => ~appRef /\ selfRef = 0
    /\ pcApp = "release" => appRef
    /\ \A t \in Threads : pc[t] \in {"get", "wait", "addRef"} => appRef

PoolInv ==
    /\ PoolTypes /\ LastCleared /\ AllBack /\ Lives
    /\ \A s \in 1..m_lAllocated : Counted(s)

Sizes == NThreads \in Nat /\ MaxBuffers \in Nat
-----------------------------------------------------------------------------
\* The sets that are counted are finite.
LEMMA PlacesFinite ==
    ASSUME Sizes, NEW s
    PROVE  /\ IsFiniteSet(Holders(s)) /\ IsFiniteSet(Releasing(s)) /\ IsFiniteSet(Moving(s))
           /\ IsFiniteSet(Holders(s)') /\ IsFiniteSet(Releasing(s)') /\ IsFiniteSet(Moving(s)')
<1>1. IsFiniteSet(Threads)
  BY FS_Interval DEF Threads, Sizes
<1>2. /\ Holders(s) \subseteq Threads /\ Releasing(s) \subseteq Threads
      /\ Moving(s) \subseteq Threads
      /\ Holders(s)' \subseteq Threads /\ Releasing(s)' \subseteq Threads
      /\ Moving(s)' \subseteq Threads
  BY DEF Holders, Releasing, Moving
<1>. QED
  BY <1>1, <1>2, FS_Subset

\* What a thread does changes the numbers of a buffer by itself.
LEMMA Tally ==
    ASSUME Sizes, NEW t \in Threads, NEW s,
           \A u \in Threads \ {t} : pc'[u] = pc[u] /\ arg'[u] = arg[u] /\ holds'[u] = holds[u]
    PROVE  /\ Cardinality(Holders(s)) \in Nat /\ Cardinality(Holders(s)') \in Nat
           /\ Cardinality(Releasing(s)) \in Nat /\ Cardinality(Releasing(s)') \in Nat
           /\ Cardinality(Moving(s)) \in Nat /\ Cardinality(Moving(s)') \in Nat
           /\ Cardinality(Holders(s)') = Cardinality(Holders(s))
                 + (IF s \in holds'[t] THEN 1 ELSE 0) - (IF s \in holds[t] THEN 1 ELSE 0)
           /\ Cardinality(Releasing(s)') = Cardinality(Releasing(s))
                 + (IF arg'[t] = s /\ pc'[t] \in {"clear", "decrement"} THEN 1 ELSE 0)
                 - (IF arg[t] = s /\ pc[t] \in {"clear", "decrement"} THEN 1 ELSE 0)
           /\ Cardinality(Moving(s)') = Cardinality(Moving(s))
                 + (IF arg'[t] = s /\ pc'[t] \in {"addRef", "requeue"} THEN 1 ELSE 0)
                 - (IF arg[t] = s /\ pc[t] \in {"addRef", "requeue"} THEN 1 ELSE 0)
<1>1. /\ Holders(s) \ {t} = Holders(s)' \ {t}
      /\ Releasing(s) \ {t} = Releasing(s)' \ {t}
      /\ Moving(s) \ {t} = Moving(s)' \ {t}
  BY DEF Holders, Releasing, Moving
<1>2. /\ t \in Holders(s) <=> s \in holds[t]
      /\ t \in Holders(s)' <=> s \in holds'[t]
  BY DEF Holders
<1>3. /\ t \in Releasing(s) <=> arg[t] = s /\ pc[t] \in {"clear", "decrement"}
      /\ t \in Releasing(s)' <=> arg'[t] = s /\ pc'[t] \in {"clear", "decrement"}
  BY DEF Releasing
<1>4. /\ t \in Moving(s) <=> arg[t] = s /\ pc[t] \in {"addRef", "requeue"}
      /\ t \in Moving(s)' <=> arg'[t] = s /\ pc'[t] \in {"addRef", "requeue"}
  BY DEF Moving
<1>5. /\ Cardinality(Holders(s)) \in Nat /\ Cardinality(Holders(s)') \in Nat
      /\ Cardinality(Releasing(s)) \in Nat /\ Cardinality(Releasing(s)') \in Nat
      /\ Cardinality(Moving(s)) \in Nat /\ Cardinality(Moving(s)') \in Nat
  BY PlacesFinite, FS_CardinalityType
<1>6. Cardinality(Holders(s)') = Cardinality(Holders(s))
          + (IF t \in Holders(s)' THEN 1 ELSE 0) - (IF t \in Holders(s) THEN 1 ELSE 0)
  BY <1>1, PlacesFinite, OneElement
<1>7. Cardinality(Releasing(s)') = Cardinality(Releasing(s))
          + (IF t \in Releasing(s)' THEN 1 ELSE 0) - (IF t \in Releasing(s) THEN 1 ELSE 0)
  BY <1>1, PlacesFinite, OneElement
<1>8. Cardinality(Moving(s)') = Cardinality(Moving(s))
          + (IF t \in Moving(s)' THEN 1 ELSE 0) - (IF t \in Moving(s) THEN 1 ELSE 0)
  BY <1>1, PlacesFinite, OneElement
<1>. QED
  BY <1>2, <1>3, <1>4, <1>5, <1>6, <1>7, <1>8

\* A buffer some thread has to do with is counted there.
LEMMA AtLeast ==
    ASSUME Sizes, NEW t \in Threads, NEW s
    PROVE  /\ s \in holds[t] => Cardinality(Holders(s)) >= 1
           /\ arg[t] = s /\ pc[t] \in {"clear", "decrement"} => Cardinality(Releasing(s)) >= 1
           /\ arg'[t] = s /\ pc'[t] \in {"clear", "decrement"} =>
                  Cardinality(Releasing(s)') >= 1
           /\ arg[t] = s /\ pc[t] \in {"addRef", "requeue"} => Cardinality(Moving(s)) >= 1
<1>1. /\ s \in holds[t] => t \in Holders(s)
      /\ arg[t] = s /\ pc[t] \in {"clear", "decrement"} => t \in Releasing(s)
      /\ arg'[t] = s /\ pc'[t] \in {"clear", "decrement"} => t \in Releasing(s)'
      /\ arg[t] = s /\ pc[t] \in {"addRef", "requeue"} => t \in Moving(s)
  BY DEF Holders, Releasing, Moving
<1>2. \A S : IsFiniteSet(S) /\ t \in S => Cardinality(S) >= 1
  BY FS_EmptySet, FS_CardinalityType
<1>. QED
  BY <1>1, <1>2, PlacesFinite

\* With all buffers on the free list no thread has to do with any.
LEMMA SelfQuiet ==
    ASSUME Sizes, PoolInv, m_lFree = 1..m_lAllocated
    PROVE  /\ \A t \in Threads : pc[t] \notin Out /\ holds[t] = {}
           /\ \A s \in Samples : m_cRef[s] = 0
<1>1. ASSUME NEW s \in 1..m_lAllocated
      PROVE  /\ Cardinality(Holders(s)) + Cardinality(Releasing(s)) = 0
             /\ Cardinality(Moving(s)) = 0 /\ m_cRef[s] = 0
  BY <1>1 DEF PoolInv, Counted
<1>2. \A s : /\ Cardinality(Holders(s)) \in Nat /\ Cardinality(Releasing(s)) \in Nat
             /\ Cardinality(Moving(s)) \in Nat
  BY PlacesFinite, FS_CardinalityType
<1>3. ASSUME NEW t \in Threads PROVE holds[t] = {}
  <2>1. ASSUME NEW s \in holds[t] PROVE FALSE
    <3>1. s \in 1..m_lAllocated
      BY DEF PoolInv, PoolTypes
    <3>. QED
      BY <1>1, <1>2, <3>1, AtLeast
  <2>. QED
    BY <2>1
<1>4. ASSUME NEW t \in Threads, pc[t] \in Out PROVE FALSE
  <2>1. arg[t] \in 1..m_lAllocated
    BY <1>4 DEF PoolInv, PoolTypes
  <2>. QED
    BY <1>1, <1>2, <1>4, <2>1, AtLeast DEF Out
<1>5. ASSUME NEW s \in Samples PROVE m_cRef[s] = 0
  BY <1>1 DEF PoolInv, PoolTypes, Samples
<1>. QED
  BY <1>3, <1>4, <1>5

\* What is left of the buffers then may be all freed, or made anew.
LEMMA Remade ==
    ASSUME Sizes, \A t \in Threads : pc'[t] \notin Out /\ holds'[t] = {},
           \A s \in Samples : m_cRef'[s] = 0, m_lAllocated' \in 0..MaxBuffers,
           m_lFree' = 1..m_lAllocated'
    PROVE  \A s \in 1..m_lAllocated' : Counted(s)'
<1> SUFFICES ASSUME NEW s \in 1..m_lAllocated' PROVE Counted(s)'
  OBVIOUS
<1>1. Holders(s)' = {} /\ Releasing(s)' = {} /\ Moving(s)' = {}
  BY DEF Holders, Releasing, Moving, Out
<1>2. s \in m_lFree' /\ m_cRef'[s] = 0
  BY DEF Samples, Sizes
<1>. QED
  BY <1>1, <1>2, FS_EmptySet DEF Counted

\* A thread that goes where it has to do with no buffer leaves the counts alone.
LEMMA NotOut ==
    ASSUME Sizes, PoolInv, NEW t \in Threads, NEW to \in Labels \ Out, pc[t] \notin Out,
           Goto(t, to), pc \in [Threads -> Labels],
           UNCHANGED <<m_lAllocated, m_lFree, m_lCount, m_cRef, holds, arg>>
    PROVE  PoolTypes' /\ LastCleared' /\ \A s \in 1..m_lAllocated' : Counted(s)'
<1>1. pc'[t] = to /\ \A u \in Threads \ {t} : pc'[u] = pc[u]
  BY DEF Goto
<1>2. PoolTypes'
  BY <1>1 DEF PoolInv, PoolTypes
<1>3. LastCleared'
  BY <1>1 DEF PoolInv, LastCleared, Out
<1>4. ASSUME NEW s \in 1..m_lAllocated PROVE Counted(s)'
  <2>1. Counted(s)
    BY DEF PoolInv
  <2>2. /\ Cardinality(Holders(s)') = Cardinality(Holders(s))
        /\ Cardinality(Releasing(s)') = Cardinality(Releasing(s))
        /\ Cardinality(Moving(s)') = Cardinality(Moving(s))
    BY <1>1, Tally DEF Out
  <2>. QED
    BY <2>1, <2>2 DEF Counted
<1>. QED
  BY <1>2, <1>3, <1>4

\* A step that touches neither threads nor lists leaves the counts alone.
LEMMA Untouched ==
    ASSUME PoolInv, UNCHANGED <<m_lAllocated, m_lFree, m_cRef, holds, arg, pc>>,
           m_lCount' \in 0..MaxBuffers
    PROVE  PoolTypes' /\ LastCleared' /\ \A s \in 1..m_lAllocated' : Counted(s)'
  BY SMTT(40) DEF PoolInv, PoolTypes, LastCleared, Counted, Holders, Releasing, Moving

\* A free list of as many buffers as there are is full.
LEMMA FullList ==
    ASSUME NEW n \in Nat, NEW S \in SUBSET (1..n), Cardinality(S) = n
    PROVE  S = 1..n
<1>1. IsFiniteSet(1..n) /\ Cardinality(1..n) = n
  BY FS_Interval
<1>. QED
  BY <1>1, FS_Subset

\* A new allocator has no buffers.
LEMMA PoolInit == ASSUME Sizes PROVE Init => PoolInv
  BY DEF Sizes, Init, PoolInv, PoolTypes, LastCleared, AllBack, Lives, Out, Samples
-----------------------------------------------------------------------------
\* The steps of the application: buffers are made anew or freed only when all are
\* back.
LEMMA PoolApplication ==
    ASSUME Sizes, IInv, PoolInv, Application
    PROVE  PoolInv'
<1>1. /\ UNCHANGED <<pc, arg, holds, m_cRef>>
      /\ selfRef \in Int /\ pc \in [Threads -> Labels]
  BY DEF Application, SetProperties, CommitCancels, CommitReuses, CommitAllocates, Decommit,
         DecommitRelease, Drop, threadVars, IInv, Types
<1>2. PoolTypes /\ LastCleared /\ AllBack /\ Lives
  BY DEF PoolInv
<1>3. ASSUME m_lFree = 1..m_lAllocated, m_lAllocated' \in 0..MaxBuffers,
             m_lFree' = 1..m_lAllocated', m_lCount' = m_lCount
      PROVE  PoolTypes' /\ LastCleared' /\ \A s \in 1..m_lAllocated' : Counted(s)'
  <2>1. /\ \A t \in Threads : pc'[t] \notin Out /\ holds'[t] = {}
        /\ \A s \in Samples : m_cRef'[s] = 0
    BY <1>1, <1>3, SelfQuiet
  <2>2. \A s \in 1..m_lAllocated' : Counted(s)'
    BY <1>3, <2>1, Remade
  <2>3. PoolTypes'
    BY <1>1, <1>2, <1>3, <2>1 DEF PoolTypes
  <2>4. LastCleared'
    BY <2>1 DEF LastCleared, Out
  <2>. QED
    BY <2>2, <2>3, <2>4
<1>4. ASSUME NEW n \in Samples, SetProperties(n) PROVE PoolInv'
  <2>1. PoolTypes' /\ LastCleared' /\ \A s \in 1..m_lAllocated' : Counted(s)'
    BY <1>1, <1>4, Untouched DEF SetProperties, Samples, Sizes
  <2>2. AllBack' /\ Lives'
    BY <1>1, <1>2, <1>4 DEF SetProperties, stateVars, lifeVars, AllBack, Lives
  <2>. QED
    BY <2>1, <2>2 DEF PoolInv
<1>5. CASE CommitCancels \/ CommitReuses
  <2>1. PoolTypes' /\ LastCleared' /\ \A s \in 1..m_lAllocated' : Counted(s)'
    BY <1>1, <1>2, <1>5, Untouched DEF CommitCancels, CommitReuses, memoryVars, PoolTypes
  <2>2. AllBack' /\ Lives'
    BY <1>1, <1>2, <1>5 DEF CommitCancels, CommitReuses, lifeVars, AllBack, Lives
  <2>. QED
    BY <2>1, <2>2 DEF PoolInv
<1>6. ASSUME NEW gotBlock \in BOOLEAN, NEW made \in 0..MaxBuffers,
             CommitAllocates(gotBlock, made)
      PROVE  PoolInv'
  <2>1. m_lFree = 1..m_lAllocated
    BY <1>2, <1>6 DEF CommitAllocates, AllBack
  <2>2. m_lAllocated' = made /\ m_lFree' = 1..made /\ m_lCount' = m_lCount
    BY <1>6 DEF CommitAllocates
  <2>3. AllBack' /\ Lives'
    BY <1>1, <1>2, <1>6, <2>2 DEF CommitAllocates, AllBack, Lives
  <2>. QED
    BY <1>3, <2>1, <2>2, <2>3 DEF PoolInv
<1>7. CASE Decommit
  <2>1. PoolTypes' /\ LastCleared' /\ \A s \in 1..m_lAllocated' : Counted(s)'
    BY <1>1, <1>2, <1>7, Untouched DEF Decommit, memoryVars, PoolTypes
  <2>2. AllFree => m_lFree = 1..m_lAllocated
    BY <1>2, FullList DEF AllFree, PoolTypes
  <2>3. AllBack'
    BY <1>7, <2>2 DEF Decommit, memoryVars, AllBack
  <2>4. Lives'
    BY <1>1, <1>2, <1>7 DEF Decommit, lifeVars, Lives
  <2>. QED
    BY <2>1, <2>3, <2>4 DEF PoolInv
<1>8. CASE DecommitRelease
  <2>1. /\ appRef /\ appRef' /\ alive' = alive
        /\ UNCHANGED <<m_lAllocated, m_lFree, m_lCount, stateVars>>
    BY <1>2, <1>8 DEF DecommitRelease, ReleaseSelf, Lives
  <2>2. PoolTypes' /\ LastCleared' /\ \A s \in 1..m_lAllocated' : Counted(s)'
    BY <1>1, <1>2, <2>1, Untouched DEF PoolTypes
  <2>3. AllBack' /\ Lives'
    BY <1>1, <1>2, <2>1 DEF stateVars, AllBack, Lives
  <2>. QED
    BY <2>2, <2>3 DEF PoolInv
<1>9. CASE Drop
  <2>1. CASE selfRef > 0
    <3>1. PoolTypes' /\ LastCleared' /\ \A s \in 1..m_lAllocated' : Counted(s)'
      BY <1>1, <1>2, <1>9, <2>1, Untouched DEF Drop, PoolTypes
    <3>2. AllBack' /\ Lives'
      BY <1>1, <1>2, <1>9, <2>1 DEF Drop, stateVars, AllBack, Lives
    <3>. QED
      BY <3>1, <3>2 DEF PoolInv
  <2>2. CASE ~(selfRef > 0)
    <3>1. selfRef = 0 /\ ~m_bCommitted /\ ~m_bDecommitInProgress
      BY <2>2, Finite DEF IInv, References, Types, Sizes
    <3>2. m_lFree = 1..m_lAllocated
      BY <1>2, <3>1 DEF AllBack
    <3>3. m_lAllocated' = 0 /\ m_lFree' = 1..m_lAllocated' /\ m_lCount' = m_lCount
      BY <1>9, <2>2 DEF Drop
    <3>4. AllBack' /\ Lives'
      BY <1>1, <1>9, <2>2, <3>1, <3>3 DEF Drop, AllBack, Lives
    <3>. QED
      BY <1>3, <3>2, <3>3, <3>4 DEF PoolInv, Sizes
  <2>. QED
    BY <2>1, <2>2
<1>. QED
  BY <1>4, <1>5, <1>6, <1>7, <1>8, <1>9 DEF Application

\* GetBuffer until it has a buffer, and the end of Release: no buffer moves.
LEMMA PoolCalls ==
    ASSUME Sizes, IInv, PoolInv, NEW t \in Threads,
           \/ GetBuffer(t) \/ GetNotCommitted(t) \/ GetWait(t) \/ GetNoWait(t) \/ GetWake(t)
           \/ ReleaseNotify(t)
    PROVE  PoolInv'
<1>1. PoolTypes /\ LastCleared /\ AllBack /\ Lives /\ pc \in [Threads -> Labels]
  BY DEF PoolInv, IInv, Types
<1>2. ASSUME NEW to \in {"get", "idle", "wait"}, Goto(t, to), pc[t] \notin Out,
             to # "idle" => appRef,
             UNCHANGED <<stateVars, memoryVars, m_lFree, lifeVars, m_cRef, holds, arg, pcApp>>
      PROVE  PoolInv'
  <2>1. PoolTypes' /\ LastCleared' /\ \A s \in 1..m_lAllocated' : Counted(s)'
    BY <1>1, <1>2, NotOut DEF memoryVars, Labels, Out
  <2>2. AllBack' /\ Lives'
    BY <1>1, <1>2 DEF stateVars, memoryVars, lifeVars, AllBack, Lives, Goto
  <2>. QED
    BY <2>1, <2>2 DEF PoolInv
<1>3. CASE GetBuffer(t) \/ GetNotCommitted(t) \/ GetWait(t) \/ GetNoWait(t) \/ GetWake(t)
  BY <1>1, <1>2, <1>3
  DEF GetBuffer, GetNotCommitted, GetWait, GetNoWait, GetWake, Lives, Out
<1>4. CASE ReleaseNotify(t) /\ (pc[t] = "notify" \/ appRef \/ selfRef > 1)
  <2>1. /\ Goto(t, "idle") /\ pc[t] \notin Out
        /\ UNCHANGED <<stateVars, m_lAllocated, m_lFree, m_lCount, m_cRef, holds, arg, pcApp,
                       alive, appRef>>
        /\ selfRef' = selfRef \/ pc[t] = "notifyLast"
    BY <1>4 DEF ReleaseNotify, ReleaseSelf, memoryVars, lifeVars, Out
  <2>2. PoolTypes' /\ LastCleared' /\ \A s \in 1..m_lAllocated' : Counted(s)'
    BY <1>1, <2>1, NotOut DEF Labels, Out
  <2>3. AllBack'
    BY <1>1, <2>1 DEF stateVars, AllBack
  <2>4. pc[t] = "notifyLast" => alive
    <3>1. pc[t] = "notifyLast" => Cardinality(At("notifyLast")) # 0
      <4>1. pc[t] = "notifyLast" => At("notifyLast") # {}
        BY DEF At
      <4>. QED
        BY <4>1, Finite, FS_EmptySet DEF Sizes
    <3>2. pc[t] = "notifyLast" => selfRef # 0
      BY <3>1, Finite DEF IInv, References, Types, Sizes
    <3>. QED
      BY <1>1, <3>2 DEF Lives
  <2>5. Lives'
    BY <1>1, <2>1, <2>4 DEF Lives, Goto
  <2>. QED
    BY <2>2, <2>3, <2>5 DEF PoolInv
<1>5. CASE ReleaseNotify(t) /\ ~(pc[t] = "notify" \/ appRef \/ selfRef > 1)
  <2>1. /\ Goto(t, "idle") /\ pc[t] = "notifyLast" /\ ~appRef /\ ~appRef' /\ ~(selfRef > 1)
        /\ selfRef' = selfRef - 1
        /\ m_lAllocated' = 0 /\ m_lFree' = {} /\ m_lCount' = m_lCount
        /\ UNCHANGED <<stateVars, m_cRef, holds, arg, pcApp>>
    BY <1>5 DEF ReleaseNotify, ReleaseSelf
  <2>2. /\ selfRef = 1 /\ ~m_bCommitted /\ ~m_bDecommitInProgress
        /\ pcApp # "release"
    <3>1. Cardinality(At("notifyLast")) # 0
      <4>1. At("notifyLast") # {}
        BY <2>1 DEF At
      <4>. QED
        BY <4>1, Finite, FS_EmptySet DEF Sizes
    <3>. QED
      BY <2>1, <3>1, Finite DEF IInv, References, Types, Sizes
  <2>3. m_lFree = 1..m_lAllocated
    BY <1>1, <2>2 DEF AllBack
  <2>4. /\ \A u \in Threads : pc'[u] \notin Out /\ holds'[u] = {}
        /\ \A s \in Samples : m_cRef'[s] = 0
    <3>1. /\ \A u \in Threads : pc[u] \notin Out /\ holds[u] = {}
          /\ \A s \in Samples : m_cRef[s] = 0
      BY <2>3, SelfQuiet
    <3>2. \A u \in Threads : pc'[u] = pc[u] \/ pc'[u] = "idle"
      BY <2>1, <1>1 DEF Goto
    <3>. QED
      BY <2>1, <3>1, <3>2 DEF Out
  <2>5. \A s \in 1..m_lAllocated' : Counted(s)'
    BY <2>1
  <2>6. PoolTypes' /\ LastCleared'
    BY <1>1, <2>1, <2>4 DEF PoolTypes, LastCleared, Out, Sizes
  <2>7. AllBack' /\ Lives'
    BY <1>1, <2>1, <2>2 DEF AllBack, Lives, Goto
  <2>. QED
    BY <2>5, <2>6, <2>7 DEF PoolInv
<1>. QED
  BY <1>3, <1>4, <1>5

\* What thread t does with buffer b, and with no other.
Turn(t, b) ==
    /\ b \in 1..m_lAllocated
    /\ pc' = [pc EXCEPT ![t] = pc'[t]] /\ arg' = [arg EXCEPT ![t] = arg'[t]]
    /\ holds' = [holds EXCEPT ![t] = holds'[t]] /\ m_cRef' = [m_cRef EXCEPT ![b] = m_cRef'[b]]
    /\ holds'[t] \ {b} = holds[t] \ {b} /\ m_lFree' \ {b} = m_lFree \ {b}
    /\ \/ (pc[t] \in Out => arg[t] = b) /\ (pc'[t] \in Out => arg'[t] = b)
       \/ pc'[t] = pc[t] /\ arg'[t] = arg[t]
    /\ UNCHANGED <<m_lAllocated, m_lCount>>

\* The numbers of that buffer.
LEMMA TurnTally ==
    ASSUME Sizes, PoolInv, pc \in [Threads -> Labels], NEW t \in Threads, NEW b, Turn(t, b), NEW s
    PROVE  /\ Cardinality(Holders(s)) \in Nat /\ Cardinality(Holders(s)') \in Nat
           /\ Cardinality(Releasing(s)) \in Nat /\ Cardinality(Releasing(s)') \in Nat
           /\ Cardinality(Moving(s)) \in Nat /\ Cardinality(Moving(s)') \in Nat
           /\ Cardinality(Holders(s)') = Cardinality(Holders(s))
                 + (IF s \in holds'[t] THEN 1 ELSE 0) - (IF s \in holds[t] THEN 1 ELSE 0)
           /\ Cardinality(Releasing(s)') = Cardinality(Releasing(s))
                 + (IF arg'[t] = s /\ pc'[t] \in {"clear", "decrement"} THEN 1 ELSE 0)
                 - (IF arg[t] = s /\ pc[t] \in {"clear", "decrement"} THEN 1 ELSE 0)
           /\ Cardinality(Moving(s)') = Cardinality(Moving(s))
                 + (IF arg'[t] = s /\ pc'[t] \in {"addRef", "requeue"} THEN 1 ELSE 0)
                 - (IF arg[t] = s /\ pc[t] \in {"addRef", "requeue"} THEN 1 ELSE 0)
<1>1. /\ arg \in [Threads -> 0..MaxBuffers] /\ holds \in [Threads -> SUBSET Samples]
  BY DEF PoolInv, PoolTypes
<1>2. \A u \in Threads \ {t} : pc'[u] = pc[u] /\ arg'[u] = arg[u] /\ holds'[u] = holds[u]
  BY <1>1 DEF Turn
<1>. QED
  BY <1>2, Tally

\* A turn keeps everything but what it does to its buffer.
LEMMA Turned ==
    ASSUME Sizes, PoolInv, pc \in [Threads -> Labels], NEW t \in Threads, NEW b, Turn(t, b),
           Counted(b)', m_cRef'[b] \in Int, arg'[t] \in 0..MaxBuffers,
           \A u \in Threads : pc'[u] = "clear" /\ arg'[u] = b => m_cRef'[b] = 1
    PROVE  PoolTypes' /\ LastCleared' /\ \A s \in 1..m_lAllocated' : Counted(s)'
<1>1. PoolTypes /\ LastCleared /\ \A s \in 1..m_lAllocated : Counted(s)
  BY DEF PoolInv
<1>2. /\ \A u \in Threads \ {t} : pc'[u] = pc[u] /\ arg'[u] = arg[u] /\ holds'[u] = holds[u]
      /\ b \in 1..m_lAllocated /\ m_lAllocated' = m_lAllocated /\ m_lCount' = m_lCount
      /\ \A s \in Samples \ {b} : m_cRef'[s] = m_cRef[s]
      /\ b \in Samples /\ 1..m_lAllocated \subseteq Samples
  <2>1. \A u \in Threads \ {t} : pc'[u] = pc[u] /\ arg'[u] = arg[u] /\ holds'[u] = holds[u]
    BY <1>1 DEF Turn, PoolTypes
  <2>2. b \in 1..m_lAllocated /\ m_lAllocated' = m_lAllocated /\ m_lCount' = m_lCount
    BY DEF Turn
  <2>3. b \in Samples /\ 1..m_lAllocated \subseteq Samples
    BY <1>1, <2>2 DEF PoolTypes, Samples, Sizes
  <2>4. \A s \in Samples \ {b} : m_cRef'[s] = m_cRef[s]
    BY <1>1 DEF Turn, PoolTypes
  <2>. QED
    BY <2>1, <2>2, <2>3, <2>4
<1>3. ASSUME NEW s \in 1..m_lAllocated, s # b PROVE Counted(s)'
  <2>1. /\ Cardinality(Holders(s)') = Cardinality(Holders(s))
        /\ Cardinality(Releasing(s)') = Cardinality(Releasing(s))
        /\ Cardinality(Moving(s)') = Cardinality(Moving(s))
    BY <1>3, TurnTally DEF Turn, Out
  <2>2. m_cRef'[s] = m_cRef[s] /\ (s \in m_lFree' <=> s \in m_lFree) /\ Counted(s)
    BY <1>1, <1>2, <1>3 DEF Turn
  <2>. QED
    BY <2>1, <2>2 DEF Counted
<1>4. PoolTypes'
  <2>1. m_lFree' \subseteq 1..m_lAllocated' /\ m_cRef' \in [Samples -> Int]
    BY <1>1, <1>2 DEF Turn, PoolTypes
  <2>2. \A s \in Samples : s > m_lAllocated' => m_cRef'[s] = 0
    BY <1>1, <1>2 DEF PoolTypes
  <2>3. holds'[t] \subseteq 1..m_lAllocated
    BY <1>1, <1>2 DEF Turn, PoolTypes
  <2>4. \A u \in Threads : holds'[u] \subseteq 1..m_lAllocated'
    BY <1>1, <1>2, <2>3 DEF PoolTypes
  <2>5. holds' \in [Threads -> SUBSET Samples] /\ arg' \in [Threads -> 0..MaxBuffers]
    BY <1>1, <1>2, <2>3 DEF Turn, PoolTypes
  <2>6. \A u \in Threads : pc'[u] \in Out => arg'[u] \in 1..m_lAllocated'
    BY <1>1, <1>2 DEF Turn, PoolTypes
  <2>. QED
    BY <1>1, <1>2, <2>1, <2>2, <2>4, <2>5, <2>6 DEF PoolTypes
<1>5. LastCleared'
  <2>1. ASSUME NEW u \in Threads, pc'[u] = "clear", arg'[u] # b PROVE m_cRef'[arg'[u]] = 1
    <3>1. pc[u] = "clear" /\ arg'[u] = arg[u] /\ m_cRef[arg[u]] = 1
      BY <1>1, <1>2, <2>1 DEF LastCleared, Turn, Out
    <3>2. arg[u] \in Samples
      BY <1>1, <1>2, <3>1 DEF PoolTypes, Out
    <3>. QED
      BY <1>2, <2>1, <3>1, <3>2
  <2>. QED
    BY <2>1 DEF LastCleared
<1>. QED
  BY <1>2, <1>3, <1>4, <1>5

\* A buffer leaves the free list and gets its first reference.
LEMMA PoolGet ==
    ASSUME Sizes, IInv, PoolInv, NEW t \in Threads, GetFree(t) \/ GetAddRef(t)
    PROVE  PoolInv'
<1>1. /\ PoolTypes /\ LastCleared /\ AllBack /\ Lives /\ pc \in [Threads -> Labels]
      /\ \A s \in 1..m_lAllocated : Counted(s)
  BY DEF PoolInv, IInv, Types
<1>2. CASE GetFree(t)
  <2>1. PICK b \in m_lFree : m_lFree' = m_lFree \ {b} /\ arg' = [arg EXCEPT ![t] = b]
    BY <1>2 DEF GetFree
  <2>2. /\ pc[t] = "get" /\ m_bCommitted /\ Goto(t, "addRef")
        /\ UNCHANGED <<stateVars, memoryVars, lifeVars, m_cRef, holds, pcApp>>
    BY <1>2 DEF GetFree
  <2>3. /\ b \in 1..m_lAllocated /\ arg'[t] = b /\ pc'[t] = "addRef"
        /\ arg \in [Threads -> 0..MaxBuffers] /\ b \in 0..MaxBuffers
    <3>1. b \in 1..m_lAllocated /\ b \in 0..MaxBuffers
      BY <1>1, <2>1 DEF PoolTypes, Sizes
    <3>2. arg \in [Threads -> 0..MaxBuffers]
      BY <1>1 DEF PoolTypes
    <3>. QED
      BY <1>1, <2>1, <2>2, <3>1, <3>2 DEF Goto
  <2>4. Turn(t, b)
    BY <1>1, <2>1, <2>2, <2>3 DEF Turn, Goto, Out, memoryVars, PoolTypes
  <2>5. Counted(b)'
    <3>1. /\ Cardinality(Holders(b)') = Cardinality(Holders(b))
          /\ Cardinality(Releasing(b)') = Cardinality(Releasing(b))
          /\ Cardinality(Moving(b)') = Cardinality(Moving(b)) + 1
      BY <1>1, <2>2, <2>3, <2>4, TurnTally
    <3>2. Counted(b) /\ b \in m_lFree /\ b \notin m_lFree' /\ m_cRef'[b] = m_cRef[b]
      BY <1>1, <2>1, <2>2, <2>3
    <3>. QED
      BY <3>1, <3>2 DEF Counted
  <2>6. \A u \in Threads : pc'[u] = "clear" /\ arg'[u] = b => m_cRef'[b] = 1
    BY <1>1, <2>1, <2>2, <2>3 DEF LastCleared, Goto
  <2>7. m_cRef'[b] \in Int
    BY <1>1, <2>2, <2>3 DEF PoolTypes, Samples
  <2>8. AllBack' /\ Lives'
    BY <1>1, <2>2, <2>3 DEF AllBack, Lives, Goto, stateVars, memoryVars, lifeVars
  <2>. QED
    BY <1>1, <2>3, <2>4, <2>5, <2>6, <2>7, <2>8, Turned DEF PoolInv
<1>3. CASE GetAddRef(t)
  <2>0. PICK b : b = arg[t]
    OBVIOUS
  <2>1. /\ pc[t] = "addRef" /\ Goto(t, "idle")
        /\ m_cRef' = [m_cRef EXCEPT ![b] = 1] /\ holds' = [holds EXCEPT ![t] = @ \cup {b}]
        /\ arg' = [arg EXCEPT ![t] = 0]
        /\ UNCHANGED <<stateVars, memoryVars, m_lFree, lifeVars, pcApp>>
    BY <1>3, <2>0 DEF GetAddRef
  <2>2. b \in 1..m_lAllocated /\ b \in Samples
    BY <1>1, <2>0, <2>1 DEF PoolTypes, Out, Samples, Sizes
  <2>3. /\ pc'[t] = "idle" /\ holds'[t] = holds[t] \cup {b} /\ m_cRef'[b] = 1
        /\ arg'[t] = 0 /\ arg[t] = b
    BY <1>1, <2>0, <2>1, <2>2 DEF PoolTypes, Goto
  <2>4. Turn(t, b)
    BY <1>1, <2>1, <2>2, <2>3 DEF Turn, Goto, Out, memoryVars, PoolTypes
  <2>5. /\ Cardinality(Holders(b)) \in Nat /\ Cardinality(Holders(b)') \in Nat
        /\ Cardinality(Releasing(b)) \in Nat /\ Cardinality(Releasing(b)') \in Nat
        /\ Cardinality(Moving(b)) \in Nat /\ Cardinality(Moving(b)') \in Nat
    BY <1>1, <2>4, TurnTally
  <2>6. Cardinality(Moving(b)') = Cardinality(Moving(b)) - 1
    <3>1. arg'[t] # b
      BY <2>2, <2>3
    <3>2. Cardinality(Moving(b)') = Cardinality(Moving(b)) + 0 - 1
      BY <1>1, <2>1, <2>3, <2>4, <3>1, TurnTally
    <3>. QED
      BY <2>5, <3>2
  <2>7. Cardinality(Releasing(b)') = Cardinality(Releasing(b))
    <3>1. Cardinality(Releasing(b)') = Cardinality(Releasing(b)) + 0 - 0
      BY <1>1, <2>1, <2>3, <2>4, TurnTally
    <3>. QED
      BY <2>5, <3>1
  <2>8. Cardinality(Moving(b)) = 1 /\ b \notin m_lFree /\ b \notin holds[t]
        /\ Cardinality(Holders(b)) = 0 /\ Cardinality(Releasing(b)) = 0
    <3>1. /\ Cardinality(Moving(b)) >= 1
          /\ b \in holds[t] => Cardinality(Holders(b)) >= 1
      BY <2>1, <2>3, AtLeast
    <3>2. Counted(b)
      BY <1>1, <2>2
    <3>. QED
      BY <2>5, <3>1, <3>2 DEF Counted
  <2>9. Cardinality(Holders(b)') = Cardinality(Holders(b)) + 1
    <3>1. b \in holds'[t]
      BY <2>3
    <3>2. Cardinality(Holders(b)') = Cardinality(Holders(b)) + 1 - 0
      BY <1>1, <2>4, <2>8, <3>1, TurnTally
    <3>. QED
      BY <2>5, <3>2
  <2>10. Counted(b)'
    <3>1. b \notin m_lFree'
      BY <2>1, <2>8
    <3>2. /\ Cardinality(Moving(b)') = 0 /\ Cardinality(Holders(b)') = 1
          /\ Cardinality(Releasing(b)') = 0
      BY <2>6, <2>7, <2>8, <2>9
    <3>. QED
      BY <2>3, <3>1, <3>2 DEF Counted
  <2>11. AllBack' /\ Lives'
    BY <1>1, <2>1, <2>3 DEF AllBack, Lives, Goto, stateVars, memoryVars, lifeVars
  <2>12. /\ m_cRef'[b] \in Int /\ arg'[t] \in 0..MaxBuffers
         /\ \A u \in Threads : pc'[u] = "clear" /\ arg'[u] = b => m_cRef'[b] = 1
    BY <2>3 DEF Sizes
  <2>13. PoolTypes' /\ LastCleared' /\ \A s \in 1..m_lAllocated' : Counted(s)'
    BY <1>1, <2>4, <2>10, <2>12, Turned
  <2>. QED
    BY <2>11, <2>13 DEF PoolInv
<1>. QED
  BY <1>2, <1>3

\* A holder passes a reference on: the buffer stays out, with one more.
LEMMA PoolAddRef ==
    ASSUME Sizes, IInv, PoolInv, NEW t \in Threads, NEW u \in Threads, NEW b \in Samples,
           AddRef(t, u, b)
    PROVE  PoolInv'
<1>1. /\ PoolTypes /\ LastCleared /\ AllBack /\ Lives /\ pc \in [Threads -> Labels]
      /\ \A s \in 1..m_lAllocated : Counted(s)
  BY DEF PoolInv, IInv, Types
<1>2. /\ b \in holds[t] /\ b \notin holds[u]
      /\ m_cRef' = [m_cRef EXCEPT ![b] = @ + 1] /\ holds' = [holds EXCEPT ![u] = @ \cup {b}]
      /\ UNCHANGED <<stateVars, memoryVars, m_lFree, lifeVars, pc, arg, pcApp>>
  BY DEF AddRef
<1>3. /\ b \in 1..m_lAllocated /\ m_cRef[b] \in Int
      /\ m_cRef'[b] = m_cRef[b] + 1 /\ holds'[u] = holds[u] \cup {b}
      /\ pc'[u] = pc[u] /\ arg'[u] = arg[u] /\ arg'[u] \in 0..MaxBuffers
  BY <1>1, <1>2 DEF PoolTypes
<1>4. Turn(u, b)
  BY <1>1, <1>2, <1>3 DEF Turn, memoryVars, PoolTypes
<1>5. /\ Cardinality(Holders(b)) \in Nat /\ Cardinality(Holders(b)') \in Nat
      /\ Cardinality(Releasing(b)) \in Nat /\ Cardinality(Releasing(b)') \in Nat
      /\ Cardinality(Moving(b)) \in Nat /\ Cardinality(Moving(b)') \in Nat
  BY <1>1, <1>4, TurnTally
<1>6. Cardinality(Holders(b)') = Cardinality(Holders(b)) + 1
  <2>1. b \in holds'[u]
    BY <1>3
  <2>2. Cardinality(Holders(b)') = Cardinality(Holders(b)) + 1 - 0
    BY <1>1, <1>2, <1>4, <2>1, TurnTally
  <2>. QED
    BY <1>5, <2>2
<1>7. Releasing(b)' = Releasing(b) /\ Moving(b)' = Moving(b)
  BY <1>2 DEF Releasing, Moving
<1>8. Cardinality(Holders(b)) >= 1
  BY <1>2, AtLeast
<1>9. /\ b \notin m_lFree /\ Cardinality(Moving(b)) = 0
      /\ m_cRef[b] = Cardinality(Holders(b)) + Cardinality(Releasing(b))
  <2>1. Counted(b)
    BY <1>1, <1>3
  <2>. QED
    BY <1>5, <1>8, <2>1 DEF Counted
<1>10. Counted(b)'
  <2>1. /\ Cardinality(Moving(b)') = 0
        /\ Cardinality(Holders(b)') + Cardinality(Releasing(b)') > 0
        /\ m_cRef'[b] = Cardinality(Holders(b)') + Cardinality(Releasing(b)')
    BY <1>3, <1>5, <1>6, <1>7, <1>9
  <2>2. b \notin m_lFree'
    BY <1>2, <1>9
  <2>. QED
    BY <2>1, <2>2 DEF Counted
<1>11. ASSUME NEW w \in Threads, pc'[w] = "clear", arg'[w] = b PROVE FALSE
  <2>1. m_cRef[b] = 1
    BY <1>1, <1>2, <1>11 DEF LastCleared
  <2>2. Cardinality(Releasing(b)) >= 1
    BY <1>2, <1>11, AtLeast
  <2>. QED
    BY <1>5, <1>8, <1>9, <2>1, <2>2
<1>12. AllBack' /\ Lives'
  BY <1>1, <1>2 DEF AllBack, Lives, stateVars, memoryVars, lifeVars
<1>13. PoolTypes' /\ LastCleared' /\ \A s \in 1..m_lAllocated' : Counted(s)'
  <2>1. \A w \in Threads : pc'[w] = "clear" /\ arg'[w] = b => m_cRef'[b] = 1
    BY <1>11
  <2>2. m_cRef'[b] \in Int
    BY <1>3
  <2>. QED
    BY <1>1, <1>3, <1>4, <1>10, <2>1, <2>2, Turned
<1>. QED
  BY <1>12, <1>13 DEF PoolInv

\* The test for the last reference: the reference is on its way out, and counted.
LEMMA PoolTest ==
    ASSUME Sizes, IInv, PoolInv, NEW t \in Threads, NEW b \in Samples, ReleaseTest(t, b)
    PROVE  PoolInv'
<1>1. /\ PoolTypes /\ LastCleared /\ AllBack /\ Lives /\ pc \in [Threads -> Labels]
      /\ \A s \in 1..m_lAllocated : Counted(s)
  BY DEF PoolInv, IInv, Types
<1>2. /\ pc[t] = "idle" /\ b \in holds[t]
      /\ holds' = [holds EXCEPT ![t] = @ \ {b}] /\ arg' = [arg EXCEPT ![t] = b]
      /\ Goto(t, IF m_cRef[b] = 1 THEN "clear" ELSE "decrement")
      /\ UNCHANGED <<stateVars, memoryVars, m_lFree, lifeVars, m_cRef, pcApp>>
  BY DEF ReleaseTest
<1>3. /\ b \in 1..m_lAllocated /\ m_cRef'[b] \in Int
      /\ holds'[t] = holds[t] \ {b} /\ arg'[t] = b /\ arg'[t] \in 0..MaxBuffers
      /\ pc'[t] \in {"clear", "decrement"} /\ (pc'[t] = "clear" => m_cRef[b] = 1)
  BY <1>1, <1>2 DEF PoolTypes, Goto, Samples
<1>4. Turn(t, b)
  BY <1>1, <1>2, <1>3 DEF Turn, memoryVars, PoolTypes, Goto, Out
<1>5. /\ Cardinality(Holders(b)) \in Nat /\ Cardinality(Releasing(b)) \in Nat
      /\ Cardinality(Holders(b)') = Cardinality(Holders(b)) - 1
      /\ Cardinality(Releasing(b)') = Cardinality(Releasing(b)) + 1
      /\ Cardinality(Moving(b)') = Cardinality(Moving(b))
  <2>1. /\ Cardinality(Holders(b)) \in Nat /\ Cardinality(Releasing(b)) \in Nat
        /\ Cardinality(Moving(b)) \in Nat
    BY <1>1, <1>4, TurnTally
  <2>2. b \in holds[t] /\ b \notin holds'[t]
    BY <1>2, <1>3
  <2>3. Cardinality(Holders(b)') = Cardinality(Holders(b)) + 0 - 1
    BY <1>1, <1>4, <2>2, TurnTally
  <2>4. Cardinality(Releasing(b)') = Cardinality(Releasing(b)) + 1 - 0
    BY <1>1, <1>2, <1>3, <1>4, TurnTally
  <2>5. Cardinality(Moving(b)') = Cardinality(Moving(b)) + 0 - 0
    BY <1>1, <1>2, <1>3, <1>4, TurnTally
  <2>. QED
    BY <2>1, <2>3, <2>4, <2>5
<1>6. Counted(b)'
  <2>1. Counted(b)
    BY <1>1, <1>3
  <2>2. (b \in m_lFree' <=> b \in m_lFree) /\ m_cRef'[b] = m_cRef[b]
    BY <1>2
  <2>3. Cardinality(Holders(b)') + Cardinality(Releasing(b)')
        = Cardinality(Holders(b)) + Cardinality(Releasing(b))
    BY <1>5
  <2>. QED
    BY <1>5, <2>1, <2>2, <2>3 DEF Counted
<1>7. \A u \in Threads : pc'[u] = "clear" /\ arg'[u] = b => m_cRef'[b] = 1
  BY <1>1, <1>2, <1>3 DEF LastCleared, Goto, PoolTypes
<1>8. AllBack' /\ Lives'
  BY <1>1, <1>2, <1>3 DEF AllBack, Lives, Goto, stateVars, memoryVars, lifeVars
<1>9. PoolTypes' /\ LastCleared' /\ \A s \in 1..m_lAllocated' : Counted(s)'
  BY <1>1, <1>3, <1>4, <1>6, <1>7, Turned
<1>. QED
  BY <1>8, <1>9 DEF PoolInv

\* The end of a reference: the last one sends the buffer back, by the test or by the
\* decrement, and no two threads can both have the last.
LEMMA PoolDrop ==
    ASSUME Sizes, IInv, PoolInv, NEW t \in Threads, ReleaseClear(t) \/ ReleaseDecrement(t)
    PROVE  PoolInv'
<1>1. /\ PoolTypes /\ LastCleared /\ AllBack /\ Lives /\ pc \in [Threads -> Labels]
      /\ \A s \in 1..m_lAllocated : Counted(s)
  BY DEF PoolInv, IInv, Types
<1>2. PICK b : b = arg[t]
  OBVIOUS
<1>3. /\ pc[t] \in {"clear", "decrement"} /\ (pc[t] = "clear" => m_cRef[b] = 1)
      /\ UNCHANGED <<stateVars, memoryVars, m_lFree, lifeVars, holds, pcApp>>
      /\ m_cRef' = [m_cRef EXCEPT ![b] = m_cRef'[b]] /\ pc' = [pc EXCEPT ![t] = pc'[t]]
      /\ arg' = [arg EXCEPT ![t] = arg'[t]]
  BY <1>1, <1>2 DEF ReleaseClear, ReleaseDecrement, LastCleared, Goto, PoolTypes
<1>4. b \in 1..m_lAllocated /\ b \in Samples /\ m_cRef[b] \in Int
  BY <1>1, <1>2, <1>3 DEF PoolTypes, Out, Samples, Sizes
<1>5. m_cRef'[b] = m_cRef[b] - 1
  BY <1>1, <1>2, <1>3, <1>4 DEF ReleaseClear, ReleaseDecrement, PoolTypes
<1>6. IF m_cRef[b] = 1 THEN pc'[t] = "requeue" /\ arg'[t] = b
                       ELSE pc'[t] = "idle" /\ arg'[t] = 0
  BY <1>1, <1>2, <1>3, <1>4 DEF ReleaseClear, ReleaseDecrement, PoolTypes, Goto
<1>7. Turn(t, b)
  BY <1>1, <1>2, <1>3, <1>4, <1>6 DEF Turn, memoryVars, PoolTypes, Out
<1>8. /\ Cardinality(Holders(b)) \in Nat /\ Cardinality(Releasing(b)) \in Nat
      /\ Cardinality(Moving(b)) \in Nat
      /\ Cardinality(Holders(b)') = Cardinality(Holders(b))
      /\ Cardinality(Releasing(b)') = Cardinality(Releasing(b)) - 1
      /\ Cardinality(Moving(b)') = Cardinality(Moving(b))
                                       + (IF m_cRef[b] = 1 THEN 1 ELSE 0)
  <2>1. /\ Cardinality(Holders(b)) \in Nat /\ Cardinality(Releasing(b)) \in Nat
        /\ Cardinality(Moving(b)) \in Nat
    BY <1>1, <1>7, TurnTally
  <2>2. Holders(b)' = Holders(b)
    BY <1>3 DEF Holders
  <2>3. pc'[t] \notin {"clear", "decrement"} /\ arg[t] = b
        /\ (pc'[t] \in {"addRef", "requeue"} /\ arg'[t] = b <=> m_cRef[b] = 1)
    BY <1>2, <1>6
  <2>4. Cardinality(Releasing(b)') = Cardinality(Releasing(b)) + 0 - 1
    BY <1>1, <1>3, <1>7, <2>3, TurnTally
  <2>5. Cardinality(Moving(b)') = Cardinality(Moving(b))
                                      + (IF m_cRef[b] = 1 THEN 1 ELSE 0) - 0
    BY <1>1, <1>3, <1>7, <2>3, TurnTally
  <2>. QED
    BY <2>1, <2>2, <2>4, <2>5
<1>9. /\ b \notin m_lFree /\ Cardinality(Moving(b)) = 0
      /\ m_cRef[b] = Cardinality(Holders(b)) + Cardinality(Releasing(b))
      /\ Cardinality(Releasing(b)) >= 1
  <2>1. Counted(b)
    BY <1>1, <1>4
  <2>2. Cardinality(Releasing(b)) >= 1
    BY <1>2, <1>3, AtLeast
  <2>. QED
    BY <1>8, <2>1, <2>2 DEF Counted
<1>10. Counted(b)'
  <2>1. b \notin m_lFree'
    BY <1>3, <1>9
  <2>2. CASE m_cRef[b] = 1
    <3>1. /\ Cardinality(Holders(b)') + Cardinality(Releasing(b)') = 0
          /\ Cardinality(Moving(b)') = 1 /\ m_cRef'[b] = 0
      BY <1>5, <1>8, <1>9, <2>2
    <3>. QED
      BY <2>1, <3>1 DEF Counted
  <2>3. CASE m_cRef[b] # 1
    <3>1. /\ Cardinality(Holders(b)') + Cardinality(Releasing(b)') > 0
          /\ Cardinality(Moving(b)') = 0
          /\ m_cRef'[b] = Cardinality(Holders(b)') + Cardinality(Releasing(b)')
      BY <1>5, <1>8, <1>9, <2>3
    <3>. QED
      BY <2>1, <3>1 DEF Counted
  <2>. QED
    BY <2>2, <2>3
<1>11. ASSUME NEW u \in Threads, pc'[u] = "clear", arg'[u] = b PROVE FALSE
  <2>1. u # t /\ pc[u] = "clear" /\ arg[u] = b
    BY <1>1, <1>3, <1>6, <1>11 DEF PoolTypes
  <2>2. m_cRef[b] = 1
    BY <1>1, <2>1 DEF LastCleared
  <2>3. Cardinality(Releasing(b)') >= 1
    BY <1>11, AtLeast
  <2>. QED
    BY <1>8, <1>9, <2>2, <2>3
<1>12. AllBack' /\ Lives'
  BY <1>1, <1>3, <1>6 DEF AllBack, Lives, stateVars, memoryVars, lifeVars
<1>13. PoolTypes' /\ LastCleared' /\ \A s \in 1..m_lAllocated' : Counted(s)'
  <2>1. \A u \in Threads : pc'[u] = "clear" /\ arg'[u] = b => m_cRef'[b] = 1
    BY <1>11
  <2>2. m_cRef'[b] \in Int
    BY <1>4, <1>5
  <2>3. arg'[t] \in 0..MaxBuffers
    BY <1>4, <1>6 DEF Samples, Sizes
  <2>. QED
    BY <1>1, <1>7, <1>10, <2>1, <2>2, <2>3, Turned
<1>. QED
  BY <1>12, <1>13 DEF PoolInv

\* The buffer is back on the free list; the last one back completes a Decommit.
LEMMA PoolRequeue ==
    ASSUME Sizes, IInv, PoolInv, NEW t \in Threads, ReleaseBuffer(t)
    PROVE  PoolInv'
<1>1. /\ PoolTypes /\ LastCleared /\ AllBack /\ Lives /\ pc \in [Threads -> Labels]
      /\ \A s \in 1..m_lAllocated : Counted(s)
  BY DEF PoolInv, IInv, Types
<1>2. PICK b : b = arg[t]
  OBVIOUS
<1>3. /\ pc[t] = "requeue" /\ m_lFree' = m_lFree \cup {b} /\ arg' = [arg EXCEPT ![t] = 0]
      /\ pc' = [pc EXCEPT ![t] = pc'[t]] /\ pc'[t] \in {"notify", "notifyLast"}
      /\ UNCHANGED <<m_bCommitted, memoryVars, lifeVars, m_cRef, holds, pcApp>>
  BY <1>1, <1>2 DEF ReleaseBuffer, Goto
<1>4. b \in 1..m_lAllocated /\ b \in Samples /\ m_cRef[b] \in Int /\ arg'[t] = 0
  BY <1>1, <1>2, <1>3 DEF PoolTypes, Out, Samples, Sizes
<1>5. Turn(t, b)
  BY <1>1, <1>2, <1>3, <1>4 DEF Turn, memoryVars, PoolTypes, Out
<1>6. /\ Cardinality(Holders(b)) \in Nat /\ Cardinality(Releasing(b)) \in Nat
      /\ Cardinality(Moving(b)) \in Nat
      /\ Cardinality(Holders(b)') = Cardinality(Holders(b))
      /\ Cardinality(Releasing(b)') = Cardinality(Releasing(b))
      /\ Cardinality(Moving(b)') = Cardinality(Moving(b)) - 1
  <2>1. /\ Cardinality(Holders(b)) \in Nat /\ Cardinality(Releasing(b)) \in Nat
        /\ Cardinality(Moving(b)) \in Nat
    BY <1>1, <1>5, TurnTally
  <2>2. Holders(b)' = Holders(b)
    BY <1>3 DEF Holders
  <2>3. arg[t] = b /\ arg'[t] # b
    BY <1>2, <1>4
  <2>4. Cardinality(Releasing(b)') = Cardinality(Releasing(b)) + 0 - 0
    BY <1>1, <1>3, <1>5, <2>3, TurnTally
  <2>5. Cardinality(Moving(b)') = Cardinality(Moving(b)) + 0 - 1
    BY <1>1, <1>3, <1>5, <2>3, TurnTally
  <2>. QED
    BY <2>1, <2>2, <2>4, <2>5
<1>7. /\ b \notin m_lFree /\ Cardinality(Moving(b)) = 1 /\ m_cRef[b] = 0
      /\ Cardinality(Holders(b)) + Cardinality(Releasing(b)) = 0
  <2>1. Counted(b)
    BY <1>1, <1>4
  <2>2. Cardinality(Moving(b)) >= 1
    BY <1>2, <1>3, AtLeast
  <2>. QED
    BY <1>6, <2>1, <2>2 DEF Counted
<1>8. Counted(b)'
  <2>1. b \in m_lFree' /\ m_cRef'[b] = 0
    BY <1>3, <1>7
  <2>2. /\ Cardinality(Holders(b)') + Cardinality(Releasing(b)') = 0
        /\ Cardinality(Moving(b)') = 0
    BY <1>6, <1>7
  <2>. QED
    BY <2>1, <2>2 DEF Counted
<1>9. ASSUME NEW u \in Threads, pc'[u] = "clear", arg'[u] = b PROVE FALSE
  <2>1. pc[u] = "clear" /\ arg[u] = b
    BY <1>1, <1>3, <1>4, <1>9 DEF PoolTypes
  <2>. QED
    BY <1>1, <1>7, <2>1 DEF LastCleared
<1>10. PoolTypes' /\ LastCleared' /\ \A s \in 1..m_lAllocated' : Counted(s)'
  <2>1. \A u \in Threads : pc'[u] = "clear" /\ arg'[u] = b => m_cRef'[b] = 1
    BY <1>9
  <2>2. m_cRef'[b] \in Int /\ arg'[t] \in 0..MaxBuffers
    BY <1>3, <1>4 DEF Sizes
  <2>. QED
    BY <1>1, <1>5, <1>8, <2>1, <2>2, Turned
<1>11. AllBack'
  <2> SUFFICES ASSUME ~m_bCommitted', ~m_bDecommitInProgress'
               PROVE  m_lFree' = 1..m_lAllocated'
    BY DEF AllBack
  <2>0. ~m_bCommitted
    BY <1>3
  <2>1. m_bDecommitInProgress
    BY <1>1, <1>4, <1>7, <2>0 DEF AllBack
  <2>2. Cardinality(m_lFree) + 1 = m_lAllocated
    BY <2>1 DEF ReleaseBuffer
  <2>3. IsFiniteSet(m_lFree) /\ m_lFree' \subseteq 1..m_lAllocated
    <3>1. m_lFree \subseteq 1..m_lAllocated /\ m_lAllocated \in Int
      BY <1>1 DEF PoolTypes, Sizes
    <3>2. IsFiniteSet(1..m_lAllocated)
      BY <3>1, FS_Interval
    <3>. QED
      BY <1>3, <1>4, <3>1, <3>2, FS_Subset
  <2>4. Cardinality(m_lFree') = m_lAllocated
    BY <1>3, <1>7, <2>2, <2>3, FS_AddElement
  <2>5. m_lAllocated \in Nat /\ m_lAllocated' = m_lAllocated
    BY <1>1, <1>3 DEF PoolTypes, memoryVars, Sizes
  <2>. QED
    BY <2>3, <2>4, <2>5, FullList
<1>12. Lives'
  BY <1>1, <1>3 DEF Lives, lifeVars
<1>. QED
  BY <1>10, <1>11, <1>12 DEF PoolInv

\* Every step keeps the buffers where they can be found.
LEMMA PoolNext ==
    ASSUME Sizes, IInv, PoolInv, [Next]_vars
    PROVE  PoolInv'
<1>1. CASE UNCHANGED vars
  <2>1. PoolTypes' /\ LastCleared' /\ \A s \in 1..m_lAllocated' : Counted(s)'
    BY <1>1, Untouched DEF vars, memoryVars, threadVars, PoolInv, PoolTypes
  <2>2. AllBack' /\ Lives'
    BY <1>1 DEF vars, stateVars, memoryVars, lifeVars, threadVars, PoolInv, AllBack, Lives
  <2>. QED
    BY <2>1, <2>2 DEF PoolInv
<1>2. CASE Application
  BY <1>2, PoolApplication
<1>3. ASSUME NEW t \in Threads, GetBuffer(t) \/ GetStep(t) \/ ReleaseStep(t)
      PROVE  PoolInv'
  BY <1>3, PoolCalls, PoolGet, PoolDrop, PoolRequeue DEF GetStep, ReleaseStep
<1>4. ASSUME NEW t \in Threads, NEW s \in Samples, ReleaseTest(t, s)
      PROVE  PoolInv'
  BY <1>4, PoolTest
<1>5. ASSUME NEW t \in Threads, NEW u \in Threads, NEW s \in Samples, AddRef(t, u, s)
      PROVE  PoolInv'
  BY <1>5, PoolAddRef
<1>. QED
  BY <1>1, <1>2, <1>3, <1>4, <1>5 DEF Next
-----------------------------------------------------------------------------
\* A thread that waits for a buffer does not sleep through one that is free, nor
\* through a decommit (ReleaseSemaphore in NotifySample).
THEOREM WakeUps ==
    ASSUME NThreads \in Nat
    PROVE  Spec => []NoLostWakeUp
<1>1. Init => IInv
  BY InitInv
<1>2. IInv /\ [Next]_vars => IInv'
  BY NextInv
<1>3. IInv => NoLostWakeUp
  BY Finite DEF IInv, Types, WaitersCounted, NoLostWakeUp, Waiters, At
<1>. QED
  BY <1>1, <1>2, <1>3, PTL DEF Spec

\* The reference that Commit takes is given back exactly once (Decommit, or the
\* ReleaseBuffer that completes it).
THEOREM OneSelfReference ==
    ASSUME NThreads \in Nat
    PROVE  Spec => []SelfReference
<1>1. Init => IInv
  BY InitInv
<1>2. IInv /\ [Next]_vars => IInv'
  BY NextInv
<1>3. IInv => SelfReference
  BY DEF IInv, References, SelfReference, At
<1>. QED
  BY <1>1, <1>2, <1>3, PTL DEF Spec

\* A buffer is free, or on its way in one thread, or out with as many references as
\* its count says: CMediaSample::Release returns it once.
THEOREM BuffersInPlace ==
    ASSUME Sizes
    PROVE  Spec => []EachBufferInOnePlace
<1>1. Init => IInv /\ PoolInv
  BY InitInv, PoolInit DEF Sizes
<1>2. IInv /\ PoolInv /\ [Next]_vars => IInv' /\ PoolInv'
  BY NextInv, PoolNext DEF Sizes
<1>3. PoolInv => EachBufferInOnePlace
  <2> SUFFICES ASSUME PoolInv, NEW s \in 1..m_lAllocated
               PROVE  LET refs == Cardinality(Holders(s)) + Cardinality(Releasing(s))
                      IN  \/ s \in m_lFree /\ refs = 0 /\ Moving(s) = {} /\ m_cRef[s] = 0
                          \/ s \notin m_lFree /\ refs = 0 /\ Cardinality(Moving(s)) = 1
                             /\ m_cRef[s] = 0
                          \/ s \notin m_lFree /\ refs > 0 /\ Moving(s) = {}
                             /\ m_cRef[s] = refs
    BY DEF EachBufferInOnePlace
  <2>1. Counted(s)
    BY DEF PoolInv
  <2>2. Cardinality(Moving(s)) = 0 <=> Moving(s) = {}
    BY PlacesFinite, FS_EmptySet
  <2>. QED
    BY <2>1, <2>2 DEF Counted
<1>. QED
  BY <1>1, <1>2, <1>3, PTL DEF Spec

\* As long as a buffer is out, or a call for one is under way, the allocator is
\* there: its pins or itself hold it.
THEOREM OwnerOfBuffers ==
    ASSUME Sizes
    PROVE  Spec => []BuffersOwned
<1>1. Init => IInv /\ PoolInv
  BY InitInv, PoolInit DEF Sizes
<1>2. IInv /\ PoolInv /\ [Next]_vars => IInv' /\ PoolInv'
  BY NextInv, PoolNext DEF Sizes
<1>3. IInv /\ PoolInv => BuffersOwned
  <2> SUFFICES ASSUME IInv, PoolInv, NEW t \in Threads, ~alive,
                      holds[t] # {} \/ pc[t] \in Labels \ {"idle", "notify"}
               PROVE  FALSE
    BY DEF BuffersOwned
  <2>1. ~appRef /\ selfRef = 0
    BY DEF PoolInv, Lives
  <2>2. ~m_bCommitted /\ ~m_bDecommitInProgress /\ Cardinality(At("notifyLast")) = 0
    BY <2>1, Finite DEF IInv, References, Sizes
  <2>3. holds[t] = {} /\ pc[t] \notin Out
    BY <2>2, SelfQuiet DEF PoolInv, AllBack
  <2>4. pc[t] # "notifyLast"
    <3>1. At("notifyLast") = {}
      BY <2>2, Finite, FS_EmptySet DEF Sizes
    <3>. QED
      BY <3>1 DEF At
  <2>5. pc[t] \notin {"get", "wait"}
    BY <2>1 DEF PoolInv, Lives
  <2>. QED
    BY <2>3, <2>4, <2>5 DEF Labels, Out
<1>. QED
  BY <1>1, <1>2, <1>3, PTL DEF Spec

\* What Commit finds when nothing was changed is all that was asked for: the flag is
\* only cleared by an Alloc that made every buffer (amfilter.cpp lines 4975 to 5050).
THEOREM ReusedMemory == Spec => []ReuseIsComplete
<1>1. Init => ReuseIsComplete
  BY DEF Init, ReuseIsComplete
<1>2. ReuseIsComplete /\ [Next]_vars => ReuseIsComplete'
  <2> SUFFICES ASSUME ReuseIsComplete, [Next]_vars PROVE ReuseIsComplete'
    OBVIOUS
  <2>1. ASSUME NEW n \in Samples, SetProperties(n) PROVE ReuseIsComplete'
    BY <2>1 DEF SetProperties, ReuseIsComplete
  <2>2. CASE CommitCancels \/ CommitReuses \/ Decommit
    BY <2>2 DEF CommitCancels, CommitReuses, Decommit, ReuseIsComplete, memoryVars, lifeVars
  <2>3. ASSUME NEW gotBlock \in BOOLEAN, NEW made \in 0..MaxBuffers,
               CommitAllocates(gotBlock, made)
        PROVE  ReuseIsComplete'
    BY <2>3 DEF CommitAllocates, ReuseIsComplete
  <2>4. CASE DecommitRelease
    BY <2>4 DEF DecommitRelease, ReleaseSelf, ReuseIsComplete
  <2>5. CASE Drop
    BY <2>5 DEF Drop, ReuseIsComplete
  <2>6. ASSUME NEW t \in Threads, GetBuffer(t) \/ GetStep(t) PROVE ReuseIsComplete'
    BY <2>6 DEF GetBuffer, GetStep, GetNotCommitted, GetFree, GetAddRef, GetWait, GetNoWait,
       GetWake, ReuseIsComplete, memoryVars, lifeVars
  <2>7. ASSUME NEW t \in Threads, ReleaseNotify(t) PROVE ReuseIsComplete'
    BY <2>7 DEF ReleaseNotify, ReleaseSelf, ReuseIsComplete, memoryVars, lifeVars
  <2>8. ASSUME NEW t \in Threads, ReleaseClear(t) \/ ReleaseDecrement(t) \/ ReleaseBuffer(t)
        PROVE  ReuseIsComplete'
    BY <2>8 DEF ReleaseClear, ReleaseDecrement, ReleaseBuffer, ReuseIsComplete, memoryVars,
       lifeVars
  <2>9. ASSUME NEW t \in Threads, NEW s \in Samples, ReleaseTest(t, s) PROVE ReuseIsComplete'
    BY <2>9 DEF ReleaseTest, ReuseIsComplete, memoryVars, lifeVars
  <2>10. ASSUME NEW t \in Threads, NEW u \in Threads, NEW s \in Samples, AddRef(t, u, s)
         PROVE  ReuseIsComplete'
    BY <2>10 DEF AddRef, ReuseIsComplete, memoryVars, lifeVars
  <2>11. CASE UNCHANGED vars
    BY <2>11 DEF vars, ReuseIsComplete, memoryVars, lifeVars
  <2>. QED
    BY <2>1, <2>2, <2>3, <2>4, <2>5, <2>6, <2>7, <2>8, <2>9, <2>10, <2>11
    DEF Next, Application, ReleaseStep
<1>. QED
  BY <1>1, <1>2, PTL DEF Spec

\* No buffer is lost, doubled or out of reach, the allocator outlives them and reuses
\* only memory that is complete, for any number of threads and buffers
\* (amfilter.cpp lines 3342 to 3380, 4727 to 4860 and 4975 to 5050).
THEOREM BuffersKept ==
    ASSUME Sizes
    PROVE  Spec => []BuffersAccounted
<1>1. NThreads \in Nat
  BY DEF Sizes
<1>2. Spec => []EachBufferInOnePlace
  BY BuffersInPlace
<1>3. Spec => []BuffersOwned
  BY OwnerOfBuffers
<1>4. Spec => []SelfReference
  BY <1>1, OneSelfReference
<1>. QED
  BY <1>2, <1>3, <1>4, ReusedMemory, PTL DEF BuffersAccounted
-----------------------------------------------------------------------------
\* The dynamic output pin (amfilter.cpp).

\* The streaming thread waits, and looks again after it, without using the pin.
WaitsUnused ==
    pcStream \in {"wait", "relock"} => m_dwNumOutstandingOutputPinUsers = 0

DynamicInv == DynamicPin!TypeOK /\ WaitsUnused /\ DynamicPin!BlockStateValid
\* A new pin is in a valid state.
LEMMA DynamicInit == DynamicPin!Init => DynamicInv
  <1> SUFFICES ASSUME DynamicPin!Init PROVE DynamicInv
    OBVIOUS
  <1>1. DynamicPin!FlagsOK
    BY DEF DynamicPin!Init, DynamicPin!FlagsOK
  <1>2. DynamicPin!TypeOK
    BY <1>1, CallersAssumption DEF DynamicPin!Init, DynamicPin!TypeOK,
            DynamicPin!Nobody, DynamicPin!Types
  <1>3. WaitsUnused /\ DynamicPin!BlockStateValid
    BY  DEF DynamicPin!Init, WaitsUnused, DynamicPin!BlockStateValid, DynamicPin!Nobody,
            DynamicPin!StreamingThreadUsingOutputPin
  <1> QED BY <1>2, <1>3 DEF DynamicInv

\* The calls of the application threads keep it: Block, also when it is refused or
\* returns, and Unblock.
LEMMA CallersInv ==
    ASSUME DynamicInv, NEW c \in Callers,
           \/ DynamicPin!Block(c) \/ DynamicPin!BlockRefused(c)
           \/ DynamicPin!BlockReturns(c) \/ DynamicPin!Unblock(c)
    PROVE  DynamicInv'
  <1> USE CallersAssumption DEF DynamicInv, DynamicPin!TypeOK, DynamicPin!FlagsOK,
          WaitsUnused, DynamicPin!BlockStateValid, DynamicPin!Nobody,
          DynamicPin!StreamingThreadUsingOutputPin, DynamicPin!streamVars,
          DynamicPin!typeVars, DynamicPin!filterVars
  <1>1. CASE DynamicPin!Block(c)
    <2>1. CASE DynamicPin!StreamingThreadUsingOutputPin
      BY <1>1, <2>1 DEF DynamicPin!Block
    <2>2. CASE ~DynamicPin!StreamingThreadUsingOutputPin
      BY <1>1, <2>2 DEF DynamicPin!Block, DynamicPin!BlockOutputPin
    <2> QED BY <2>1, <2>2
  <1>2. CASE DynamicPin!BlockRefused(c)
    BY <1>2 DEF DynamicPin!BlockRefused
  <1>3. CASE DynamicPin!BlockReturns(c)
    BY <1>3 DEF DynamicPin!BlockReturns
  <1>4. CASE DynamicPin!Unblock(c)
    BY <1>4 DEF DynamicPin!Unblock
  <1> QED BY <1>1, <1>2, <1>3, <1>4

\* So do the streaming thread's.
LEMMA StreamingInv ==
    ASSUME DynamicInv, DynamicPin!StartUsing \/ DynamicPin!Streaming
    PROVE  DynamicInv'
  <1> USE CallersAssumption DEF DynamicInv, DynamicPin!TypeOK, DynamicPin!FlagsOK,
          WaitsUnused, DynamicPin!BlockStateValid, DynamicPin!Nobody,
          DynamicPin!StreamingThreadUsingOutputPin, DynamicPin!blockVars,
          DynamicPin!typeVars, DynamicPin!filterVars
  <1>1. CASE DynamicPin!StartUsing
    BY <1>1 DEF DynamicPin!StartUsing
  <1>2. CASE DynamicPin!StartUsingWait
    BY <1>2 DEF DynamicPin!StartUsingWait
  <1>3. CASE DynamicPin!Wake
    BY <1>3 DEF DynamicPin!Wake
  <1>4. CASE DynamicPin!Relock
    <2>1. DynamicPin!FlagsOK'
      BY <1>4 DEF DynamicPin!Relock
    <2>2. DynamicPin!TypeOK'
      BY <1>4, <2>1 DEF DynamicPin!Relock
    <2>3. (WaitsUnused /\ DynamicPin!BlockStateValid)'
      BY <1>4 DEF DynamicPin!Relock
    <2> QED BY <2>2, <2>3
  <1>5. CASE DynamicPin!StopUsing
    <2>1. CASE m_dwNumOutstandingOutputPinUsers = 1 /\ m_BlockState # "NOT_BLOCKED"
      <3>1. m_hNotifyCallerPinBlockedEvent \in Callers
        BY <1>5, <2>1 DEF DynamicPin!StopUsing
      <3>2. DynamicPin!FlagsOK'
        BY <1>5, <2>1 DEF DynamicPin!StopUsing, DynamicPin!BlockOutputPin
      <3>3. DynamicPin!TypeOK'
        BY <1>5, <2>1, <3>1, <3>2 DEF DynamicPin!StopUsing, DynamicPin!BlockOutputPin
      <3>4. (WaitsUnused /\ DynamicPin!BlockStateValid)'
        BY <1>5, <2>1 DEF DynamicPin!StopUsing, DynamicPin!BlockOutputPin
      <3> QED BY <3>3, <3>4
    <2>2. CASE ~(m_dwNumOutstandingOutputPinUsers = 1 /\ m_BlockState # "NOT_BLOCKED")
      BY <1>5, <2>2 DEF DynamicPin!StopUsing
    <2> QED BY <2>1, <2>2
  <1>6. CASE DynamicPin!ChangeType
    BY <1>6 DEF DynamicPin!ChangeType, DynamicPin!TypeUnchanged
  <1>7. CASE DynamicPin!ChangeAllocator
    BY <1>7 DEF DynamicPin!ChangeAllocator, DynamicPin!TypeUnchanged
  <1> QED BY <1>1, <1>2, <1>3, <1>4, <1>5, <1>6, <1>7 DEF DynamicPin!Streaming

\* And a change of type, the filter's states and flushes.
LEMMA FilterInv ==
    ASSUME DynamicInv,
           \/ DynamicPin!ChangeMediaType \/ DynamicPin!Active \/ DynamicPin!Inactive
           \/ DynamicPin!DeliverBeginFlush \/ DynamicPin!DeliverEndFlush
    PROVE  DynamicInv'
  <1> USE CallersAssumption DEF DynamicInv, DynamicPin!TypeOK, DynamicPin!FlagsOK,
          WaitsUnused, DynamicPin!BlockStateValid, DynamicPin!Nobody,
          DynamicPin!StreamingThreadUsingOutputPin, DynamicPin!blockVars,
          DynamicPin!streamVars
  <1>1. CASE DynamicPin!ChangeMediaType
    BY <1>1 DEF DynamicPin!ChangeMediaType, DynamicPin!TypeUnchanged,
            DynamicPin!filterVars
  <1>2. CASE DynamicPin!Active
    <2>1. DynamicPin!FlagsOK'
      BY <1>2 DEF DynamicPin!Active, DynamicPin!Switch, DynamicPin!SwitchUnchanged
    <2>2. DynamicPin!TypeOK'
      BY <1>2, <2>1 DEF DynamicPin!Active, DynamicPin!Switch, DynamicPin!SwitchUnchanged
    <2>3. (WaitsUnused /\ DynamicPin!BlockStateValid)'
      BY <1>2 DEF DynamicPin!Active, DynamicPin!Switch, DynamicPin!SwitchUnchanged
    <2> QED BY <2>2, <2>3
  <1>3. CASE DynamicPin!Inactive
    <2>1. DynamicPin!FlagsOK'
      BY <1>3 DEF DynamicPin!Inactive, DynamicPin!Switch, DynamicPin!SwitchUnchanged
    <2>2. DynamicPin!TypeOK'
      BY <1>3, <2>1 DEF DynamicPin!Inactive, DynamicPin!Switch,
              DynamicPin!SwitchUnchanged
    <2>3. (WaitsUnused /\ DynamicPin!BlockStateValid)'
      BY <1>3 DEF DynamicPin!Inactive, DynamicPin!Switch, DynamicPin!SwitchUnchanged
    <2> QED BY <2>2, <2>3
  <1>4. CASE DynamicPin!DeliverBeginFlush
    BY <1>4 DEF DynamicPin!DeliverBeginFlush, DynamicPin!Switch,
            DynamicPin!SwitchUnchanged
  <1>5. CASE DynamicPin!DeliverEndFlush
    BY <1>5 DEF DynamicPin!DeliverEndFlush, DynamicPin!SwitchUnchanged
  <1> QED BY <1>1, <1>2, <1>3, <1>4, <1>5

\* The invariant is inductive.
LEMMA DynamicStep ==
    DynamicInv /\ [DynamicPin!Next]_DynamicPinvars => DynamicInv'
  <1> SUFFICES ASSUME DynamicInv, [DynamicPin!Next]_DynamicPinvars PROVE DynamicInv'
    OBVIOUS
  <1>1. CASE \E c \in Callers : DynamicPin!Block(c) \/ DynamicPin!BlockRefused(c)
                                \/ DynamicPin!BlockReturns(c) \/ DynamicPin!Unblock(c)
    BY <1>1, CallersInv
  <1>2. CASE DynamicPin!StartUsing \/ DynamicPin!Streaming
    BY <1>2, StreamingInv
  <1>3. CASE DynamicPin!ChangeMediaType \/ DynamicPin!Active
             \/ DynamicPin!Inactive \/ DynamicPin!DeliverBeginFlush \/ DynamicPin!DeliverEndFlush
    BY <1>3, FilterInv
  <1>4. CASE UNCHANGED DynamicPinvars
    BY <1>4 DEF DynamicInv, DynamicPin!TypeOK, DynamicPin!FlagsOK, WaitsUnused,
            DynamicPin!BlockStateValid, DynamicPin!StreamingThreadUsingOutputPin,
            DynamicPinvars, DynamicPin!blockVars, DynamicPin!streamVars,
            DynamicPin!typeVars, DynamicPin!filterVars
  <1> QED BY <1>1, <1>2, <1>3, <1>4 DEF DynamicPin!Next

\* The part of the instance that is a dynamic pin does what the pin does.
LEMMA DynamicPart ==
    [MCNext]_<<part, components>> => [DynamicPin!Next]_DynamicPinvars
  BY DEF MCNext, components

\* Every field keeps its kind of value, and an event that Block shall signal is a caller's
\* (amfilter.cpp lines 3946 to 4060).
THEOREM TypeSafe == MCSpec => []DynamicPin!TypeOK
<1>1. MCInit => DynamicInv
  BY DynamicInit DEF MCInit
<1>2. DynamicInv /\ [MCNext]_<<part, components>> => DynamicInv'
  BY DynamicStep, DynamicPart
<1>3. DynamicInv => DynamicPin!TypeOK
  BY DEF DynamicInv
<1> QED BY <1>1, <1>2, <1>3, PTL DEF MCSpec

\* A pin that is blocked has nobody using it, a block that is pending has an event to signal
\* and a user to wait for, and a pin that is not blocked keeps no caller: AssertValid
\* (amfilter.cpp lines 4496 to 4516).
THEOREM BlockStateSafe == MCSpec => []BlockStateValid
<1>1. MCInit => DynamicInv
  BY DynamicInit DEF MCInit
<1>2. DynamicInv /\ [MCNext]_<<part, components>> => DynamicInv'
  BY DynamicStep, DynamicPart
<1>3. DynamicInv => BlockStateValid
  BY DEF DynamicInv, BlockStateValid
<1> QED BY <1>1, <1>2, <1>3, PTL DEF MCSpec
-----------------------------------------------------------------------------
\* A sample is there only while Receive has it, and not when it shall come out.
SampleHeld ==
    /\ m_pMediaSample =>
           /\ rendererConnected /\ m_rendererState # "Stopped" /\ ~m_ThreadSignal
           /\ pcReceive \notin {"out", "failed"}
    /\ m_ThreadSignal /\ rendererConnected => m_rendererState = "Stopped" \/ rendererFlushing

\* A flush leaves nothing of the stream's end, once it has returned.
FlushForgets ==
    /\ holder = "flush" => rendererFlushing
    /\ rendererFlushing /\ holder # "flush" =>
           completes = 0 /\ ~m_bEOS /\ ~m_EndOfStreamTimer

\* What has been reported is remembered, and nothing can come behind it.
EndRemembered ==
    /\ completes \in {0, 1}
    /\ m_EndOfStreamTimer => m_bEOS /\ ~m_pMediaSample
    /\ completes = 1 => m_bEOSDelivered /\ ~m_pMediaSample /\ (m_bEOS \/ m_bRunTimeError)

RendererInv == SampleHeld /\ FlushForgets /\ EndRemembered

LEMMA RendererInit == Renderer!Init => RendererInv
  BY SMTT(40) DEF Renderer!Init, RendererInv, SampleHeld, FlushForgets, EndRemembered

LEMMA RendererStep ==
    ASSUME RendererInv, [Renderer!Next]_Renderervars
    PROVE  RendererInv'
<1> USE DEF RendererInv, SampleHeld, FlushForgets, EndRemembered,
            Renderer!stateVars, Renderer!eosVars, Renderer!clockVars, Renderer!receiver,
            Renderer!InterfaceLock, Renderer!RendererLock, Renderer!CheckStreaming,
            Renderer!NothingSent, Renderer!ResetEndOfStream, Renderer!NotifyEndOfStream,
            Renderer!SendEndOfStream, Renderer!CancelNotification, Renderer!Receiving
<1>1. CASE Renderer!ReceiveFails
  BY <1>1 DEF Renderer!ReceiveFails
<1>2. CASE Renderer!PrepareReceive
  BY <1>2 DEF Renderer!PrepareReceive
<1>3. CASE Renderer!FirstSample
  BY <1>3 DEF Renderer!FirstSample
<1>4. CASE Renderer!OnReceiveFirstSample
  BY <1>4 DEF Renderer!OnReceiveFirstSample
<1>5. CASE Renderer!ReceiveReady
  BY <1>5 DEF Renderer!ReceiveReady
<1>6. CASE Renderer!WaitReleased
  BY <1>6 DEF Renderer!WaitReleased
<1>7. CASE Renderer!WaitDue
  BY <1>7 DEF Renderer!WaitDue
<1>8. CASE Renderer!PrepareRender
  BY <1>8 DEF Renderer!PrepareRender
<1>9. CASE Renderer!Render
  BY <1>9 DEF Renderer!Render
<1>10. CASE Renderer!ReportError
  BY <1>10 DEF Renderer!ReportError
<1>11. CASE Renderer!EndOfStream
  BY <1>11 DEF Renderer!EndOfStream
<1>12. CASE Renderer!ClockFires
  BY <1>12 DEF Renderer!ClockFires
<1>13. CASE Renderer!TimerCallback
  BY <1>13 DEF Renderer!TimerCallback
<1>14. CASE Renderer!Stop
  BY <1>14 DEF Renderer!Stop
<1>15. CASE Renderer!StopReturns \/ Renderer!StopDisconnected
  BY <1>15 DEF Renderer!StopReturns, Renderer!StopDisconnected
<1>16. CASE Renderer!Pause
  BY <1>16 DEF Renderer!Pause
<1>17. CASE Renderer!PauseOnly \/ Renderer!RunDisconnected
  BY <1>17 DEF Renderer!PauseOnly, Renderer!RunDisconnected
<1>18. CASE Renderer!Run
  <2>1. SampleHeld' /\ FlushForgets'
    BY <1>18 DEF Renderer!Run
  <2>2. CASE m_pMediaSample'
    BY <1>18, <2>2 DEF Renderer!Run, Renderer!StartStreaming
  <2>3. CASE ~m_pMediaSample'
    BY <1>18, <2>3 DEF Renderer!Run, Renderer!StartStreaming
  <2>. QED
    BY <2>1, <2>2, <2>3
<1>19. CASE Renderer!CompleteConnect \/ Renderer!BreakConnect
  BY <1>19 DEF Renderer!CompleteConnect, Renderer!BreakConnect
<1>20. CASE Renderer!BeginFlush
  BY <1>20 DEF Renderer!BeginFlush
<1>21. CASE Renderer!BeginFlushReturns \/ Renderer!EndFlush
  BY <1>21 DEF Renderer!BeginFlushReturns, Renderer!EndFlush
<1>22. CASE Renderer!SendRepaint \/ Renderer!OnDisplayChange
  BY <1>22 DEF Renderer!SendRepaint, Renderer!OnDisplayChange
<1>23. CASE UNCHANGED Renderervars
  BY <1>23 DEF Renderervars
<1>. QED
  BY <1>1, <1>2, <1>3, <1>4, <1>5, <1>6, <1>7, <1>8, <1>9, <1>10, <1>11, <1>12, <1>13, <1>14,
     <1>15, <1>16, <1>17, <1>18, <1>19, <1>20, <1>21, <1>22, <1>23
     DEF Renderer!Next, Renderer!Receive

\* The part of the instance that is a renderer does what the renderer does.
LEMMA RendererPart ==
    [MCNext]_<<part, components>> => [Renderer!Next]_Renderervars
  BY DEF MCNext, components

\* The end of a stream is reported at most once between two flushes or runs, and when it has
\* been, no sample waits to be drawn (renbase.cpp lines 1252 to 1324).
THEOREM EndReportedOnce == MCSpec => []CompleteOnce
<1>1. MCInit => RendererInv
  BY RendererInit DEF MCInit
<1>2. RendererInv /\ [MCNext]_<<part, components>> => RendererInv'
  BY RendererStep, RendererPart
<1>3. RendererInv => CompleteOnce
  BY DEF RendererInv, SampleHeld, FlushForgets, EndRemembered, CompleteOnce,
         Renderer!CompleteOnce
<1> QED BY <1>1, <1>2, <1>3, PTL DEF MCSpec
-----------------------------------------------------------------------------
\* Where the application and the thread of a pull pin are, and what they keep.
AppPlaces    == {"idle", "start", "flush", "call", "answer", "endFlush", "close"}
ThreadPlaces == {"none", "get", "process", "loop", "inner", "buffer", "request", "collect",
                 "last", "read", "deliver", "deliverLast", "eos", "cleanup"}
PullRange == [start : Int, stop : Int]
PullRequests == [range : PullRange, result : {"pending", "done", "cancelled", "error"}]

PullTypes ==
    /\ reader \in Readers
    /\ m_pullState \in {"start", "pause", "exit"} /\ pullConnected \in BOOLEAN
    /\ target \in [start : Nat, stop : Nat] /\ m_tStart \in Nat /\ m_tStop \in Nat
    /\ play \in [start : Nat, stop : Nat]
    /\ pullPcApp \in AppPlaces /\ pcThread \in ThreadPlaces
    /\ request \in {"none", "start", "pause", "exit"} /\ answered \in BOOLEAN
    /\ tCurrent \in Int /\ sample \in PullRange /\ first \in BOOLEAN
    /\ queue \in Seq(PullRequests)
    /\ free \in Int /\ held \in Int
    /\ delivered \in Seq(PullRange)

\* The thread has nothing in its hands.
Quiet == pcThread \in {"none", "get", "process", "cleanup"}

\* How many requests are out at each place of the thread: one more than the thread is about to
\* collect when it reads ahead.
Ahead == IF ~PullPin!Sync /\ PullPin!Buffers > 1 THEN 1 ELSE 0

Outstanding ==
    /\ pcThread \in {"none", "get", "process", "loop", "read", "deliverLast", "eos"} =>
          Len(queue) = 0
    /\ pcThread \in {"inner", "deliver", "last"} => Len(queue) = Ahead
    /\ pcThread \in {"buffer", "request"} => Len(queue) = IF first THEN 0 ELSE Ahead
    /\ pcThread = "collect" => Len(queue) = Ahead + 1
    /\ Len(queue) <= 2
    /\ first => pcThread \in {"buffer", "request"} /\ Ahead = 1
    /\ pcThread = "last" => Ahead = 1
    /\ pcThread \in {"inner", "request", "collect", "last", "deliverLast"} => ~PullPin!Sync
    /\ pcThread = "read" => PullPin!Sync

\* Every buffer is in one place.
Accounted ==
    free + held + Len(queue)
      + (IF pcThread \in {"request", "read", "deliver", "deliverLast"} THEN 1 ELSE 0)
      = PullPin!Buffers

\* What has been delivered follows without a gap, whatever is asked for by now,
Gapless ==
    \A k \in DOMAIN delivered :
       /\ k > 1 => delivered[k].start = delivered[k - 1].stop
       /\ delivered[k].start < delivered[k].stop

\* and reaches from the start to position x, or to the stop.
Reached(x) ==
    IF delivered = << >> THEN x = PullPin!AlignedStart
    ELSE /\ delivered[1].start = PullPin!AlignedStart
         /\ delivered[Len(delivered)].stop = PullPin!MinOf(x, PullPin!Stop)

\* A range of whole blocks, from a place before the stop.
Piece(r, x, y) ==
    /\ r.start = x /\ r.stop = y /\ x < y
    /\ x % PullPin!Align = 0 /\ y % PullPin!Align = 0 /\ x < PullPin!AlignedStop

\* What is on its way leads from there to the thread's position.
Flow ==
    /\ ~Quiet /\ pcThread # "eos" => tCurrent % PullPin!Align = 0
    /\ pcThread = "loop" => Reached(tCurrent)
    /\ pcThread \in {"inner", "buffer", "last"} =>
          IF queue = << >> THEN Reached(tCurrent)
          ELSE /\ Reached(queue[1].range.start)
               /\ Piece(queue[1].range, queue[1].range.start, tCurrent)
    /\ pcThread \in {"request", "read"} =>
          IF queue = << >>
          THEN Reached(sample.start) /\ Piece(sample, sample.start, tCurrent)
          ELSE /\ Reached(queue[1].range.start)
               /\ Piece(queue[1].range, queue[1].range.start, sample.start)
               /\ Piece(sample, sample.start, tCurrent)
    /\ pcThread = "collect" =>
          IF Len(queue) = 1
          THEN /\ Reached(queue[1].range.start)
               /\ Piece(queue[1].range, queue[1].range.start, tCurrent)
          ELSE /\ Reached(queue[1].range.start)
               /\ Piece(queue[1].range, queue[1].range.start, queue[2].range.start)
               /\ Piece(queue[2].range, queue[2].range.start, tCurrent)
    /\ pcThread \in {"deliver", "deliverLast"} =>
          IF queue = << >>
          THEN Reached(sample.start) /\ Piece(sample, sample.start, tCurrent)
          ELSE /\ Reached(sample.start)
               /\ Piece(sample, sample.start, queue[1].range.start)
               /\ Piece(queue[1].range, queue[1].range.start, tCurrent)
    /\ pcThread = "buffer" => tCurrent < PullPin!AlignedStop
    /\ pcThread \in {"last", "deliverLast"} => tCurrent >= PullPin!AlignedStop
    /\ pcThread = "eos" => delivered = << >> \/ Reached(PullPin!Stop)

-----------------------------------------------------------------------------
\* Whole blocks: k of them,
LEMMA Blocks ==
    ASSUME NEW a \in Nat \ {0}, NEW k \in Int
    PROVE  (a * k) % a = 0
<1> DEFINE x == a * k  r == x % a  q == x \div a
<1>1. x = a * q + r /\ r \in 0..a - 1 /\ q \in Int
  BY SMT
<1>2. r = a * (k - q)
  BY <1>1, SMT
<1>3. k - q \in Int /\ r < a /\ r >= 0
  BY <1>1, SMT
<1>4. k - q < 1 /\ k - q >= 0
  BY <1>2, <1>3, SMT
<1>. QED BY <1>2, <1>3, <1>4, SMT

\* what is a whole number of them,
LEMMA WholeBlocks ==
    ASSUME NEW a \in Nat \ {0}, NEW x \in Int, x % a = 0
    PROVE  \E k \in Int : x = a * k
<1>1. x = a * (x \div a) + (x % a) /\ x \div a \in Int
  BY SMT
<1>2. x = a * (x \div a)
  BY <1>1, SMT
<1>. QED BY <1>1, <1>2

\* sums of them and the distance between two,
LEMMA SumOfBlocks ==
    ASSUME NEW a \in Nat \ {0}, NEW x \in Int, NEW y \in Int, x % a = 0, y % a = 0
    PROVE  (x + y) % a = 0 /\ (x < y => x + a <= y)
<1>1. PICK k \in Int : x = a * k
  BY WholeBlocks
<1>2. PICK m \in Int : y = a * m
  BY WholeBlocks
<1>3. x + y = a * (k + m) /\ k + m \in Int
  BY <1>1, <1>2, SMT
<1>4. (x + y) % a = 0
  BY <1>3, Blocks
<1>5. ASSUME x < y
      PROVE  x + a <= y
  <2>1. k < m
    BY <1>1, <1>2, <1>5, SMT
  <2>2. m - k >= 1 /\ m - k \in Int
    BY <2>1
  <2>3. y - x = a * (m - k)
    BY <1>1, <1>2, SMT
  <2>4. a * (m - k) >= a
    BY <2>2, SMT
  <2> QED BY <2>3, <2>4, SMT
<1>. QED BY <1>4, <1>5

\* and the ends of those a position lies in.
LEMMA RoundedDown ==
    ASSUME NEW a \in Nat \ {0}, NEW t \in Int
    PROVE  t % a \in 0..a - 1 /\ (t - (t % a)) % a = 0
<1>1. t = a * (t \div a) + (t % a) /\ t % a \in 0..a - 1 /\ t \div a \in Int
  BY SMT
<1>2. t - (t % a) = a * (t \div a)
  BY <1>1, SMT
<1>. QED BY <1>1, <1>2, Blocks

\* What Process makes of the times it shall play.
LEMMA Ends ==
    ASSUME PullTypes
    PROVE  /\ PullPin!Align \in Nat \ {0} /\ PullPin!SampleSize \in Nat \ {0}
           /\ PullPin!Buffers \in Nat \ {0} /\ PullPin!Sync \in BOOLEAN
           /\ PullPin!SampleSize % PullPin!Align = 0
           /\ PullPin!AlignedStart \in Int /\ PullPin!AlignedStart % PullPin!Align = 0
           /\ PullPin!Stop \in Nat
           /\ PullPin!AlignedStop \in Int /\ PullPin!AlignedStop % PullPin!Align = 0
           /\ PullPin!Stop <= PullPin!AlignedStop
           /\ PullPin!AlignedStop < PullPin!Stop + PullPin!Align
<1> DEFINE a == PullPin!Align
<1>1. /\ a \in Nat \ {0} /\ PullPin!SampleSize \in Nat \ {0}
      /\ PullPin!Buffers \in Nat \ {0} /\ PullPin!Sync \in BOOLEAN
      /\ PullPin!SampleSize % a = 0 /\ reader.duration \in Nat
  BY ReadersAssumption DEF PullTypes, PullPin!Align, PullPin!SampleSize, PullPin!Buffers,
                           PullPin!Sync
<1>2. play.start \in Int /\ PullPin!Stop \in Nat
  BY <1>1 DEF PullTypes, PullPin!Stop, PullPin!Duration, PullPin!MinOf
<1>3. PullPin!AlignedStart \in Int /\ PullPin!AlignedStart % a = 0
  <2> HIDE DEF a
  <2>1. PullPin!AlignedStart = play.start - (play.start % a)
    BY DEF a, PullPin!AlignedStart, PullPin!AlignDown
  <2>2. play.start % a \in 0..a - 1 /\ (play.start - (play.start % a)) % a = 0
    BY <1>1, <1>2, RoundedDown
  <2> QED BY <1>1, <1>2, <2>1, <2>2, SMT
<1>4. /\ PullPin!AlignedStop \in Int /\ PullPin!AlignedStop % a = 0
      /\ PullPin!Stop <= PullPin!AlignedStop /\ PullPin!AlignedStop < PullPin!Stop + a
  <2> DEFINE t == PullPin!Stop + a - 1
  <2>1. PullPin!AlignedStop = t - (t % a) /\ t \in Int
    BY <1>1, <1>2 DEF PullPin!AlignedStop, PullPin!AlignUp, PullPin!AlignDown
  <2>2. t % a \in 0..a - 1 /\ (t - (t % a)) % a = 0
    BY <1>1, <2>1, RoundedDown
  <2> HIDE DEF a
  <2> QED BY <1>1, <1>2, <2>1, <2>2, SMT
<1>. QED BY <1>1, <1>2, <1>3, <1>4

\* The queue of requests is the same but for its results.
SameRanges ==
    /\ queue' \in Seq(PullRequests) /\ Len(queue') = Len(queue)
    /\ \A k \in 1..Len(queue) : queue'[k].range = queue[k].range

\* A flush of the reader, or an answer of it, changes no more than them.
LEMMA CancelledRanges ==
    ASSUME PullTypes, queue' = PullPin!Cancelled(queue)
    PROVE  SameRanges
<1>1. queue \in Seq(PullRequests) /\ DOMAIN queue = 1..Len(queue)
  BY DEF PullTypes
<1>2. ASSUME NEW k \in 1..Len(queue)
      PROVE  queue'[k] \in PullRequests /\ queue'[k].range = queue[k].range
  <2>1. queue[k] \in PullRequests
    BY <1>1, <1>2
  <2>2. queue'[k] = IF queue[k].result = "pending"
                    THEN [queue[k] EXCEPT !.result = "cancelled"] ELSE queue[k]
    BY <1>1, <1>2 DEF PullPin!Cancelled
  <2> QED BY <2>1, <2>2 DEF PullRequests
<1>3. queue' = [k \in 1..Len(queue) |-> queue'[k]] /\ Len(queue) \in Nat
  BY <1>1 DEF PullPin!Cancelled
<1>4. queue' \in Seq(PullRequests) /\ Len(queue') = Len(queue)
  BY <1>2, <1>3
<1>. QED BY <1>2, <1>4 DEF SameRanges

LEMMA CompletedRanges ==
    ASSUME PullTypes, PullPin!ReaderCompletes
    PROVE  SameRanges
<1>1. queue \in Seq(PullRequests) /\ DOMAIN queue = 1..Len(queue) /\ Len(queue) \in Nat
  BY DEF PullTypes
<1>2. PICK k \in 1..Len(queue), r \in {"done", "error"} :
           queue' = [queue EXCEPT ![k].result = r]
  BY <1>1 DEF PullPin!ReaderCompletes
<1>3. queue' = [queue EXCEPT ![k] = [queue[k] EXCEPT !.result = r]] /\ queue[k] \in PullRequests
  BY <1>1, <1>2
<1>4. [queue[k] EXCEPT !.result = r] \in PullRequests
      /\ [queue[k] EXCEPT !.result = r].range = queue[k].range
  BY <1>3 DEF PullRequests
<1> HIDE DEF PullRequests
<1>5. queue' \in Seq(PullRequests) /\ Len(queue') = Len(queue)
  BY <1>1, <1>3, <1>4
<1>. QED BY <1>1, <1>3, <1>4, <1>5 DEF SameRanges

\* What the thread is asked to do.
LEMMA RequestPlaces ==
    ASSUME PullTypes, PullPin!GetRequest
    PROVE  pcThread = "get" /\ pcThread' \in {"none", "process", "cleanup"}
<1>1. request \in {"start", "pause", "exit"}
  BY DEF PullPin!GetRequest, PullTypes
<1>. QED BY <1>1 DEF PullPin!GetRequest

\* What the thread leaves with the reader is the end of what was there.
LEMMA KeptRequests ==
    ASSUME PullTypes, PullPin!CleanupCancelled
    PROVE  /\ queue' \in Seq(PullRequests) /\ Len(queue') \in Nat /\ Len(queue) \in Nat
           /\ free' = free + Len(queue) - Len(queue') /\ free' \in Int
           /\ refused' \/ queue' = << >>
<1>1. queue \in Seq(PullRequests) /\ Len(queue) \in Nat /\ free \in Int
  BY DEF PullTypes
<1>2. ASSUME NEW k \in 1..Len(queue) + 1
      PROVE  SubSeq(queue, k, Len(queue)) \in Seq(PullRequests)
  BY <1>1
<1>3. queue' \in Seq(PullRequests)
  <2>1. << >> \in Seq(PullRequests)
    OBVIOUS
  <2>2. \/ queue' = << >>
        \/ \E k \in 1..Len(queue) + 1 : queue' = SubSeq(queue, k, Len(queue))
    BY DEF PullPin!CleanupCancelled
  <2> QED BY <1>2, <2>1, <2>2
<1>4. Len(queue') \in Nat
  BY <1>3
<1>. QED BY <1>1, <1>3, <1>4 DEF PullPin!CleanupCancelled

\* Every step keeps the values of their kinds,
LEMMA PullTypesStep ==
    ASSUME PullTypes, [PullPin!Next]_PullPinvars
    PROVE  PullTypes'
<1> USE DEF AppPlaces, ThreadPlaces, PullPin!threadVars, PullPin!readerVars,
           PullPin!poolVars, PullPin!outVars, PullPin!appVars, PullPin!callVars,
           PullPin!OutsideUnchanged, PullPin!ThreadUnchanged, PullPin!Begin,
           PullPin!ThreadExists, PullPin!Reply
<1>0. reader' = reader /\ reader \in Readers
  BY DEF PullPin!Next, PullPinvars, PullTypes
<1>9. PullPin!Duration \in Nat /\ PullPin!AlignedStart \in Int /\ PullPin!AlignedStop \in Int
      /\ PullPin!SampleSize \in Nat /\ PullPin!Stop \in Nat
  BY Ends, ReadersAssumption, <1>0 DEF PullPin!Duration
<1>10. CASE PullPin!Connect
  BY <1>0, <1>9, <1>10 DEF PullPin!Connect, PullTypes
<1>11. CASE PullPin!Active
  BY <1>0, <1>11 DEF PullPin!Active, PullTypes
<1>12. CASE PullPin!Inactive
  BY <1>0, <1>12 DEF PullPin!Inactive, PullTypes
<1>13. CASE PullPin!Disconnect
  BY ZenonT(60), <1>0, <1>13 DEF PullPin!Disconnect, PullTypes
<1>14. CASE \E start, stop \in 0..PullPin!Duration : PullPin!Seek(start, stop)
  BY <1>0, <1>9, <1>14 DEF PullPin!Seek, PullTypes
<1>15. CASE PullPin!StartThread
  BY <1>0, <1>15 DEF PullPin!StartThread, PullTypes
<1>16. CASE PullPin!FlushReader
  BY <1>0, CancelledRanges, <1>16 DEF PullPin!FlushReader, PullTypes, SameRanges
<1>17. CASE PullPin!CallWorker
  BY <1>0, <1>17 DEF PullPin!CallWorker, PullTypes
<1>18. CASE PullPin!Answered
  BY <1>0, <1>18 DEF PullPin!Answered, PullTypes
<1>19. CASE PullPin!EndFlush
  BY <1>0, <1>19 DEF PullPin!EndFlush, PullTypes
<1>20. CASE PullPin!Close
  BY <1>0, <1>20 DEF PullPin!Close, PullTypes
<1>21. CASE PullPin!GetRequest
  BY <1>0, <1>21, RequestPlaces DEF PullPin!GetRequest, PullTypes
<1>22. CASE PullPin!Loop
  BY ZenonT(60), <1>0, <1>22 DEF PullPin!Loop, PullTypes
<1>23. CASE PullPin!Inner
  BY <1>0, <1>23 DEF PullPin!Inner, PullTypes
<1>24. CASE PullPin!GetBuffer
  BY <1>0, <1>9, <1>24 DEF PullPin!GetBuffer, PullTypes, PullPin!None, PullRange,
         PullPin!MinOf
<1>25. CASE PullPin!Request
  <2>1. queue' \in Seq(PullRequests)
    <3>1. [range |-> sample, result |-> "pending"] \in PullRequests
      BY DEF PullTypes, PullRequests
    <3> QED BY SMTT(40), <1>25, <3>1 DEF PullPin!Request, PullTypes
  <2>2. sample' \in PullRange
    BY <1>25 DEF PullPin!Request, PullPin!None, PullRange
  <2>3. pcThread' \in ThreadPlaces /\ free' \in Int /\ first' \in BOOLEAN
    <3>1. pcThread' \in {"cleanup", "inner", "collect"} /\ first' = FALSE
      BY <1>25 DEF PullPin!Request
    <3>2. free' = free + 1 \/ free' = free
      BY <1>25 DEF PullPin!Request
    <3>3. free \in Int
      BY DEF PullTypes
    <3>4. free' \in Int
      BY <3>2, <3>3
    <3> QED BY <3>1, <3>4
  <2> QED BY <1>0, <1>25, <2>1, <2>2, <2>3 DEF PullPin!Request, PullTypes
<1>26. CASE PullPin!Collect
  <2>1. queue' \in Seq(PullRequests)
    <3>1. queue \in Seq(PullRequests) /\ (queue # << >> => Tail(queue) \in Seq(PullRequests))
      BY DEF PullTypes
    <3>2. queue' = queue \/ (queue # << >> /\ queue' = Tail(queue))
      BY <1>26 DEF PullPin!Collect
    <3> QED BY <3>1, <3>2
  <2>2. sample' \in PullRange
    <3>1. queue # << >> => Head(queue) \in PullRequests
      BY DEF PullTypes
    <3>2. queue # << >> => Head(queue).range \in PullRange
      BY <3>1 DEF PullRequests
    <3> QED BY <1>26, <3>2 DEF PullPin!Collect, PullTypes
  <2>3. pcThread' \in ThreadPlaces /\ free' \in Int
    BY <1>26 DEF PullPin!Collect, PullTypes
  <2> QED BY <1>0, <1>26, <2>1, <2>2, <2>3 DEF PullPin!Collect, PullTypes
<1>27. CASE PullPin!SyncRead
  BY <1>0, <1>27 DEF PullPin!SyncRead, PullTypes, PullPin!None, PullRange, PullPin!MinOf
<1>28. CASE PullPin!DeliverSample
  <2>1. delivered' \in Seq(PullRange) /\ sample' \in PullRange
    <3>1. [sample EXCEPT !.stop = PullPin!MinOf(@, PullPin!Stop)] \in PullRange
      <4>1. sample \in PullRange /\ sample.stop \in Int
        BY DEF PullTypes, PullRange
      <4>2. PullPin!MinOf(sample.stop, PullPin!Stop) \in Int
        BY <1>9, <4>1 DEF PullPin!MinOf
      <4> QED BY <4>1, <4>2 DEF PullRange
    <3>2. PullPin!None \in PullRange
      BY DEF PullPin!None, PullRange
    <3> QED BY <1>28, <3>1, <3>2 DEF PullPin!DeliverSample, PullTypes
  <2>2. pcThread' \in ThreadPlaces /\ free' \in Int /\ held' \in Int
    BY <1>28 DEF PullPin!DeliverSample, PullTypes
  <2> QED BY <1>0, <1>28, <2>1, <2>2 DEF PullPin!DeliverSample, PullTypes
<1>29. CASE PullPin!EndOfStream
  BY <1>0, <1>29 DEF PullPin!EndOfStream, PullTypes
<1>30. CASE PullPin!CleanupCancelled
  <2>1. queue' \in Seq(PullRequests) /\ free' \in Int
    BY <1>30, KeptRequests DEF PullTypes
  <2> QED BY <1>0, <1>30, <2>1 DEF PullPin!CleanupCancelled, PullTypes
<1>31. CASE PullPin!ReaderCompletes
  <2>1. queue' \in Seq(PullRequests)
    BY <1>31, CompletedRanges DEF SameRanges
  <2> QED BY <1>0, <1>31, <2>1 DEF PullPin!ReaderCompletes, PullTypes
<1>32. CASE PullPin!Release
  BY <1>0, <1>32 DEF PullPin!Release, PullTypes
<1>33. CASE UNCHANGED PullPinvars
  BY <1>33 DEF PullTypes, PullPinvars
<1>34. CASE PullPin!FlushRefused
  <2>1. target.start \in Nat /\ target.stop \in Nat
    BY DEF PullTypes
  <2> QED BY <1>0, <1>34, <2>1 DEF PullPin!FlushRefused, PullTypes
<1>35. CASE PullPin!Process
  <2>1. play' \in [start : Nat, stop : Nat]
    BY <1>35 DEF PullPin!Process, PullTypes
  <2>2. PullPin!AlignDown(m_tStart) \in Int
    <3>1. m_tStart \in Int /\ PullPin!Align \in Nat \ {0}
      BY Ends DEF PullTypes
    <3>2. m_tStart % PullPin!Align \in 0..PullPin!Align - 1
      BY <3>1, RoundedDown
    <3>3. m_tStart % PullPin!Align \in Int
      BY <3>1, <3>2
    <3> QED BY <3>1, <3>3 DEF PullPin!AlignDown
  <2>3. PullPin!None \in PullRange /\ << >> \in Seq(PullRange)
    BY DEF PullPin!None, PullRange
  <2>4. tCurrent' \in Int /\ sample' \in PullRange /\ delivered' \in Seq(PullRange)
    BY <1>35, <2>2, <2>3 DEF PullPin!Process
  <2> QED BY <1>0, <1>35, <2>1, <2>4 DEF PullPin!Process, PullTypes
<1>. QED
  BY <1>10, <1>11, <1>12, <1>13, <1>14, <1>15, <1>16, <1>17, <1>18, <1>19, <1>20, <1>21,
     <1>22, <1>23, <1>24, <1>25, <1>26, <1>27, <1>28, <1>29, <1>30, <1>31, <1>32, <1>33,
     <1>34, <1>35
     DEF PullPin!Next, PullPin!Step, PullPin!App, PullPin!Thread

\* as many requests out as the thread will collect,
LEMMA OutstandingStep ==
    ASSUME PullTypes, Outstanding, [PullPin!Next]_PullPinvars, ~refused'
    PROVE  Outstanding'
<1> USE DEF PullPin!threadVars, PullPin!readerVars, PullPin!poolVars, PullPin!outVars,
           PullPin!appVars, PullPin!callVars, PullPin!OutsideUnchanged,
           PullPin!ThreadUnchanged, PullPin!Begin, PullPin!ThreadExists, PullPin!Reply
<1>1. reader' = reader /\ Len(queue) \in Nat /\ PullPin!Buffers \in Nat \ {0}
  BY Ends DEF PullTypes, PullPin!Next, PullPinvars
<1>10. CASE PullPin!Connect
  BY <1>1, <1>10 DEF PullPin!Connect, Outstanding, Ahead, PullPin!Sync, PullPin!Buffers
<1>11. CASE PullPin!Active
  BY <1>1, <1>11 DEF PullPin!Active, Outstanding, Ahead, PullPin!Sync, PullPin!Buffers
<1>12. CASE PullPin!Inactive
  BY <1>1, <1>12 DEF PullPin!Inactive, Outstanding, Ahead, PullPin!Sync, PullPin!Buffers
<1>13. CASE PullPin!Disconnect
  BY <1>1, <1>13 DEF PullPin!Disconnect, Outstanding, Ahead, PullPin!Sync, PullPin!Buffers
<1>14. CASE \E start, stop \in 0..PullPin!Duration : PullPin!Seek(start, stop)
  BY <1>1, <1>14 DEF PullPin!Seek, Outstanding, Ahead, PullPin!Sync, PullPin!Buffers
<1>15. CASE PullPin!StartThread
  BY <1>1, <1>15 DEF PullPin!StartThread, Outstanding, Ahead, PullPin!Sync, PullPin!Buffers
<1>16. CASE PullPin!FlushReader
  <2>1. Len(queue') = Len(queue)
    BY <1>16, CancelledRanges DEF PullPin!FlushReader, SameRanges
  <2> QED BY <1>1, <1>16, <2>1 DEF PullPin!FlushReader, Outstanding, Ahead, PullPin!Sync,
                 PullPin!Buffers
<1>17. CASE PullPin!CallWorker
  BY <1>1, <1>17 DEF PullPin!CallWorker, Outstanding, Ahead, PullPin!Sync, PullPin!Buffers
<1>18. CASE PullPin!Answered
  BY <1>1, <1>18 DEF PullPin!Answered, Outstanding, Ahead, PullPin!Sync, PullPin!Buffers
<1>19. CASE PullPin!EndFlush
  BY <1>1, <1>19 DEF PullPin!EndFlush, Outstanding, Ahead, PullPin!Sync, PullPin!Buffers
<1>20. CASE PullPin!Close
  BY <1>1, <1>20 DEF PullPin!Close, Outstanding, Ahead, PullPin!Sync, PullPin!Buffers
<1>21. CASE PullPin!GetRequest
  BY <1>1, <1>21, RequestPlaces DEF PullPin!GetRequest, Outstanding, Ahead, PullPin!Sync,
         PullPin!Buffers
<1>22. CASE PullPin!Loop
  BY <1>1, <1>22 DEF PullPin!Loop, Outstanding, Ahead, PullPin!Sync, PullPin!Buffers
<1>23. CASE PullPin!Inner
  BY <1>1, <1>23 DEF PullPin!Inner, Outstanding, Ahead, PullPin!Sync, PullPin!Buffers
<1>24. CASE PullPin!GetBuffer
  BY <1>1, <1>24 DEF PullPin!GetBuffer, Outstanding, Ahead, PullPin!Sync, PullPin!Buffers
<1>25. CASE PullPin!Request
  <2>1. Len(queue') = IF pullFlushing THEN Len(queue) ELSE Len(queue) + 1
    BY <1>25 DEF PullPin!Request, PullTypes
  <2> QED BY <1>1, <1>25, <2>1 DEF PullPin!Request, Outstanding, Ahead, PullPin!Sync,
                 PullPin!Buffers
<1>26. CASE PullPin!Collect
  <2>1. Len(queue') = IF queue # << >> THEN Len(queue) - 1 ELSE Len(queue)
    BY <1>26 DEF PullPin!Collect, PullTypes
  <2>2. Ahead' = Ahead /\ Ahead \in {0, 1} /\ (PullPin!Sync <=> PullPin!Sync')
    BY <1>1 DEF Ahead, PullPin!Sync, PullPin!Buffers
  <2>3. queue = << >> => Len(queue) = 0
    OBVIOUS
  <2>4. Len(queue') \in Nat /\ Len(queue') <= Len(queue) /\ first' = first /\ ~first
    BY <1>1, <1>26, <2>1, <2>3 DEF PullPin!Collect, Outstanding
  <2>5. CASE pcThread' = "cleanup"
    BY <1>1, <2>4, <2>5 DEF Outstanding
  <2>6. CASE pcThread' # "cleanup"
    <3>1. /\ Len(queue') = Len(queue) - 1
          /\ \/ pcThread = "last" /\ pcThread' = "deliverLast"
             \/ pcThread = "collect" /\ pcThread' = "deliver"
      BY <1>26, <2>1, <2>6 DEF PullPin!Collect
    <3> QED BY <1>1, <2>2, <2>4, <3>1 DEF Outstanding
  <2> QED BY <2>5, <2>6
<1>27. CASE PullPin!SyncRead
  BY <1>1, <1>27 DEF PullPin!SyncRead, Outstanding, Ahead, PullPin!Sync, PullPin!Buffers
<1>28. CASE PullPin!DeliverSample
  BY <1>1, <1>28 DEF PullPin!DeliverSample, Outstanding, Ahead, PullPin!Sync,
         PullPin!Buffers
<1>29. CASE PullPin!EndOfStream
  BY <1>1, <1>29 DEF PullPin!EndOfStream, Outstanding, Ahead, PullPin!Sync, PullPin!Buffers
<1>30. CASE PullPin!CleanupCancelled
  <2>1. queue' = << >> /\ Len(queue') = 0
    BY <1>30, KeptRequests
  <2> QED BY <1>1, <1>30, <2>1 DEF PullPin!CleanupCancelled, Outstanding, Ahead, PullPin!Sync,
                 PullPin!Buffers
<1>31. CASE PullPin!ReaderCompletes
  <2>1. Len(queue') = Len(queue)
    BY <1>31, CompletedRanges DEF SameRanges
  <2> QED BY <1>1, <1>31, <2>1 DEF PullPin!ReaderCompletes, Outstanding, Ahead,
                 PullPin!Sync, PullPin!Buffers
<1>32. CASE PullPin!Release
  BY <1>1, <1>32 DEF PullPin!Release, Outstanding, Ahead, PullPin!Sync, PullPin!Buffers
<1>33. CASE UNCHANGED PullPinvars
  BY <1>1, <1>33 DEF PullPinvars, Outstanding, Ahead, PullPin!Sync, PullPin!Buffers
<1>34. CASE PullPin!FlushRefused
  BY <1>34 DEF PullPin!FlushRefused
<1>35. CASE PullPin!Process
  BY <1>1, <1>35 DEF PullPin!Process, Outstanding, Ahead, PullPin!Sync, PullPin!Buffers
<1>. QED
  BY <1>10, <1>11, <1>12, <1>13, <1>14, <1>15, <1>16, <1>17, <1>18, <1>19, <1>20, <1>21,
     <1>22, <1>23, <1>24, <1>25, <1>26, <1>27, <1>28, <1>29, <1>30, <1>31, <1>32, <1>33,
     <1>34, <1>35
     DEF PullPin!Next, PullPin!Step, PullPin!App, PullPin!Thread

\* every buffer in its place,
LEMMA AccountedStep ==
    ASSUME PullTypes, Accounted, [PullPin!Next]_PullPinvars
    PROVE  Accounted'
<1> USE DEF PullPin!threadVars, PullPin!readerVars, PullPin!poolVars, PullPin!outVars,
           PullPin!appVars, PullPin!callVars, PullPin!OutsideUnchanged,
           PullPin!ThreadUnchanged, PullPin!Begin, PullPin!ThreadExists, PullPin!Reply
<1>1. /\ reader' = reader /\ Len(queue) \in Nat /\ PullPin!Buffers \in Nat
      /\ free \in Int /\ held \in Int
  BY Ends DEF PullTypes, PullPin!Next, PullPinvars
<1>10. CASE PullPin!Connect
  BY <1>1, <1>10 DEF PullPin!Connect, Accounted, PullPin!Buffers
<1>11. CASE PullPin!Active
  BY <1>1, <1>11 DEF PullPin!Active, Accounted, PullPin!Buffers
<1>12. CASE PullPin!Inactive
  BY <1>1, <1>12 DEF PullPin!Inactive, Accounted, PullPin!Buffers
<1>13. CASE PullPin!Disconnect
  BY <1>1, <1>13 DEF PullPin!Disconnect, Accounted, PullPin!Buffers
<1>14. CASE \E start, stop \in 0..PullPin!Duration : PullPin!Seek(start, stop)
  BY <1>1, <1>14 DEF PullPin!Seek, Accounted, PullPin!Buffers
<1>15. CASE PullPin!StartThread
  BY <1>1, <1>15 DEF PullPin!StartThread, Accounted, PullPin!Buffers
<1>16. CASE PullPin!FlushReader
  <2>1. Len(queue') = Len(queue)
    BY <1>16, CancelledRanges DEF PullPin!FlushReader, SameRanges
  <2> QED BY <1>1, <1>16, <2>1 DEF PullPin!FlushReader, Accounted, PullPin!Buffers
<1>17. CASE PullPin!CallWorker
  BY <1>1, <1>17 DEF PullPin!CallWorker, Accounted, PullPin!Buffers
<1>18. CASE PullPin!Answered
  BY <1>1, <1>18 DEF PullPin!Answered, Accounted, PullPin!Buffers
<1>19. CASE PullPin!EndFlush
  BY <1>1, <1>19 DEF PullPin!EndFlush, Accounted, PullPin!Buffers
<1>20. CASE PullPin!Close
  BY <1>1, <1>20 DEF PullPin!Close, Accounted, PullPin!Buffers
<1>21. CASE PullPin!GetRequest
  BY <1>1, <1>21, RequestPlaces DEF PullPin!GetRequest, Accounted, PullPin!Buffers
<1>22. CASE PullPin!Loop
  BY <1>1, <1>22 DEF PullPin!Loop, Accounted, PullPin!Buffers
<1>23. CASE PullPin!Inner
  BY <1>1, <1>23 DEF PullPin!Inner, Accounted, PullPin!Buffers
<1>24. CASE PullPin!GetBuffer
  BY <1>1, <1>24 DEF PullPin!GetBuffer, Accounted, PullPin!Buffers
<1>25. CASE PullPin!Request
  <2>1. Len(queue') = IF pullFlushing THEN Len(queue) ELSE Len(queue) + 1
    BY <1>25 DEF PullPin!Request, PullTypes
  <2> QED BY SMTT(40), <1>1, <1>25, <2>1 DEF PullPin!Request, Accounted, PullPin!Buffers
<1>26. CASE PullPin!Collect
  <2>1. Len(queue') = IF queue # << >> THEN Len(queue) - 1 ELSE Len(queue)
    BY <1>26 DEF PullPin!Collect, PullTypes
  <2> QED BY <1>1, <1>26, <2>1 DEF PullPin!Collect, Accounted, PullPin!Buffers
<1>27. CASE PullPin!SyncRead
  BY <1>1, <1>27 DEF PullPin!SyncRead, Accounted, PullPin!Buffers
<1>28. CASE PullPin!DeliverSample
  BY <1>1, <1>28 DEF PullPin!DeliverSample, Accounted, PullPin!Buffers
<1>29. CASE PullPin!EndOfStream
  BY <1>1, <1>29 DEF PullPin!EndOfStream, Accounted, PullPin!Buffers
<1>30. CASE PullPin!CleanupCancelled
  BY <1>1, <1>30, KeptRequests DEF PullPin!CleanupCancelled, Accounted, PullPin!Buffers
<1>31. CASE PullPin!ReaderCompletes
  <2>1. Len(queue') = Len(queue)
    BY <1>31, CompletedRanges DEF SameRanges
  <2> QED BY <1>1, <1>31, <2>1 DEF PullPin!ReaderCompletes, Accounted, PullPin!Buffers
<1>32. CASE PullPin!Release
  BY <1>1, <1>32 DEF PullPin!Release, Accounted, PullPin!Buffers
<1>33. CASE UNCHANGED PullPinvars
  BY <1>1, <1>33 DEF PullPinvars, Accounted, PullPin!Buffers
<1>34. CASE PullPin!FlushRefused
  BY <1>1, <1>34 DEF PullPin!FlushRefused, Accounted, PullPin!Buffers
<1>35. CASE PullPin!Process
  BY <1>1, <1>35 DEF PullPin!Process, Accounted, PullPin!Buffers
<1>. QED
  BY <1>10, <1>11, <1>12, <1>13, <1>14, <1>15, <1>16, <1>17, <1>18, <1>19, <1>20, <1>21,
     <1>22, <1>23, <1>24, <1>25, <1>26, <1>27, <1>28, <1>29, <1>30, <1>31, <1>32, <1>33,
     <1>34, <1>35
     DEF PullPin!Next, PullPin!Step, PullPin!App, PullPin!Thread

\* A piece begins before the stop itself, since the last block has some of what is to be played.
LEMMA BeforeStop ==
    ASSUME PullTypes, NEW r \in PullRange, NEW x, NEW y, Piece(r, x, y)
    PROVE  x \in Int /\ y \in Int /\ x < PullPin!Stop /\ x < y /\ r.start = x /\ r.stop = y
<1>1. x \in Int /\ y \in Int /\ x < y /\ r.start = x /\ r.stop = y
  BY DEF Piece, PullRange
<1>2. x % PullPin!Align = 0 /\ x < PullPin!AlignedStop
  BY DEF Piece
<1>3. x + PullPin!Align <= PullPin!AlignedStop
  BY <1>1, <1>2, Ends, SumOfBlocks
<1>4. PullPin!Align \in Int /\ PullPin!AlignedStop \in Int /\ PullPin!Stop \in Int
      /\ PullPin!AlignedStop < PullPin!Stop + PullPin!Align
  BY Ends
<1>. QED BY <1>1, <1>3, <1>4

\* The times to play, in whole blocks, are the same.
TimesKept ==
    /\ PullPin!AlignedStart' = PullPin!AlignedStart
    /\ PullPin!AlignedStop' = PullPin!AlignedStop
    /\ PullPin!Stop' = PullPin!Stop /\ PullPin!Align' = PullPin!Align

LEMMA SameTimes ==
    ASSUME reader' = reader, play' = play
    PROVE  TimesKept
  BY DEF TimesKept, PullPin!AlignedStart, PullPin!AlignedStop, PullPin!AlignUp,
         PullPin!AlignDown,
         PullPin!Stop, PullPin!MinOf, PullPin!Duration, PullPin!Align

\* A sample that is delivered follows what has been, and goes on to its own end or the stop.
LEMMA Follows ==
    ASSUME PullTypes, Gapless, PullPin!DeliverSample, TimesKept, NEW y,
           Reached(sample.start), Piece(sample, sample.start, y)
    PROVE  /\ Gapless'
           /\ delivered' # << >> /\ delivered'[1].start = PullPin!AlignedStart
           /\ delivered'[Len(delivered')].stop = PullPin!MinOf(y, PullPin!Stop)
<1> DEFINE x == sample.start
           d == [start |-> x, stop |-> PullPin!MinOf(y, PullPin!Stop)]
<1>1. /\ sample \in PullRange /\ delivered \in Seq(PullRange) /\ PullPin!Stop \in Int
      /\ Len(delivered) \in Nat /\ DOMAIN delivered = 1..Len(delivered)
      /\ delivered # << >> => Len(delivered) >= 1
  BY Ends DEF PullTypes
<1>2. x \in Int /\ y \in Int /\ x < PullPin!Stop /\ x < y /\ sample.stop = y
  BY <1>1, BeforeStop
<1>3. [sample EXCEPT !.stop = PullPin!MinOf(@, PullPin!Stop)] = d
  <2>1. sample = [start |-> x, stop |-> sample.stop]
    BY <1>1 DEF PullRange
  <2> QED BY <1>2, <2>1
<1>4. delivered' = Append(delivered, d)
  BY <1>3 DEF PullPin!DeliverSample
<1>5. PullPin!MinOf(y, PullPin!Stop) \in Int /\ x < PullPin!MinOf(y, PullPin!Stop)
  BY <1>1, <1>2 DEF PullPin!MinOf
<1>6. d \in PullRange /\ d.start = x /\ d.stop = PullPin!MinOf(y, PullPin!Stop)
  BY <1>2, <1>5 DEF PullRange
<1>7. x = PullPin!MinOf(x, PullPin!Stop)
  BY <1>2 DEF PullPin!MinOf
<1> HIDE DEF d, x
<1>8. /\ Len(delivered') = Len(delivered) + 1 /\ DOMAIN delivered' = 1..Len(delivered) + 1
      /\ delivered'[Len(delivered) + 1] = d
      /\ \A k \in 1..Len(delivered) : delivered'[k] = delivered[k]
  BY <1>1, <1>4, <1>6
<1>9. delivered = << >> => x = PullPin!AlignedStart /\ Len(delivered) = 0
  BY DEF Reached, x
<1>10. delivered # << >> => /\ delivered[1].start = PullPin!AlignedStart
                            /\ delivered[Len(delivered)].stop = x
  BY <1>7 DEF Reached, x
<1>11. Gapless'
  <2> SUFFICES ASSUME NEW k \in 1..Len(delivered) + 1
               PROVE  /\ k > 1 => delivered'[k].start = delivered'[k - 1].stop
                      /\ delivered'[k].start < delivered'[k].stop
    BY <1>8 DEF Gapless
  <2>1. CASE k \in 1..Len(delivered)
    <3>1. k > 1 => k - 1 \in 1..Len(delivered)
      BY <1>1, <2>1
    <3> QED BY <1>1, <1>8, <2>1, <3>1 DEF Gapless
  <2>2. CASE k = Len(delivered) + 1
    <3>1. k > 1 => /\ Len(delivered) \in 1..Len(delivered) /\ k - 1 = Len(delivered)
                   /\ delivered # << >>
      BY <1>1, <2>2, <1>9
    <3> QED BY <1>1, <1>5, <1>6, <1>8, <1>10, <2>2, <3>1
  <2> QED BY <1>1, <2>1, <2>2
<1>12. delivered'[1].start = PullPin!AlignedStart
  <2>1. CASE delivered = << >>
    BY <1>1, <1>6, <1>8, <1>9, <2>1
  <2>2. CASE delivered # << >>
    BY <1>1, <1>8, <1>10, <2>2
  <2> QED BY <2>1, <2>2
<1>. QED BY <1>1, <1>4, <1>6, <1>8, <1>11, <1>12

\* The times the thread plays are its own: it takes them when it starts.
LEMMA TimesStep ==
    ASSUME [PullPin!Next]_PullPinvars
    PROVE  PullPin!Process \/ TimesKept
<1>1. reader' = reader
  BY DEF PullPin!Next, PullPinvars
<1>2. PullPin!Process \/ play' = play
  <2> USE DEF PullPin!threadVars, PullPin!readerVars, PullPin!poolVars, PullPin!outVars,
             PullPin!appVars, PullPin!callVars, PullPin!OutsideUnchanged,
             PullPin!ThreadUnchanged, PullPin!Begin, PullPin!ThreadExists, PullPin!Reply
  <2>10. CASE PullPin!Connect
    BY <2>10 DEF PullPin!Connect
  <2>11. CASE PullPin!Active
    BY <2>11 DEF PullPin!Active
  <2>12. CASE PullPin!Inactive
    BY <2>12 DEF PullPin!Inactive
  <2>13. CASE PullPin!Disconnect
    BY <2>13 DEF PullPin!Disconnect
  <2>14. CASE \E start, stop \in 0..PullPin!Duration : PullPin!Seek(start, stop)
    BY <2>14 DEF PullPin!Seek
  <2>15. CASE PullPin!StartThread
    BY <2>15 DEF PullPin!StartThread
  <2>16. CASE PullPin!FlushReader
    BY <2>16 DEF PullPin!FlushReader
  <2>17. CASE PullPin!FlushRefused
    BY <2>17 DEF PullPin!FlushRefused
  <2>18. CASE PullPin!CallWorker
    BY <2>18 DEF PullPin!CallWorker
  <2>19. CASE PullPin!Answered
    BY <2>19 DEF PullPin!Answered
  <2>20. CASE PullPin!EndFlush
    BY <2>20 DEF PullPin!EndFlush
  <2>21. CASE PullPin!Close
    BY <2>21 DEF PullPin!Close
  <2>22. CASE PullPin!GetRequest
    BY <2>22 DEF PullPin!GetRequest
  <2>23. CASE PullPin!Loop
    BY <2>23 DEF PullPin!Loop
  <2>24. CASE PullPin!Inner
    BY <2>24 DEF PullPin!Inner
  <2>25. CASE PullPin!GetBuffer
    BY <2>25 DEF PullPin!GetBuffer
  <2>26. CASE PullPin!Request
    BY <2>26 DEF PullPin!Request
  <2>27. CASE PullPin!Collect
    BY <2>27 DEF PullPin!Collect
  <2>28. CASE PullPin!SyncRead
    BY <2>28 DEF PullPin!SyncRead
  <2>29. CASE PullPin!DeliverSample
    BY <2>29 DEF PullPin!DeliverSample
  <2>30. CASE PullPin!EndOfStream
    BY <2>30 DEF PullPin!EndOfStream
  <2>31. CASE PullPin!CleanupCancelled
    BY <2>31 DEF PullPin!CleanupCancelled
  <2>32. CASE PullPin!ReaderCompletes
    BY <2>32 DEF PullPin!ReaderCompletes
  <2>33. CASE PullPin!Release
    BY <2>33 DEF PullPin!Release
  <2>34. CASE UNCHANGED PullPinvars
    BY <2>34 DEF PullPinvars
  <2> QED
    BY <2>10, <2>11, <2>12, <2>13, <2>14, <2>15, <2>16, <2>17, <2>18, <2>19, <2>20, <2>21,
       <2>22, <2>23, <2>24, <2>25, <2>26, <2>27, <2>28, <2>29, <2>30, <2>31, <2>32, <2>33,
       <2>34
       DEF PullPin!Next, PullPin!Step, PullPin!App, PullPin!Thread
<1>. QED BY <1>1, <1>2, SameTimes

\* A refusal is remembered.
LEMMA RefusedStays ==
    ASSUME [PullPin!Next]_PullPinvars, refused
    PROVE  refused'
<1> USE DEF PullPin!threadVars, PullPin!readerVars, PullPin!poolVars, PullPin!outVars,
           PullPin!appVars, PullPin!callVars, PullPin!OutsideUnchanged,
           PullPin!ThreadUnchanged, PullPin!Begin, PullPin!ThreadExists, PullPin!Reply
<1>10. CASE PullPin!Connect
  BY <1>10 DEF PullPin!Connect
<1>11. CASE PullPin!Active
  BY <1>11 DEF PullPin!Active
<1>12. CASE PullPin!Inactive
  BY <1>12 DEF PullPin!Inactive
<1>13. CASE PullPin!Disconnect
  BY <1>13 DEF PullPin!Disconnect
<1>14. CASE \E start, stop \in 0..PullPin!Duration : PullPin!Seek(start, stop)
  BY <1>14 DEF PullPin!Seek
<1>15. CASE PullPin!StartThread
  BY <1>15 DEF PullPin!StartThread
<1>16. CASE PullPin!FlushReader
  BY <1>16 DEF PullPin!FlushReader
<1>17. CASE PullPin!FlushRefused
  BY <1>17 DEF PullPin!FlushRefused
<1>18. CASE PullPin!CallWorker
  BY <1>18 DEF PullPin!CallWorker
<1>19. CASE PullPin!Answered
  BY <1>19 DEF PullPin!Answered
<1>20. CASE PullPin!EndFlush
  BY <1>20 DEF PullPin!EndFlush
<1>21. CASE PullPin!Close
  BY <1>21 DEF PullPin!Close
<1>22. CASE PullPin!GetRequest
  BY <1>22 DEF PullPin!GetRequest
<1>23. CASE PullPin!Process
  BY <1>23 DEF PullPin!Process
<1>24. CASE PullPin!Loop
  BY <1>24 DEF PullPin!Loop
<1>25. CASE PullPin!Inner
  BY <1>25 DEF PullPin!Inner
<1>26. CASE PullPin!GetBuffer
  BY <1>26 DEF PullPin!GetBuffer
<1>27. CASE PullPin!Request
  BY <1>27 DEF PullPin!Request
<1>28. CASE PullPin!Collect
  BY <1>28 DEF PullPin!Collect
<1>29. CASE PullPin!SyncRead
  BY <1>29 DEF PullPin!SyncRead
<1>30. CASE PullPin!DeliverSample
  BY <1>30 DEF PullPin!DeliverSample
<1>31. CASE PullPin!EndOfStream
  BY <1>31 DEF PullPin!EndOfStream
<1>32. CASE PullPin!CleanupCancelled
  BY <1>32 DEF PullPin!CleanupCancelled
<1>33. CASE PullPin!ReaderCompletes
  BY <1>33 DEF PullPin!ReaderCompletes
<1>34. CASE PullPin!Release
  BY <1>34 DEF PullPin!Release
<1>35. CASE UNCHANGED PullPinvars
  BY <1>35 DEF PullPinvars
<1>. QED
  BY <1>10, <1>11, <1>12, <1>13, <1>14, <1>15, <1>16, <1>17, <1>18, <1>19, <1>20, <1>21,
     <1>22, <1>23, <1>24, <1>25, <1>26, <1>27, <1>28, <1>29, <1>30, <1>31, <1>32, <1>33,
     <1>34, <1>35
     DEF PullPin!Next, PullPin!Step, PullPin!App, PullPin!Thread

\* Nothing else is delivered: either the sample in the thread's hands is, or a new start forgets
\* what was.
LEMMA DeliveredStep ==
    ASSUME [PullPin!Next]_PullPinvars
    PROVE  PullPin!DeliverSample \/ delivered' = << >> \/ delivered' = delivered
<1> USE DEF PullPin!threadVars, PullPin!readerVars, PullPin!poolVars, PullPin!outVars,
           PullPin!appVars, PullPin!callVars, PullPin!OutsideUnchanged,
           PullPin!ThreadUnchanged, PullPin!Begin, PullPin!ThreadExists, PullPin!Reply
<1>10. CASE PullPin!Connect
  BY <1>10 DEF PullPin!Connect
<1>11. CASE PullPin!Active
  BY <1>11 DEF PullPin!Active
<1>12. CASE PullPin!Inactive
  BY <1>12 DEF PullPin!Inactive
<1>13. CASE PullPin!Disconnect
  BY <1>13 DEF PullPin!Disconnect
<1>14. CASE \E start, stop \in 0..PullPin!Duration : PullPin!Seek(start, stop)
  BY <1>14 DEF PullPin!Seek
<1>15. CASE PullPin!StartThread
  BY <1>15 DEF PullPin!StartThread
<1>16. CASE PullPin!FlushReader
  BY <1>16 DEF PullPin!FlushReader
<1>17. CASE PullPin!CallWorker
  BY <1>17 DEF PullPin!CallWorker
<1>18. CASE PullPin!Answered
  BY <1>18 DEF PullPin!Answered
<1>19. CASE PullPin!EndFlush
  BY <1>19 DEF PullPin!EndFlush
<1>20. CASE PullPin!Close
  BY <1>20 DEF PullPin!Close
<1>21. CASE PullPin!GetRequest
  BY <1>21 DEF PullPin!GetRequest
<1>22. CASE PullPin!Loop
  BY <1>22 DEF PullPin!Loop
<1>23. CASE PullPin!Inner
  BY <1>23 DEF PullPin!Inner
<1>24. CASE PullPin!GetBuffer
  BY <1>24 DEF PullPin!GetBuffer
<1>25. CASE PullPin!Request
  BY <1>25 DEF PullPin!Request
<1>26. CASE PullPin!Collect
  BY <1>26 DEF PullPin!Collect
<1>27. CASE PullPin!SyncRead
  BY <1>27 DEF PullPin!SyncRead
<1>28. CASE PullPin!DeliverSample
  BY <1>28 DEF PullPin!DeliverSample
<1>29. CASE PullPin!EndOfStream
  BY <1>29 DEF PullPin!EndOfStream
<1>30. CASE PullPin!CleanupCancelled
  BY <1>30 DEF PullPin!CleanupCancelled
<1>31. CASE PullPin!ReaderCompletes
  BY <1>31 DEF PullPin!ReaderCompletes
<1>32. CASE PullPin!Release
  BY <1>32 DEF PullPin!Release
<1>33. CASE UNCHANGED PullPinvars
  BY <1>33 DEF PullPinvars
<1>34. CASE PullPin!FlushRefused
  BY <1>34 DEF PullPin!FlushRefused
<1>35. CASE PullPin!Process
  BY <1>35 DEF PullPin!Process
<1>. QED
  BY <1>10, <1>11, <1>12, <1>13, <1>14, <1>15, <1>16, <1>17, <1>18, <1>19, <1>20, <1>21,
     <1>22, <1>23, <1>24, <1>25, <1>26, <1>27, <1>28, <1>29, <1>30, <1>31, <1>32, <1>33,
     <1>34, <1>35
     DEF PullPin!Next, PullPin!Step, PullPin!App, PullPin!Thread

\* no gap in what is delivered,
LEMMA GaplessStep ==
    ASSUME PullTypes, Gapless, Flow, [PullPin!Next]_PullPinvars
    PROVE  Gapless'
<1>1. CASE PullPin!DeliverSample
  <2>1. pcThread \in {"deliver", "deliverLast"} /\ ~Quiet
    BY <1>1 DEF PullPin!DeliverSample, Quiet
  <2>2. PICK y : Reached(sample.start) /\ Piece(sample, sample.start, y)
    BY <2>1 DEF Flow
  <2>3. TimesKept
    BY <2>1, TimesStep DEF PullPin!Process
  <2> QED BY <1>1, <2>2, <2>3, Follows
<1>2. CASE delivered' = << >>
  BY <1>2 DEF Gapless
<1>3. CASE delivered' = delivered
  BY <1>3 DEF Gapless
<1>. QED BY <1>1, <1>2, <1>3, DeliveredStep

\* What is on its way stays the same when neither the thread nor its times move.
LEMMA FlowKept ==
    ASSUME PullTypes, Flow, ~Quiet => TimesKept, SameRanges, pcThread' = pcThread,
           tCurrent' = tCurrent, sample' = sample, delivered' = delivered
    PROVE  Flow'
<1>1. CASE Quiet
  BY SMTT(40), <1>1 DEF Quiet, Flow
<1>2. CASE ~Quiet
  <2>1. TimesKept /\ ~Quiet'
    BY <1>2 DEF Quiet
  <2>2. /\ Len(queue) \in Nat /\ Len(queue') = Len(queue)
        /\ queue = << >> <=> Len(queue) = 0
        /\ queue' = << >> <=> Len(queue') = 0
        /\ Len(queue) >= 1 => queue'[1].range = queue[1].range
        /\ Len(queue) >= 2 => queue'[2].range = queue[2].range
    BY DEF PullTypes, SameRanges
  <2> QED BY <1>2, <2>1, <2>2 DEF Flow, Reached, Piece, TimesKept, PullPin!MinOf, Quiet
<1>. QED BY <1>1, <1>2

\* A queue that is the same has the same ranges.
LEMMA SameQueue ==
    ASSUME PullTypes, queue' = queue
    PROVE  SameRanges
  BY DEF PullTypes, SameRanges

\* It is where it was when the application, the reader or the receiver takes a step,
LEMMA OutsideFlow ==
    ASSUME PullTypes, Flow, [PullPin!Next]_PullPinvars, ~PullPin!Thread
    PROVE  Flow'
<1> USE DEF PullPin!threadVars, PullPin!readerVars, PullPin!poolVars, PullPin!outVars,
           PullPin!appVars, PullPin!callVars, PullPin!OutsideUnchanged,
           PullPin!ThreadUnchanged, PullPin!Begin, PullPin!ThreadExists, PullPin!Reply
<1>1. TimesKept
  BY TimesStep DEF PullPin!Thread
<1>2. /\ tCurrent' = tCurrent /\ sample' = sample /\ delivered' = delivered
      /\ pcThread' = pcThread \/ pcThread' = "get"
      /\ queue' = queue \/ PullPin!FlushReader \/ PullPin!ReaderCompletes
  <2>10. CASE PullPin!Connect
    BY <2>10 DEF PullPin!Connect
  <2>11. CASE PullPin!Active
    BY <2>11 DEF PullPin!Active
  <2>12. CASE PullPin!Inactive
    BY <2>12 DEF PullPin!Inactive
  <2>13. CASE PullPin!Disconnect
    BY <2>13 DEF PullPin!Disconnect
  <2>14. CASE \E start, stop \in 0..PullPin!Duration : PullPin!Seek(start, stop)
    BY <2>14 DEF PullPin!Seek
  <2>15. CASE PullPin!StartThread
    BY <2>15 DEF PullPin!StartThread
  <2>16. CASE PullPin!FlushReader
    BY <2>16 DEF PullPin!FlushReader
  <2>24. CASE PullPin!FlushRefused
    BY <2>24 DEF PullPin!FlushRefused
  <2>17. CASE PullPin!CallWorker
    BY <2>17 DEF PullPin!CallWorker
  <2>18. CASE PullPin!Answered
    BY <2>18 DEF PullPin!Answered
  <2>19. CASE PullPin!EndFlush
    BY <2>19 DEF PullPin!EndFlush
  <2>20. CASE PullPin!Close
    BY <2>20 DEF PullPin!Close
  <2>21. CASE PullPin!ReaderCompletes
    BY <2>21 DEF PullPin!ReaderCompletes
  <2>22. CASE PullPin!Release
    BY <2>22 DEF PullPin!Release
  <2>23. CASE UNCHANGED PullPinvars
    BY <2>23 DEF PullPinvars
  <2> QED
    BY <2>10, <2>11, <2>12, <2>13, <2>14, <2>15, <2>16, <2>17, <2>18, <2>19, <2>20, <2>21,
       <2>22, <2>23, <2>24
       DEF PullPin!Next, PullPin!Step, PullPin!App
<1>3. SameRanges
  BY <1>2, SameQueue, CancelledRanges, CompletedRanges DEF PullPin!FlushReader
<1>4. CASE pcThread' = "get"
  BY <1>4 DEF Flow, Quiet
<1>5. CASE pcThread' = pcThread
  BY <1>1, <1>2, <1>3, <1>5, FlowKept
<1>. QED BY <1>2, <1>4, <1>5

\* A start begins where it shall.
LEMMA StartFlow ==
    ASSUME PullTypes, PullPin!Process, reader' = reader
    PROVE  Flow'
<1>1. /\ tCurrent' = PullPin!AlignDown(m_tStart) /\ delivered' = << >>
      /\ play'.start = m_tStart /\ pcThread' \in {"eos", "loop"}
  BY DEF PullPin!Process
<1>2. PullPin!AlignedStart' = tCurrent' /\ PullPin!Align' = PullPin!Align
  BY <1>1 DEF PullPin!AlignedStart, PullPin!AlignDown, PullPin!Align
<1>3. tCurrent' % PullPin!Align = 0
  <2>1. m_tStart \in Int /\ PullPin!Align \in Nat \ {0}
    BY Ends DEF PullTypes
  <2>2. (m_tStart - (m_tStart % PullPin!Align)) % PullPin!Align = 0
    BY <2>1, RoundedDown
  <2> QED BY <1>1, <2>2 DEF PullPin!AlignDown
<1>. QED BY <1>1, <1>2, <1>3 DEF Flow, Reached, Quiet

\* The stop is reached when what is delivered goes on to the end of its block.
LEMMA StopReached ==
    ASSUME PullTypes, TimesKept, NEW x \in Int, x >= PullPin!AlignedStop,
           delivered # << >> => /\ delivered[1].start = PullPin!AlignedStart
                                /\ delivered[Len(delivered)].stop = PullPin!MinOf(x, PullPin!Stop)
    PROVE  delivered = << >> \/ Reached(PullPin!Stop)
  BY SMTT(40), Ends DEF Reached, PullPin!MinOf

\* The thread reads on, collects the last request or has come to the end.
LEMMA LoopFlow ==
    ASSUME PullTypes, Outstanding, Flow, TimesKept, PullPin!Loop \/ PullPin!Inner
    PROVE  Flow'
<1>1. /\ tCurrent' = tCurrent /\ sample' = sample /\ delivered' = delivered /\ queue' = queue
      /\ tCurrent \in Int /\ (queue = << >> <=> Len(queue) = 0)
  BY DEF PullPin!Loop, PullPin!Inner, PullTypes, PullPin!threadVars, PullPin!readerVars,
         PullPin!poolVars, PullPin!outVars, PullPin!appVars, PullPin!callVars,
         PullPin!OutsideUnchanged, PullPin!ThreadUnchanged, PullPin!Begin,
         PullPin!ThreadExists, PullPin!Reply
<1>2. \/ pcThread = "loop" /\ pcThread' \in {"eos"} /\ ~(tCurrent < PullPin!AlignedStop)
      \/ pcThread = "loop" /\ pcThread' = "cleanup"
      \/ pcThread = "loop" /\ pcThread' = "buffer" /\ tCurrent < PullPin!AlignedStop
      \/ pcThread = "inner" /\ pcThread' = "buffer" /\ tCurrent < PullPin!AlignedStop
      \/ pcThread = "inner" /\ pcThread' = "last" /\ ~(tCurrent < PullPin!AlignedStop)
      \/ /\ pcThread = "inner" /\ pcThread' = "eos" /\ ~(tCurrent < PullPin!AlignedStop)
         /\ ~(PullPin!Buffers > 1)
  <2>1. CASE PullPin!Loop
    <3>1. PullPin!AlignedStop \in Int
      BY Ends
    <3>2. tCurrent >= PullPin!AlignedStop <=> ~(tCurrent < PullPin!AlignedStop)
      BY <1>1, <3>1
    <3> QED BY <2>1, <3>2 DEF PullPin!Loop
  <2>2. CASE PullPin!Inner
    BY <2>2 DEF PullPin!Inner
  <2> QED BY <2>1, <2>2
<1>3. CASE pcThread' = "cleanup"
  BY <1>3 DEF Flow, Quiet
<1>4. CASE pcThread' = "eos"
  <2>1. queue = << >> /\ pcThread \in {"loop", "inner"}
    BY <1>1, <1>2, <1>4 DEF Outstanding, Ahead
  <2>2. tCurrent >= PullPin!AlignedStop
    BY <1>1, <1>2, <1>4, Ends
  <2>3. Reached(tCurrent)
    BY <2>1 DEF Flow
  <2>4. delivered = << >> \/ Reached(PullPin!Stop)
    <3>1. delivered # << >> =>
             /\ delivered[1].start = PullPin!AlignedStart
             /\ delivered[Len(delivered)].stop = PullPin!MinOf(tCurrent, PullPin!Stop)
      BY <2>3 DEF Reached
    <3> QED BY <1>1, <2>2, <3>1, StopReached
  <2> QED BY <1>1, <1>4, <2>4 DEF Flow, Reached, TimesKept, PullPin!MinOf
<1>5. CASE pcThread' = "last"
  <2>1. pcThread = "inner" /\ tCurrent >= PullPin!AlignedStop
    <3>1. pcThread = "inner" /\ ~(tCurrent < PullPin!AlignedStop)
      BY <1>2, <1>5
    <3> QED BY <1>1, <3>1, Ends
  <2> QED BY <1>1, <1>5, <2>1 DEF Flow, Reached, Piece, TimesKept, PullPin!MinOf, Quiet
<1>6. CASE pcThread' = "buffer"
  <2>1. pcThread \in {"loop", "inner"} /\ tCurrent < PullPin!AlignedStop
    BY <1>2, <1>6
  <2>2. pcThread = "loop" => queue = << >>
    BY <1>1 DEF Outstanding
  <2> QED BY <1>1, <1>6, <2>1, <2>2 DEF Flow, Reached, Piece, TimesKept, PullPin!MinOf,
                 Quiet
<1>. QED BY <1>2, <1>3, <1>4, <1>5, <1>6

\* A buffer is for the piece behind the thread's position.
LEMMA BufferFlow ==
    ASSUME PullTypes, Flow, TimesKept, PullPin!GetBuffer
    PROVE  Flow'
<1> DEFINE t == PullPin!MinOf(tCurrent + PullPin!SampleSize, PullPin!AlignedStop)
<1>1. pcThread = "buffer" /\ ~Quiet /\ tCurrent \in Int /\ tCurrent < PullPin!AlignedStop
      /\ tCurrent % PullPin!Align = 0
  BY DEF PullPin!GetBuffer, Quiet, PullTypes, Flow
<1>2. t \in Int /\ t % PullPin!Align = 0 /\ tCurrent < t
  <2>1. (tCurrent + PullPin!SampleSize) % PullPin!Align = 0
    BY <1>1, Ends, SumOfBlocks
  <2>2. t = tCurrent + PullPin!SampleSize \/ t = PullPin!AlignedStop
    BY DEF PullPin!MinOf
  <2>3. t % PullPin!Align = 0
    BY <2>1, <2>2, Ends
  <2>4. t \in Int /\ tCurrent < t
    BY <1>1, Ends DEF PullPin!MinOf
  <2> QED BY <2>3, <2>4
<1> HIDE DEF t
<1>3. /\ sample' = [start |-> tCurrent, stop |-> t] /\ tCurrent' = t
      /\ delivered' = delivered /\ queue' = queue /\ pcThread' \in {"read", "request"}
  BY DEF PullPin!GetBuffer, t, PullPin!threadVars, PullPin!readerVars, PullPin!poolVars,
         PullPin!outVars, PullPin!appVars, PullPin!callVars, PullPin!OutsideUnchanged,
         PullPin!ThreadUnchanged, PullPin!Begin, PullPin!ThreadExists, PullPin!Reply
<1>4. sample'.start = tCurrent /\ sample'.stop = t
  BY <1>3
<1>. QED BY <1>1, <1>2, <1>3, <1>4 DEF Flow, Reached, Piece, TimesKept, PullPin!MinOf, Quiet

\* A request goes behind the one that is out,
LEMMA RequestFlow ==
    ASSUME PullTypes, Outstanding, Flow, TimesKept, PullPin!Request
    PROVE  Flow'
<1>1. /\ pcThread = "request" /\ tCurrent' = tCurrent /\ delivered' = delivered
      /\ queue \in Seq(PullRequests) /\ Len(queue) \in Nat
      /\ queue = << >> <=> Len(queue) = 0
  BY DEF PullPin!Request, PullTypes, PullPin!threadVars, PullPin!readerVars,
         PullPin!poolVars, PullPin!outVars, PullPin!appVars, PullPin!callVars,
         PullPin!OutsideUnchanged, PullPin!ThreadUnchanged, PullPin!Begin,
         PullPin!ThreadExists, PullPin!Reply
<1>2. CASE pcThread' = "cleanup"
  BY <1>2 DEF Flow, Quiet
<1>3. CASE pcThread' # "cleanup"
  <2> DEFINE r == [range |-> sample, result |-> "pending"]
  <2>1. queue' = Append(queue, r) /\ pcThread' = IF first THEN "inner" ELSE "collect"
    BY <1>3 DEF PullPin!Request
  <2>2. r \in PullRequests /\ r.range = sample
    BY DEF PullTypes, PullRequests
  <2> HIDE DEF r
  <2>3. /\ Len(queue') = Len(queue) + 1 /\ queue' # << >>
        /\ queue'[Len(queue) + 1].range = sample
        /\ Len(queue) >= 1 => queue'[1].range = queue[1].range
    BY <1>1, <2>1, <2>2
  <2>4. Len(queue) = 0 \/ (Len(queue) = 1 /\ ~first)
    BY <1>1 DEF Outstanding, Ahead
  <2>5. CASE Len(queue) = 0
    <3>1. queue'[1].range = sample /\ Len(queue') = 1 /\ queue = << >>
      BY <1>1, <2>3, <2>5
    <3>2. pcThread' \in {"inner", "collect"}
      BY <2>1
    <3> QED BY <1>1, <2>3, <3>1, <3>2
            DEF Flow, Reached, Piece, TimesKept, PullPin!MinOf, Quiet
  <2>6. CASE Len(queue) = 1 /\ ~first
    <3>1. /\ queue'[2].range = sample /\ queue'[1].range = queue[1].range /\ Len(queue') = 2
          /\ queue # << >> /\ pcThread' = "collect"
      BY <1>1, <2>1, <2>3, <2>6
    <3> QED BY <1>1, <2>3, <3>1 DEF Flow, Reached, Piece, TimesKept, PullPin!MinOf, Quiet
  <2> QED BY <2>4, <2>5, <2>6
<1>. QED BY <1>2, <1>3

\* A queue is empty when it has no request,
LEMMA NoRequests ==
    ASSUME NEW q \in Seq(PullRequests)
    PROVE  q = << >> <=> Len(q) = 0
  OBVIOUS

\* and the one that is collected was the first.
LEMMA CollectFlow ==
    ASSUME PullTypes, Outstanding, Flow, TimesKept, PullPin!Collect
    PROVE  Flow'
<1>1. /\ pcThread \in {"collect", "last"} /\ tCurrent' = tCurrent /\ delivered' = delivered
      /\ queue \in Seq(PullRequests) /\ Len(queue) \in Nat
      /\ queue = << >> <=> Len(queue) = 0
  BY DEF PullPin!Collect, PullTypes, PullPin!threadVars, PullPin!readerVars,
         PullPin!poolVars, PullPin!outVars, PullPin!appVars, PullPin!callVars,
         PullPin!OutsideUnchanged, PullPin!ThreadUnchanged, PullPin!Begin,
         PullPin!ThreadExists, PullPin!Reply
<1>2. CASE pcThread' = "cleanup"
  BY <1>2 DEF Flow, Quiet
<1>3. CASE pcThread' # "cleanup"
  <2>1. /\ queue # << >> /\ sample' = Head(queue).range /\ queue' = Tail(queue)
        /\ pcThread' = IF pcThread = "last" THEN "deliverLast" ELSE "deliver"
    BY <1>3 DEF PullPin!Collect
  <2>2. /\ sample' = queue[1].range /\ Len(queue') = Len(queue) - 1
        /\ Len(queue) >= 2 => queue'[1] = queue[2]
        /\ queue' = << >> <=> Len(queue) = 1
    <3>1. Len(queue) >= 1 /\ Head(queue) = queue[1]
      BY <1>1, <2>1
    <3>2. Tail(queue) \in Seq(PullRequests) /\ Len(Tail(queue)) = Len(queue) - 1
      BY <1>1, <2>1
    <3>3. Len(queue) >= 2 => Tail(queue)[1] = queue[2]
      BY <1>1, <2>1
    <3>4. queue' = << >> <=> Len(queue') = 0
      BY <2>1, <3>2, NoRequests
    <3>5. sample' = queue[1].range /\ Len(queue') = Len(queue) - 1
      BY <2>1, <3>1, <3>2
    <3>6. Len(queue) >= 2 => queue'[1] = queue[2]
      BY <2>1, <3>3
    <3>7. queue' = << >> <=> Len(queue) = 1
      BY <1>1, <3>4, <3>5
    <3> QED BY <3>5, <3>6, <3>7
  <2>3. CASE pcThread = "last"
    <3>1. Len(queue) = 1
      BY <2>3 DEF Outstanding
    <3> QED BY <1>1, <2>1, <2>2, <2>3, <3>1
            DEF Flow, Reached, Piece, TimesKept, PullPin!MinOf, Quiet
  <2>4. CASE pcThread = "collect"
    <3>1. Len(queue) = 1 \/ Len(queue) = 2
      BY <2>4 DEF Outstanding, Ahead
    <3>2. CASE Len(queue) = 1
      BY <1>1, <2>1, <2>2, <2>4, <3>2 DEF Flow, Reached, Piece, TimesKept, PullPin!MinOf,
             Quiet
    <3>3. CASE Len(queue) = 2
      BY <1>1, <2>1, <2>2, <2>4, <3>3 DEF Flow, Reached, Piece, TimesKept, PullPin!MinOf,
             Quiet
    <3> QED BY <3>1, <3>2, <3>3
  <2> QED BY <1>1, <2>3, <2>4
<1>. QED BY <1>2, <1>3

\* A synchronous read keeps its sample.
LEMMA ReadFlow ==
    ASSUME PullTypes, Outstanding, Flow, TimesKept, PullPin!SyncRead
    PROVE  Flow'
<1>1. /\ pcThread = "read" /\ tCurrent' = tCurrent /\ delivered' = delivered /\ queue' = queue
      /\ pcThread' = "cleanup" \/ (pcThread' = "deliver" /\ sample' = sample)
  BY DEF PullPin!SyncRead, PullPin!threadVars, PullPin!readerVars, PullPin!poolVars,
         PullPin!outVars, PullPin!appVars, PullPin!callVars, PullPin!OutsideUnchanged,
         PullPin!ThreadUnchanged, PullPin!Begin, PullPin!ThreadExists, PullPin!Reply
<1>2. queue = << >>
  BY <1>1 DEF Outstanding, PullTypes
<1>3. CASE pcThread' = "cleanup"
  BY <1>3 DEF Flow, Quiet
<1>4. CASE pcThread' = "deliver" /\ sample' = sample
  BY <1>1, <1>2, <1>4 DEF Flow, Reached, Piece, TimesKept, PullPin!MinOf, Quiet
<1>. QED BY <1>1, <1>3, <1>4

\* What has been delivered reaches to what is still on its way.
LEMMA DeliverFlow ==
    ASSUME PullTypes, Outstanding, Gapless, Flow, TimesKept, PullPin!DeliverSample
    PROVE  Flow'
<1>1. /\ pcThread \in {"deliver", "deliverLast"} /\ ~Quiet
      /\ tCurrent' = tCurrent /\ queue' = queue
      /\ tCurrent \in Int /\ Len(queue) \in Nat
      /\ queue = << >> <=> Len(queue) = 0
  BY DEF PullPin!DeliverSample, PullTypes, Quiet, PullPin!threadVars, PullPin!readerVars,
         PullPin!poolVars, PullPin!outVars, PullPin!appVars, PullPin!callVars,
         PullPin!OutsideUnchanged, PullPin!ThreadUnchanged, PullPin!Begin,
         PullPin!ThreadExists, PullPin!Reply
<1>2. /\ pcThread = "deliverLast" => pcThread' \in {"cleanup", "eos"}
      /\ pcThread = "deliver" =>
            pcThread' \in {"cleanup", IF PullPin!Sync THEN "loop" ELSE "inner"}
  BY DEF PullPin!DeliverSample
<1> DEFINE y == IF queue = << >> THEN tCurrent ELSE queue[1].range.start
<1>3. Reached(sample.start) /\ Piece(sample, sample.start, y)
  BY <1>1 DEF Flow
<1>4. queue # << >> => Piece(queue[1].range, y, tCurrent)
  BY <1>1 DEF Flow
<1> HIDE DEF y
<1>5. /\ delivered' # << >> /\ delivered'[1].start = PullPin!AlignedStart
      /\ delivered'[Len(delivered')].stop = PullPin!MinOf(y, PullPin!Stop)
  BY <1>3, Follows
<1>6. CASE pcThread' = "cleanup"
  BY <1>6 DEF Flow, Quiet
<1>7. CASE pcThread = "deliverLast" /\ pcThread' = "eos"
  <2>1. queue = << >> /\ tCurrent >= PullPin!AlignedStop
    BY <1>1, <1>7 DEF Outstanding, Flow
  <2>2. PullPin!MinOf(y, PullPin!Stop) = PullPin!MinOf(PullPin!Stop, PullPin!Stop)
    BY <1>1, <2>1, Ends DEF y, PullPin!MinOf
  <2> QED BY <1>1, <1>5, <1>7, <2>2 DEF Flow, Reached, TimesKept, PullPin!MinOf
<1>8. CASE pcThread = "deliver" /\ pcThread' \in {"loop", "inner"}
  <2>1. tCurrent % PullPin!Align = 0
    BY <1>1, <1>8 DEF Flow
  <2>2. pcThread' = "loop" => queue = << >>
    BY <1>1, <1>2, <1>8 DEF Outstanding, Ahead
  <2>3. CASE queue = << >>
    BY <1>1, <1>5, <1>8, <2>1, <2>3 DEF y, Flow, Reached, TimesKept, PullPin!MinOf, Quiet
  <2>4. CASE queue # << >>
    <3>1. pcThread' = "inner"
      BY <1>8, <2>2, <2>4
    <3>2. queue[1].range.start = y
      BY <2>4 DEF y
    <3> QED BY <1>1, <1>4, <1>5, <2>1, <2>4, <3>1, <3>2
            DEF Flow, Reached, Piece, TimesKept, PullPin!MinOf, Quiet
  <2> QED BY <2>3, <2>4
<1>. QED BY <1>1, <1>2, <1>6, <1>7, <1>8

\* and what is on its way, between what has been delivered and the thread's position.
LEMMA FlowStep ==
    ASSUME PullTypes, Outstanding, Gapless, Flow, [PullPin!Next]_PullPinvars
    PROVE  Flow'
<1>1. CASE PullPin!Thread /\ ~PullPin!Process
  <2>1. TimesKept
    BY <1>1, TimesStep
  <2>2. CASE PullPin!GetRequest \/ PullPin!EndOfStream \/ PullPin!CleanupCancelled
    <3>1. pcThread' \in {"none", "get", "process", "cleanup"}
      BY <2>2, RequestPlaces DEF PullPin!EndOfStream, PullPin!CleanupCancelled
    <3> QED BY <3>1 DEF Flow, Quiet
  <2> QED BY <1>1, <2>1, <2>2, LoopFlow, BufferFlow, RequestFlow, CollectFlow, ReadFlow,
             DeliverFlow DEF PullPin!Thread
<1>2. CASE PullPin!Process
  BY <1>2, StartFlow DEF PullPin!Next, PullPinvars
<1>3. CASE ~PullPin!Thread
  BY <1>3, OutsideFlow
<1>. QED BY <1>1, <1>2, <1>3

\* What is true of a pull pin at every step; of what it delivers, as long as its reader flushes.
PullInv == PullTypes /\ Accounted /\ (refused \/ (Outstanding /\ Gapless /\ Flow))

\* A pin that has not been started has delivered nothing and has every buffer.
LEMMA PullInit == PullPin!Init => PullInv
<1> SUFFICES ASSUME PullPin!Init
             PROVE  PullInv
  OBVIOUS
<1>1. PullTypes
  <2>1. reader \in Readers /\ PullPin!Duration \in Nat /\ PullPin!Buffers \in Nat
    BY ReadersAssumption DEF PullPin!Init, PullPin!Duration, PullPin!Buffers
  <2>2. << >> \in Seq(PullRequests) /\ << >> \in Seq(PullRange)
    OBVIOUS
  <2>3. PullPin!None \in PullRange /\ PullPin!None \in [start : Nat, stop : Nat]
    BY DEF PullPin!None, PullRange
  <2>4. /\ m_pullState = "exit" /\ pullPcApp = "idle" /\ pcThread = "none" /\ request = "none"
        /\ ~pullConnected /\ ~answered /\ ~first
    BY DEF PullPin!Init
  <2>5. pullConnected \in BOOLEAN /\ answered \in BOOLEAN /\ first \in BOOLEAN
    BY DEF PullPin!Init
  <2>6. m_tStart = 0 /\ m_tStop \in Nat /\ tCurrent = 0 /\ free \in Int /\ held = 0
    BY <2>1 DEF PullPin!Init
  <2>7. /\ target \in [start : Nat, stop : Nat] /\ play \in [start : Nat, stop : Nat] /\ sample \in PullRange
        /\ queue \in Seq(PullRequests) /\ delivered \in Seq(PullRange)
    BY <2>2, <2>3 DEF PullPin!Init
  <2> QED BY <2>1, <2>4, <2>5, <2>6, <2>7 DEF PullTypes, AppPlaces, ThreadPlaces
<1>2. Gapless /\ Flow
  BY DEF PullPin!Init, Gapless, Flow, Quiet
<1>3. Outstanding /\ Accounted
  BY Ends, <1>1 DEF PullPin!Init, Outstanding, Accounted
<1>. QED BY <1>1, <1>2, <1>3 DEF PullInv

\* Every step keeps it.
LEMMA PullStep ==
    ASSUME PullInv, [PullPin!Next]_PullPinvars
    PROVE  PullInv'
<1>1. PullTypes' /\ Accounted'
  BY PullTypesStep, AccountedStep DEF PullInv
<1>2. ASSUME ~refused' PROVE Outstanding' /\ Gapless' /\ Flow'
  <2>1. ~refused
    BY <1>2, RefusedStays
  <2>2. QED
    BY <1>2, <2>1, OutstandingStep, GaplessStep, FlowStep DEF PullInv
<1>. QED BY <1>1, <1>2 DEF PullInv

\* What the run asks of the pin.
LEMMA PullHolds ==
    ASSUME PullInv
    PROVE  PullPin!Contiguous /\ PullPin!BuffersAccounted
<1>1. PullTypes /\ Accounted /\ (~refused => Outstanding /\ Gapless /\ Flow)
  BY DEF PullInv
<1>2. ASSUME ~refused, pcThread = "eos", delivered # << >>
      PROVE  /\ Head(delivered).start = PullPin!AlignedStart
             /\ PullPin!Last(delivered).stop = PullPin!Stop
  <2>1. Reached(PullPin!Stop) /\ delivered \in Seq(PullRange) /\ PullPin!Stop \in Int
    BY <1>1, <1>2, Ends DEF Flow, PullTypes
  <2> QED BY <1>2, <2>1 DEF Reached, PullPin!MinOf, PullPin!Last
<1>3. PullPin!Contiguous
  BY <1>1, <1>2 DEF PullPin!Contiguous, Gapless
<1>4. PullPin!BuffersAccounted
  BY <1>1 DEF PullPin!BuffersAccounted, Accounted, Outstanding
<1>. QED BY <1>3, <1>4

\* The part of the instance that is a pull pin does what the pin does.
LEMMA PullPinPart ==
    [MCNext]_<<part, components>> => [PullPin!Next]_PullPinvars
  BY DEF MCNext, components

\* What a pull pin delivers follows from the start without a gap and without overlap, none of it
\* beyond the stop, and up to it when the stream ends; and each of its buffers is free, with the
\* reader, the thread or the receiver: for any reader, through any seeks, stops and errors
\* (pullpin.cpp lines 186 to 470), while the reader flushes when it is asked to.
THEOREM PulledInOrder == MCSpec => []Contiguous
<1>1. MCInit => PullInv
  BY PullInit DEF MCInit
<1>2. PullInv /\ [MCNext]_<<part, components>> => PullInv'
  BY PullStep, PullPinPart
<1>3. PullInv => Contiguous
  BY PullHolds DEF Contiguous
<1> QED BY <1>1, <1>2, <1>3, PTL DEF MCSpec
=============================================================================
