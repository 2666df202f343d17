----------------------------- MODULE FilterState -----------------------------
(***************************************************************************)
(* CBaseFilter: its state and its pins', its clock and its graph.  Every   *)
(* call but NotifyEvent holds the filter's lock, so a call is one step;    *)
(* any pin may fail Active, Run or Inactive.                               *)
(***************************************************************************)
EXTENDS Integers, FiniteSets

CONSTANTS N,            \* the number of pins
          Clocks, Graphs,
          ActiveFails,  \* may a pin fail Active
          MaxTime, MaxRefs   \* bounds

Pins == 1..N
NULL == "NULL"

VARIABLES
    m_State, m_tStart,
    connected,           \* which pins are
    active, tRun,        \* the pins: active, the time they were last run with
    activations,         \* history: activations since inactive, up to 2
    stopping,            \* history: was Stop the last call of these
    m_pClock, clockRefs, callerRefs,  \* references held by all, by the callers
    m_pGraph, m_pSink,   \* the graph and its event sink, not referenced
    notifying            \* NotifyEvent's snapshot of m_pSink

stateVars == <<m_State, m_tStart, active, tRun, activations, stopping>>
clockVars == <<m_pClock, clockRefs, callerRefs>>
graphVars == <<m_pGraph, m_pSink, notifying>>
vars == <<stateVars, connected, clockVars, graphVars>>

Init ==
    /\ m_State = "Stopped" /\ m_tStart = 0
    /\ connected \in [Pins -> BOOLEAN]
    /\ active = [p \in Pins |-> FALSE] /\ tRun = [p \in Pins |-> 0]
    /\ activations = [p \in Pins |-> 0] /\ stopping = FALSE
    /\ m_pClock = NULL /\ clockRefs = [c \in Clocks |-> 0] /\ callerRefs = [c \in Clocks |-> 0]
    /\ m_pGraph = NULL /\ m_pSink = NULL /\ notifying = NULL

\* Pins that a loop reaches before pin k fails; k = N + 1: none does.
Reached(k) == {p \in Pins : p < k /\ connected[p]}
MayFail(k) == k = N + 1 \/ (k \in Pins /\ connected[k])
-----------------------------------------------------------------------------
Activate(ps) ==
    /\ active' = [p \in Pins |-> active[p] \/ p \in ps]
    /\ activations' = [p \in Pins |-> IF p \in ps /\ activations[p] < 2 THEN activations[p] + 1
                                                                 ELSE activations[p]]

\* Fault: the first error ends the loop.
StopBreaks(k) ==
    /\ MayFail(k)
    /\ LET ps == IF m_State = "Stopped" THEN {} ELSE Reached(k) IN
       /\ active' = [p \in Pins |-> active[p] /\ p \notin ps]
       /\ activations' = [p \in Pins |-> IF p \in ps THEN 0 ELSE activations[p]]
    /\ m_State' = "Stopped" /\ stopping' = TRUE
    /\ UNCHANGED <<m_tStart, tRun, connected, clockVars, graphVars>>

\* Stop: every connected pin is made inactive, whatever they answer; in a
\* filter that is stopped none is.
Stop(k) ==
    /\ k = N + 1
    /\ LET ps == IF m_State = "Stopped" THEN {} ELSE Reached(k) IN
       /\ active' = [p \in Pins |-> active[p] /\ p \notin ps]
       /\ activations' = [p \in Pins |-> IF p \in ps THEN 0 ELSE activations[p]]
    /\ m_State' = "Stopped" /\ stopping' = TRUE
    /\ UNCHANGED <<m_tStart, tRun, connected, clockVars, graphVars>>

\* Fault: the pins are activated again from Running.
PauseAgain(k) ==
    /\ stopping' = FALSE
    /\ MayFail(k) /\ (k \in Pins => ActiveFails)
    /\ IF m_State \in {"Stopped", "Running"} THEN Activate(Reached(k)) ELSE UNCHANGED <<active, activations>>
    /\ m_State' = IF k = N + 1 \/ m_State # "Stopped" THEN "Paused" ELSE m_State
    /\ UNCHANGED <<m_tStart, tRun, connected, clockVars, graphVars>>

\* Pause: the pins of a stopped filter are activated until one fails.
Pause(k) ==
    /\ stopping' = FALSE
    /\ MayFail(k) /\ (k \in Pins => ActiveFails /\ m_State = "Stopped")
    /\ IF m_State = "Stopped" THEN Activate(Reached(k)) ELSE UNCHANGED <<active, activations>>
    /\ m_State' = IF k = N + 1 THEN "Paused" ELSE m_State
    /\ UNCHANGED <<m_tStart, tRun, connected, clockVars, graphVars>>

\* Run: pause a stopped filter, where pin k may fail, then run the pins until
\* one, j, fails.  The time is kept in any case.
Run(t, k, j) ==
    /\ stopping' = FALSE
    /\ m_tStart' = t
    /\ MayFail(k) /\ (k \in Pins => ActiveFails /\ m_State = "Stopped")
    /\ MayFail(j) /\ (j \in Pins => m_State # "Running" /\ k = N + 1)
    /\ IF m_State = "Stopped" THEN Activate(Reached(k)) ELSE UNCHANGED <<active, activations>>
    /\ IF k # N + 1
       THEN UNCHANGED <<tRun, m_State>>
       ELSE /\ tRun' = [p \in Pins |-> IF m_State # "Running" /\ p \in Reached(j) THEN t ELSE tRun[p]]
            /\ m_State' = IF j = N + 1 THEN "Running" ELSE IF m_State = "Stopped" THEN "Paused" ELSE m_State
    /\ UNCHANGED <<connected, clockVars, graphVars>>

\* A pin of a stopped filter is connected or disconnected.
SetConnected(p) ==
    /\ m_State = "Stopped"
    /\ connected' = [connected EXCEPT ![p] = ~@] /\ stopping' = FALSE
    /\ UNCHANGED <<m_State, m_tStart, active, tRun, activations, clockVars, graphVars>>
-----------------------------------------------------------------------------
AddRefIf(r, c) == IF c = NULL THEN r ELSE [r EXCEPT ![c] = @ + 1]
ReleaseIf(r, c) == IF c = NULL THEN r ELSE [r EXCEPT ![c] = @ - 1]

\* Fault: a clock that is set again is not referenced again.
SetSyncSourceSame(c) ==
    /\ clockRefs' = ReleaseIf(IF c = m_pClock THEN clockRefs ELSE AddRefIf(clockRefs, c), m_pClock)
    /\ m_pClock' = c
    /\ UNCHANGED <<stateVars, connected, callerRefs, graphVars>>

SetSyncSource(c) ==
    /\ clockRefs' = ReleaseIf(AddRefIf(clockRefs, c), m_pClock)
    /\ m_pClock' = c
    /\ UNCHANGED <<stateVars, connected, callerRefs, graphVars>>

\* The caller is given a reference, and gives it back one day.
GetSyncSource ==
    /\ m_pClock # NULL /\ callerRefs[m_pClock] < MaxRefs
    /\ clockRefs' = AddRefIf(clockRefs, m_pClock) /\ callerRefs' = AddRefIf(callerRefs, m_pClock)
    /\ UNCHANGED <<stateVars, connected, m_pClock, graphVars>>

ReleaseClock(c) ==
    /\ callerRefs[c] > 0
    /\ clockRefs' = ReleaseIf(clockRefs, c) /\ callerRefs' = ReleaseIf(callerRefs, c)
    /\ UNCHANGED <<stateVars, connected, m_pClock, graphVars>>

\* Fault: the sink outlives its graph.
JoinKeepsSink(g, hasSink) ==
    /\ m_pGraph' = g
    /\ m_pSink' = IF g # NULL /\ hasSink THEN g ELSE m_pSink
    /\ UNCHANGED <<stateVars, connected, clockVars, notifying>>

\* JoinFilterGraph: neither the graph nor its sink is referenced.  A graph
\* without a sink leaves m_pSink NULL (QueryInterface sets it).
JoinFilterGraph(g, hasSink) ==
    /\ m_pGraph' = g
    /\ m_pSink' = IF g # NULL /\ hasSink THEN g ELSE NULL
    /\ UNCHANGED <<stateVars, connected, clockVars, notifying>>

\* NotifyEvent reads m_pSink once, without the lock, and calls it after that.
NotifyEvent ==
    /\ notifying = NULL /\ notifying' = m_pSink
    /\ UNCHANGED <<stateVars, connected, clockVars, m_pGraph, m_pSink>>

Notified ==
    /\ notifying # NULL /\ notifying' = NULL
    /\ UNCHANGED <<stateVars, connected, clockVars, m_pGraph, m_pSink>>
-----------------------------------------------------------------------------
Next == \/ \E k \in 1..N + 1 : Stop(k) \/ Pause(k)
        \/ \E k, j \in 1..N + 1, t \in 0..MaxTime : Run(t, k, j)
        \/ \E p \in Pins : SetConnected(p)
        \/ \E c \in Clocks \cup {NULL} : SetSyncSource(c)
        \/ \E c \in Clocks : ReleaseClock(c)
        \/ GetSyncSource
        \/ \E g \in Graphs \cup {NULL}, hasSink \in BOOLEAN : JoinFilterGraph(g, hasSink)
        \/ NotifyEvent \/ Notified

Spec == Init /\ [][Next]_vars
-----------------------------------------------------------------------------
\* No pin is activated that is active already: a pin's Active makes a thread or
\* commits an allocator.
ActivatedOnce == \A p \in Pins : activations[p] <= 1

\* "We ignore the return code to make sure everyone is inactivated regardless
\* ... Stop can be used to resync the graph state after something has gone bad"
\* (lines 529 to 532): a call of Stop leaves no connected pin active.
StopInactivates == stopping => \A p \in Pins : connected[p] => ~active[p]

\* The filter and its callers hold exactly the references there are.
ClockReferenced ==
    \A c \in Clocks : clockRefs[c] = callerRefs[c] + (IF m_pClock = c THEN 1 ELSE 0)

\* A filter that has left its graph, or joined another, has no sink of the old
\* one: it holds no reference that would keep it (line 429).
SinkOfGraph == m_pSink # NULL => m_pSink = m_pGraph

\* Stop, Pause and Run activate no pin twice, and leave no connected pin active in
\* a stopped filter, when none fails (amfilter.cpp lines 511 to 650).
PinsFollowFilter == ActivatedOnce /\ StopInactivates

\* References are held where they are used, on a clock, by the filter and its
\* callers; and none is on the graph, whose sink goes with it (amfilter.cpp lines
\* 400 to 478).
ReferencesCounted == ClockReferenced /\ SinkOfGraph
=============================================================================
