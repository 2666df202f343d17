----------------------------- MODULE BaseProofs -----------------------------
(***************************************************************************)
(* The base classes' part that the application's thread works with, each   *)
(* for any values of the constants: a filter's state and its pins, its     *)
(* clock and its graph; a connection of two pins; the enumerators of       *)
(* types and of pins.                                                      *)
(*                                                                         *)
(* None of the properties is inductive.  A filter's pins must be known to  *)
(* be inactive whenever it is stopped; a connection needs to know at each  *)
(* point of Connect what has been agreed, who holds the allocator and      *)
(* which types are still to be tried; an enumerator, that what lies        *)
(* before its place has been given while it is in step.                    *)
(***************************************************************************)
EXTENDS MCBase, FiniteSetTheorems, TLAPS

\* The state of a filter.
StateTypes ==
    /\ m_State \in {"Stopped", "Paused", "Running"}
    /\ activations \in [Pins -> 0..2]

\* A stopped filter has touched no pin since; any other only connected ones.
PinsTouched ==
    \A p \in Pins :
        IF m_State = "Stopped"
        THEN ~active[p] /\ activations[p] = 0
        ELSE activations[p] <= 1 /\ (active[p] \/ activations[p] > 0 => connected[p])

\* Stop is the last call only of a stopped filter.
LastStop == stopping => m_State = "Stopped"

StateInv == StateTypes /\ PinsTouched /\ LastStop

\* The references, and what kind of values they are.
RefInv ==
    /\ m_pClock \in Clocks \cup {NULL} /\ clockRefs \in [Clocks -> Int]
    /\ callerRefs \in [Clocks -> Int]
    /\ ClockReferenced /\ SinkOfGraph

StateCalls == \/ \E k \in 1..N + 1 : Stop(k) \/ Pause(k)
              \/ \E k, j \in 1..N + 1, t \in 0..MaxTime : Run(t, k, j)
              \/ \E p \in Pins : SetConnected(p)
-----------------------------------------------------------------------------
\* A filter is made with its pins inactive.
LEMMA StateInit == Init => StateInv
  BY DEF Init, StateInv, StateTypes, PinsTouched, LastStop

\* Without a failure, a stopped filter activates its connected pins, and no other
\* filter activates any.
LEMMA Activating ==
    ASSUME N \in Nat, ~ActiveFails, StateTypes, PinsTouched, NEW k \in 1..N + 1,
           MayFail(k), k \in Pins => ActiveFails /\ m_State = "Stopped",
           IF m_State = "Stopped" THEN Activate(Reached(k))
                                  ELSE UNCHANGED <<active, activations>>
    PROVE  /\ k = N + 1 /\ activations' \in [Pins -> 0..2]
           /\ \A p \in Pins :
                  activations'[p] <= 1 /\ (active'[p] \/ activations'[p] > 0 => connected[p])
<1>1. k = N + 1
  BY DEF MayFail, Pins
<1>2. CASE m_State = "Stopped"
  <2>1. Activate(Reached(k))
    BY <1>2
  <2>2. \A p \in Pins : active'[p] => p \in Reached(k)
    BY <1>2, <2>1 DEF Activate, PinsTouched
  <2>3. \A p \in Pins : activations'[p] = IF p \in Reached(k) THEN 1 ELSE 0
    BY <1>2, <2>1 DEF Activate, PinsTouched
  <2>4. \A p \in Pins : p \in Reached(k) => connected[p]
    BY DEF Reached
  <2>5. activations' \in [Pins -> 0..2]
    BY <2>1 DEF Activate, StateTypes
  <2>. QED
    BY <1>1, <2>2, <2>3, <2>4, <2>5
<1>3. CASE m_State # "Stopped"
  BY <1>1, <1>3 DEF PinsTouched, StateTypes
<1>. QED
  BY <1>2, <1>3

\* Stop, Pause, Run and a change of connections keep the pins in step.
LEMMA StateStep ==
    ASSUME N \in Nat, ~ActiveFails, StateInv, StateCalls
    PROVE  StateInv'
<1>1. StateTypes /\ PinsTouched /\ LastStop
  BY DEF StateInv
<1>2. ASSUME NEW k \in 1..N + 1, Stop(k) PROVE StateTypes' /\ PinsTouched' /\ LastStop'
  <2>1. /\ k = N + 1 /\ m_State' = "Stopped"
        /\ activations' \in [Pins -> 0..2]
    BY <1>1, <1>2 DEF Stop, StateTypes
  <2>2. \A p \in Pins : p \in Reached(k) <=> connected[p]
    BY <2>1 DEF Reached, Pins
  <2>3. ASSUME NEW p \in Pins PROVE ~active'[p] /\ activations'[p] = 0
    <3>1. CASE m_State = "Stopped"
      BY <1>1, <1>2, <3>1 DEF Stop, PinsTouched
    <3>2. CASE m_State # "Stopped" /\ connected[p]
      BY <1>2, <2>2, <3>2 DEF Stop
    <3>3. CASE m_State # "Stopped" /\ ~connected[p]
      <4>1. ~active[p] /\ activations[p] = 0
        BY <1>1, <3>3 DEF PinsTouched, StateTypes
      <4>. QED
        BY <1>2, <2>2, <3>3, <4>1 DEF Stop
    <3>. QED
      BY <3>1, <3>2, <3>3
  <2>4. PinsTouched'
    BY <2>1, <2>3 DEF PinsTouched
  <2>. QED
    BY <1>1, <2>1, <2>4 DEF StateTypes, LastStop
<1>3. ASSUME NEW k \in 1..N + 1, Pause(k) PROVE StateTypes' /\ PinsTouched' /\ LastStop'
  <2>1. /\ k = N + 1 /\ activations' \in [Pins -> 0..2]
        /\ \A p \in Pins :
               activations'[p] <= 1 /\ (active'[p] \/ activations'[p] > 0 => connected[p])
    BY <1>1, <1>3, Activating DEF Pause
  <2>2. m_State' = "Paused" /\ connected' = connected /\ ~stopping'
    BY <1>3, <2>1 DEF Pause
  <2>. QED
    BY <1>1, <2>1, <2>2 DEF StateTypes, PinsTouched, LastStop
<1>4. ASSUME NEW k \in 1..N + 1, NEW j \in 1..N + 1, NEW t \in 0..MaxTime, Run(t, k, j)
      PROVE  StateTypes' /\ PinsTouched' /\ LastStop'
  <2>1. /\ k = N + 1 /\ activations' \in [Pins -> 0..2]
        /\ \A p \in Pins :
               activations'[p] <= 1 /\ (active'[p] \/ activations'[p] > 0 => connected[p])
    BY <1>1, <1>4, Activating DEF Run
  <2>2. m_State' \in {"Paused", "Running"} /\ connected' = connected /\ ~stopping'
    BY <1>1, <1>4, <2>1 DEF Run, StateTypes
  <2>. QED
    BY <1>1, <2>1, <2>2 DEF StateTypes, PinsTouched, LastStop
<1>5. ASSUME NEW p \in Pins, SetConnected(p) PROVE StateTypes' /\ PinsTouched' /\ LastStop'
  BY <1>1, <1>5 DEF SetConnected, StateTypes, PinsTouched, LastStop
<1>. QED
  BY <1>2, <1>3, <1>4, <1>5 DEF StateCalls, StateInv

\* Every step keeps the invariant.
LEMMA StateNext ==
    ASSUME N \in Nat, ~ActiveFails, StateInv, [Next]_vars
    PROVE  StateInv'
<1>1. ASSUME UNCHANGED <<stateVars, connected>> PROVE StateInv'
  BY <1>1 DEF StateInv, StateTypes, PinsTouched, LastStop, stateVars
<1>2. ASSUME \/ \E c \in Clocks \cup {NULL} : SetSyncSource(c)
             \/ \E c \in Clocks : ReleaseClock(c)
             \/ GetSyncSource \/ NotifyEvent \/ Notified \/ UNCHANGED vars
             \/ \E g \in Graphs \cup {NULL}, hasSink \in BOOLEAN : JoinFilterGraph(g, hasSink)
      PROVE  UNCHANGED <<stateVars, connected>>
  BY <1>2 DEF SetSyncSource, ReleaseClock, GetSyncSource, NotifyEvent, Notified,
              JoinFilterGraph, vars
<1>. QED
  BY <1>1, <1>2, StateStep DEF Next, StateCalls

\* Setting a clock, giving it out and getting it back keep its references, a graph
\* brings its sink and takes it away, and no other step touches any of them.
LEMMA RefStep ==
    ASSUME NULL \notin Clocks, RefInv, [Next]_vars
    PROVE  RefInv'
<1>1. ASSUME NEW c \in Clocks \cup {NULL}, SetSyncSource(c) PROVE RefInv'
  BY <1>1 DEF SetSyncSource, AddRefIf, ReleaseIf, RefInv, ClockReferenced, SinkOfGraph,
              graphVars
<1>2. ASSUME NEW c \in Clocks, ReleaseClock(c) PROVE RefInv'
  BY <1>2 DEF ReleaseClock, ReleaseIf, RefInv, ClockReferenced, SinkOfGraph, graphVars
<1>3. CASE GetSyncSource
  BY <1>3 DEF GetSyncSource, AddRefIf, RefInv, ClockReferenced, SinkOfGraph, graphVars
<1>4. ASSUME NEW g \in Graphs \cup {NULL}, NEW hasSink \in BOOLEAN, JoinFilterGraph(g, hasSink)
      PROVE  RefInv'
  BY <1>4 DEF JoinFilterGraph, RefInv, ClockReferenced, SinkOfGraph, clockVars
<1>5. CASE NotifyEvent \/ Notified
  BY <1>5 DEF NotifyEvent, Notified, RefInv, ClockReferenced, SinkOfGraph, clockVars
<1>6. ASSUME UNCHANGED <<clockVars, graphVars>> PROVE RefInv'
  BY <1>6 DEF RefInv, ClockReferenced, SinkOfGraph, clockVars, graphVars
<1>7. ASSUME StateCalls \/ UNCHANGED vars PROVE UNCHANGED <<clockVars, graphVars>>
  BY <1>7 DEF StateCalls, Stop, Pause, Run, SetConnected, vars
<1>. QED
  BY <1>1, <1>2, <1>3, <1>4, <1>5, <1>6, <1>7 DEF Next, StateCalls

\* Where no pin fails Active, Stop, Pause and Run activate no pin twice, and no
\* connected pin is active after a Stop (amfilter.cpp lines 511 to 650).
THEOREM PinsInStep ==
    ASSUME N \in Nat, ~ActiveFails
    PROVE  Spec => []PinsFollowFilter
<1>1. Init => StateInv
  BY StateInit
<1>2. StateInv /\ [Next]_vars => StateInv'
  BY StateNext
<1>3. StateInv => PinsFollowFilter
  BY DEF StateInv, StateTypes, PinsTouched, LastStop, PinsFollowFilter, ActivatedOnce,
         StopInactivates
<1>. QED
  BY <1>1, <1>2, <1>3, PTL DEF Spec

\* The filter holds one reference on its clock and its callers those they were given;
\* a sink of events is the one of the graph the filter is in (amfilter.cpp lines 400
\* to 478), also when pins fail to become active.
THEOREM ReferencesKept ==
    ASSUME NULL \notin Clocks
    PROVE  Spec => []ReferencesCounted
<1>1. Init => RefInv
  BY DEF Init, RefInv, ClockReferenced, SinkOfGraph
<1>2. RefInv /\ [Next]_vars => RefInv'
  BY RefStep
<1>3. RefInv => ReferencesCounted
  BY DEF RefInv, ReferencesCounted
<1>. QED
  BY <1>1, <1>2, <1>3, PTL DEF Spec
-----------------------------------------------------------------------------
\* A connection.  Its two pins,
BothPins == {"out", "in"}

\* is a Connect under way,
InCall == connPc # "idle"

\* and is it where both pins are connected.
BothConnected ==
    connPc \in {"getAllocator", "initAllocator", "notifyTheirs", "notifyOurs", "undo"}

ConnectionTypes ==
    /\ accepts \in [BothPins -> SUBSET Types] /\ stopped \in [BothPins -> BOOLEAN]
    /\ m_Connected \in [BothPins -> BOOLEAN] /\ m_mt \in [BothPins -> Types \cup {"none"}]
    /\ created \in 0..MaxAllocators
    /\ m_pAllocator \in [BothPins -> 0..created] /\ m_pInputPin \in BOOLEAN
    /\ refs \in [1..MaxAllocators -> Int] /\ committed \in [1..MaxAllocators -> BOOLEAN]
    /\ candidates \in Seq(Types) /\ wish \in Connection!Wishes
    /\ failures \in Nat /\ before \in BOOLEAN

\* The input pin is still connected, or not, as it was found or refused to become.
AsFound ==
    "disconnected" \notin mishaps => (m_Connected["in"] <=> before \/ "kept" \in mishaps)

\* What the pins have agreed on at each point of a Connect.
Points ==
    /\ connPc \in {"idle", "try", "receive"} \/ BothConnected
    /\ InCall => connResult = "none" /\ stopped["out"]
    /\ connPc = "try" => ~m_Connected["out"] /\ AsFound
    /\ connPc = "receive" =>
           /\ m_Connected["out"] /\ AsFound
           /\ candidates # << >> /\ Head(candidates) \in wish.match \cap accepts["out"]
           /\ m_mt["out"] = Head(candidates)
    /\ BothConnected =>
           /\ m_Connected["out"]
           /\ "disconnected" \notin mishaps =>
                  m_Connected["in"] /\ ~before /\ "kept" \notin mishaps
           /\ "changed" \notin mishaps => stopped["in"]
           /\ candidates # << >> /\ m_mt["out"] = m_mt["in"]
           /\ m_mt["in"] \in accepts["out"] \cap accepts["in"] \cap wish.match
    /\ connPc \in {"initAllocator", "notifyOurs", "undo"} => failures > 0
    /\ "kept" \in mishaps => "changed" \in mishaps

\* Who has an allocator.
Holders ==
    /\ m_pInputPin <=> m_Connected["out"]
    /\ m_pAllocator["out"] # 0 <=>
           m_Connected["out"] /\ connPc \in {"idle", "notifyTheirs", "notifyOurs"}

\* Each holder has one reference.
Held(p, a) == IF m_pAllocator[p] = a THEN 1 ELSE 0

Referenced == \A a \in 1..MaxAllocators : refs[a] = Held("in", a) + Held("out", a)

\* One of the pins has the type in its list.
Offered(t) == \/ \E k \in DOMAIN InTypes : InTypes[k] = t
              \/ \E k \in DOMAIN OutTypes : OutTypes[k] = t

\* While no call fails, a type that would do is still to be tried.
StillToTry ==
    connPc \in {"try", "receive"} /\ failures = 0 /\ ~before /\ stopped["in"] /\ mishaps = {} =>
        \A t \in wish.match \cap accepts["out"] \cap accepts["in"] :
            (\E k \in DOMAIN candidates : candidates[k] = t) \/ ~(wish.full \/ Offered(t))

Outcome == Connection!Agreed /\ Connection!NothingLeft /\ Connection!TypeFound

ConnectionInv == /\ ConnectionTypes /\ Points /\ Holders /\ Referenced /\ StillToTry
                 /\ Connection!CommittedWhileActive /\ Outcome

\* Nothing is connected, held or tried at first.
LEMMA ConnectionInit == Connection!Init => ConnectionInv
<1> SUFFICES ASSUME Connection!Init PROVE ConnectionInv
  OBVIOUS
<1>1. wish \in Connection!Wishes
  <2>1. PICK t : t \in Types
    BY ConnectionAssumption
  <2>2. [full |-> TRUE, match |-> {t}] \in Connection!Wishes
    BY <2>1 DEF Connection!Wishes
  <2>. QED
    BY <2>2 DEF Connection!Init
<1>2. /\ connPc = "idle" /\ connResult = "none" /\ created = 0 /\ failures = 0
      /\ candidates = << >> /\ before = FALSE /\ mishaps = {} /\ m_pInputPin = FALSE
  BY DEF Connection!Init
<1>3. /\ \A p \in BothPins : ~m_Connected[p] /\ m_pAllocator[p] = 0 /\ m_mt[p] = "none"
      /\ m_Connected \in [BothPins -> BOOLEAN] /\ stopped \in [BothPins -> BOOLEAN]
      /\ m_mt \in [BothPins -> {"none"}] /\ m_pAllocator \in [BothPins -> {0}]
      /\ accepts \in [BothPins -> SUBSET Types]
      /\ refs = [a \in 1..MaxAllocators |-> 0]
      /\ committed = [a \in 1..MaxAllocators |-> FALSE]
  BY DEF Connection!Init, Connection!Both, BothPins, Connection!NULL, Connection!NoType,
         Connection!Allocators
<1>4. ConnectionTypes
  <2>1. m_mt \in [BothPins -> Types \cup {"none"}] /\ m_pAllocator \in [BothPins -> 0..created]
    BY <1>2, <1>3
  <2>2. refs \in [1..MaxAllocators -> Int] /\ committed \in [1..MaxAllocators -> BOOLEAN]
    BY <1>3
  <2>3. created \in 0..MaxAllocators /\ candidates \in Seq(Types)
    BY <1>2, ConnectionAssumption
  <2>. QED
    BY <1>1, <1>2, <1>3, <2>1, <2>2, <2>3 DEF ConnectionTypes
<1>5. Points /\ Holders /\ StillToTry
  BY <1>2, <1>3 DEF Points, AsFound, Holders, StillToTry, InCall, BothConnected, BothPins
<1>6. Referenced
  BY <1>3 DEF Referenced, Held, BothPins
<1>7. Connection!CommittedWhileActive /\ Outcome
  BY <1>2, <1>3 DEF Connection!CommittedWhileActive, Connection!Allocators, Outcome,
                    Connection!Agreed, Connection!NothingLeft, Connection!TypeFound
<1>. QED
  BY <1>4, <1>5, <1>6, <1>7 DEF ConnectionInv

\* A list without its first element.
LEMMA Rest ==
    ASSUME NEW S, NEW q \in Seq(S), q # << >>
    PROVE  /\ Tail(q) \in Seq(S) /\ Head(q) \in S
           /\ \A t : (\E k \in DOMAIN q : q[k] = t) =>
                         t = Head(q) \/ \E k \in DOMAIN Tail(q) : Tail(q)[k] = t
<1>1. Len(q) \in Nat \ {0} /\ Tail(q) \in Seq(S) /\ Head(q) = q[1] /\ Len(Tail(q)) = Len(q) - 1
  OBVIOUS
<1>2. ASSUME NEW k \in DOMAIN q, k # 1 PROVE k - 1 \in DOMAIN Tail(q) /\ Tail(q)[k - 1] = q[k]
  BY <1>1, <1>2
<1>3. Head(q) \in S
  BY <1>1
<1>4. ASSUME NEW k \in DOMAIN q, k # 1 PROVE \E j \in DOMAIN Tail(q) : Tail(q)[j] = q[k]
  BY <1>2, <1>4
<1>. QED
  BY <1>1, <1>3, <1>4

\* What a Connect tries are types, among them each one that was asked for and that is
\* offered.
LEMMA CandidateTypes ==
    ASSUME NEW w \in Connection!Wishes
    PROVE  /\ Connection!Candidates(w) \in Seq(Types) /\ w.match \subseteq Types
           /\ \A t \in w.match : w.full \/ Offered(t) =>
                  \E k \in DOMAIN Connection!Candidates(w) : Connection!Candidates(w)[k] = t
<1>1. CASE w.full
  <2>1. PICK t \in Types : w.match = {t}
    BY <1>1 DEF Connection!Wishes
  <2>2. Connection!Candidates(w) = << t >>
    BY <1>1, <2>1 DEF Connection!Candidates
  <2>. QED
    BY <2>1, <2>2
<1>2. CASE ~w.full
  <2>1. w.match \subseteq Types
    BY <1>2, ConnectionAssumption DEF Connection!Wishes
  <2>2. \E p, q \in Seq(Types) :
            /\ Connection!Candidates(w) = p \o q
            /\ (p = InTypes /\ q = OutTypes) \/ (p = OutTypes /\ q = InTypes)
    <3>1. CASE TryMine
      BY <1>2, <3>1, ConnectionAssumption DEF Connection!Candidates
    <3>2. CASE ~TryMine
      BY <1>2, <3>2, ConnectionAssumption DEF Connection!Candidates
    <3>. QED
      BY <3>1, <3>2
  <2>5. PICK p \in Seq(Types), q \in Seq(Types) :
            /\ Connection!Candidates(w) = p \o q
            /\ (p = InTypes /\ q = OutTypes) \/ (p = OutTypes /\ q = InTypes)
    BY <2>2
  <2>3. ASSUME NEW t, Offered(t) PROVE \E k \in DOMAIN (p \o q) : (p \o q)[k] = t
    <3>1. \/ \E k \in DOMAIN p : p[k] = t
          \/ \E k \in DOMAIN q : q[k] = t
      BY <2>5, <2>3 DEF Offered
    <3>2. /\ \A k \in DOMAIN p : k \in DOMAIN (p \o q) /\ (p \o q)[k] = p[k]
          /\ \A k \in DOMAIN q : k + Len(p) \in DOMAIN (p \o q) /\ (p \o q)[k + Len(p)] = q[k]
      OBVIOUS
    <3>. QED
      BY <3>1, <3>2
  <2>. QED
    BY <1>2, <2>1, <2>5, <2>3
<1>. QED
  BY <1>1, <1>2

\* What is left when the first candidate has been tried.
LEMMA OtherCandidates ==
    ASSUME candidates \in Seq(Types), candidates # << >>
    PROVE  /\ Tail(candidates) \in Seq(Types) /\ Head(candidates) \in Types
           /\ \A t : (\E k \in DOMAIN candidates : candidates[k] = t) =>
                      \/ t = Head(candidates)
                      \/ \E k \in DOMAIN Tail(candidates) : Tail(candidates)[k] = t
  BY Rest

\* A count that goes up stays a count.
LEMMA OneMore ==
    ASSUME NEW S, NEW r \in [S -> Int], NEW a
    PROVE  [r EXCEPT ![a] = @ + 1] \in [S -> Int]
<1>1. CASE a \in S
  BY <1>1
<1>2. CASE a \notin S
  BY <1>2
<1>. QED
  BY <1>1, <1>2

\* A pin lets go of its allocator.
LEMMA LettingGo ==
    ASSUME ConnectionTypes, NEW r \in [1..MaxAllocators -> Int], NEW p \in BothPins
    PROVE  /\ Connection!Released(r, m_pAllocator[p]) \in [1..MaxAllocators -> Int]
           /\ Connection!Decommitted(m_pAllocator[p]) \in [1..MaxAllocators -> BOOLEAN]
<1>1. m_pAllocator[p] \in 0..created /\ created \in 0..MaxAllocators
  BY DEF ConnectionTypes
<1>2. m_pAllocator[p] \in 0..MaxAllocators
  BY <1>1, ConnectionAssumption
<1>. QED
  BY <1>2 DEF ConnectionTypes, Connection!Released, Connection!Decommitted, Connection!NULL

\* Every step keeps the values of their kinds,
LEMMA ConnectionTypesStep ==
    ASSUME ConnectionTypes, Points, [Connection!Next]_Connectionvars
    PROVE  ConnectionTypes'
<1> USE ConnectionAssumption DEF ConnectionTypes, Points, AsFound, InCall, BothConnected, BothPins,
            Connection!pinVars, Connection!poolVars, Connection!countVars, Connection!history, Connection!Both,
            Connection!NULL, Connection!Allocators
<1>1. ASSUME NEW w \in Connection!Wishes, Connection!Connect(w) PROVE ConnectionTypes'
  BY <1>1, CandidateTypes DEF Connection!Connect
<1>2. CASE Connection!PassOver
  BY <1>2, OtherCandidates DEF Connection!PassOver, Connection!NextType
<1>3. CASE Connection!Attempt
  <2>1. CASE Head(candidates) \in accepts["out"]
    <3>1. Head(candidates) \in Types
      BY <1>3, OtherCandidates DEF Connection!Attempt
    <3>2. m_mt' \in [BothPins -> Types \cup {"none"}] /\ m_Connected' \in [BothPins -> BOOLEAN]
      BY ZenonT(60), <1>3, <2>1, <3>1 DEF Connection!Attempt
    <3>. QED
      BY <1>3, <2>1, <3>2 DEF Connection!Attempt
  <2>2. CASE Head(candidates) \notin accepts["out"]
    BY <1>3, OtherCandidates, <2>2 DEF Connection!Attempt, Connection!NextType
  <2>. QED
    BY <2>1, <2>2
<1>4. CASE Connection!AttemptFails
  BY <1>4, OtherCandidates DEF Connection!AttemptFails, Connection!NextType, Connection!Fail
<1>5. CASE Connection!NoMoreTypes
  BY <1>5 DEF Connection!NoMoreTypes
<1>6. CASE Connection!ReceiveConnection
  BY <1>6 DEF Connection!ReceiveConnection
<1>7. CASE Connection!ReceiveRefuses
  <2>1. /\ refs' \in [1..MaxAllocators -> Int]
        /\ committed' \in [1..MaxAllocators -> BOOLEAN]
    BY <1>7, LettingGo DEF Connection!ReceiveRefuses, Connection!BreakOut
  <2>2. failures' \in Nat
    BY <1>7 DEF Connection!ReceiveRefuses, Connection!Fail
  <2>3. candidates' \in Seq(Types)
    BY <1>7, OtherCandidates DEF Connection!ReceiveRefuses, Connection!NextType
  <2>4. m_Connected' \in [BothPins -> BOOLEAN] /\ m_pAllocator' \in [BothPins -> 0..created]
    BY <1>7 DEF Connection!ReceiveRefuses
  <2>5. m_pInputPin' = FALSE /\ UNCHANGED <<accepts, stopped, m_mt, created, wish, before>>
    BY <1>7 DEF Connection!ReceiveRefuses, Connection!BreakOut
  <2>. QED
    BY <2>1, <2>2, <2>3, <2>4, <2>5
<1>8. CASE Connection!GetAllocator
  BY SMTT(40), <1>8 DEF Connection!GetAllocator, Connection!Create
<1>9. CASE Connection!GetAllocatorFails
  BY <1>9 DEF Connection!GetAllocatorFails, Connection!Fail
<1>10. CASE Connection!InitAllocator
  BY <1>10 DEF Connection!InitAllocator, Connection!Create
<1>11. CASE Connection!NotifyAllocator
  <2>1. [refs EXCEPT ![m_pAllocator["out"]] = @ + 1] \in [1..MaxAllocators -> Int]
    BY OneMore
  <2>2. refs' \in [1..MaxAllocators -> Int]
    BY <1>11, <2>1, LettingGo DEF Connection!NotifyAllocator
  <2>. QED
    BY <1>11, <2>2 DEF Connection!NotifyAllocator
<1>12. CASE Connection!AllocatorFails
  BY SMTT(40), <1>12 DEF Connection!AllocatorFails, Connection!Fail, Connection!Released
<1>13. CASE Connection!Undo
  <2>1. /\ refs' \in [1..MaxAllocators -> Int]
        /\ committed' \in [1..MaxAllocators -> BOOLEAN]
    BY <1>13, LettingGo DEF Connection!Undo
  <2>2. m_Connected' \in [BothPins -> BOOLEAN] /\ m_pAllocator' \in [BothPins -> 0..created]
    <3>1. CASE stopped["in"]
      <4>1. m_Connected' = [p \in BothPins |-> FALSE] /\ m_pAllocator' = [p \in BothPins |-> 0]
        BY <1>13, <3>1 DEF Connection!Undo
      <4>. QED
        BY <4>1
    <3>2. CASE ~stopped["in"]
      BY <1>13, <3>2 DEF Connection!Undo
    <3>. QED
      BY <3>1, <3>2
  <2>3. candidates' \in Seq(Types) /\ m_pInputPin' = FALSE
    BY <1>13, OtherCandidates DEF Connection!Undo, Connection!NextType
  <2>. QED
    BY <1>13, <2>1, <2>2, <2>3 DEF Connection!Undo
<1>14. ASSUME NEW p \in BothPins, Connection!Disconnect(p) PROVE ConnectionTypes'
  BY SMTT(40), <1>14
     DEF Connection!Disconnect, Connection!Meanwhile, Connection!Released, Connection!Decommitted
<1>15. ASSUME NEW p \in BothPins, Connection!Active(p) PROVE ConnectionTypes'
  BY <1>15 DEF Connection!Active, Connection!Free, Connection!Meanwhile
<1>16. ASSUME NEW p \in BothPins, Connection!Inactive(p) PROVE ConnectionTypes'
  BY SMTT(40), <1>16 DEF Connection!Inactive, Connection!Free, Connection!Meanwhile,
         Connection!Decommitted
<1>17. CASE UNCHANGED Connectionvars
  BY <1>17 DEF Connectionvars
<1>. QED
  BY <1>1, <1>2, <1>3, <1>4, <1>5, <1>6, <1>7, <1>8, <1>9, <1>10, <1>11, <1>12, <1>13, <1>14,
     <1>15, <1>16, <1>17
     DEF Connection!Next

\* what is agreed at each point of a Connect,
LEMMA PointsStep ==
    ASSUME ConnectionTypes, Points, [Connection!Next]_Connectionvars
    PROVE  Points'
<1> USE DEF ConnectionTypes, Points, AsFound, InCall, BothConnected, BothPins,
            Connection!pinVars, Connection!poolVars, Connection!countVars, Connection!history, Connection!Both,
            Connection!NULL, Connection!Allocators
<1>1. ASSUME NEW w \in Connection!Wishes, Connection!Connect(w) PROVE Points'
  BY <1>1 DEF Connection!Connect
<1>2. CASE Connection!PassOver
  BY <1>2 DEF Connection!PassOver, Connection!NextType
<1>3. CASE Connection!Attempt
  BY <1>3 DEF Connection!Attempt, Connection!NextType
<1>4. CASE Connection!AttemptFails
  BY <1>4 DEF Connection!AttemptFails, Connection!NextType, Connection!Fail
<1>5. CASE Connection!NoMoreTypes
  BY <1>5 DEF Connection!NoMoreTypes
<1>6. CASE Connection!ReceiveConnection
  BY <1>6 DEF Connection!ReceiveConnection
<1>7. CASE Connection!ReceiveRefuses
  BY <1>7
     DEF Connection!ReceiveRefuses, Connection!BreakOut, Connection!NextType, Connection!Fail,
         Connection!Released, Connection!Decommitted
<1>8. CASE Connection!GetAllocator
  BY <1>8 DEF Connection!GetAllocator, Connection!Create
<1>9. CASE Connection!GetAllocatorFails
  BY <1>9 DEF Connection!GetAllocatorFails, Connection!Fail
<1>10. CASE Connection!InitAllocator
  BY <1>10 DEF Connection!InitAllocator, Connection!Create
<1>11. CASE Connection!NotifyAllocator
  BY <1>11 DEF Connection!NotifyAllocator, Connection!Released
<1>12. CASE Connection!AllocatorFails
  BY <1>12 DEF Connection!AllocatorFails, Connection!Fail, Connection!Released
<1>13. CASE Connection!Undo
  BY <1>13 DEF Connection!Undo, Connection!NextType, Connection!Released, Connection!Decommitted
<1>14. ASSUME NEW p \in BothPins, Connection!Disconnect(p) PROVE Points'
  <2>1. /\ \A q \in BothPins : (m_Connected'[q] <=> m_Connected[q] /\ q # p)
        /\ connResult' = "none"
        /\ connPc = "idle" \/ (p = "in" /\ "disconnected" \in mishaps')
        /\ "changed" \in mishaps' <=> "changed" \in mishaps
        /\ "kept" \in mishaps' <=> "kept" \in mishaps
        /\ UNCHANGED <<accepts, stopped, connPc, candidates, wish, before, m_mt, failures>>
    BY <1>14 DEF Connection!Disconnect, Connection!Free, Connection!Meanwhile
  <2>. QED
    BY <2>1
<1>15. ASSUME NEW p \in BothPins, Connection!Active(p) PROVE Points'
  BY <1>15 DEF Connection!Active, Connection!Free, Connection!Meanwhile
<1>16. ASSUME NEW p \in BothPins, Connection!Inactive(p) PROVE Points'
  BY <1>16 DEF Connection!Inactive, Connection!Free, Connection!Meanwhile, Connection!Decommitted
<1>17. CASE UNCHANGED Connectionvars
  BY <1>17 DEF Connectionvars
<1>. QED
  BY <1>1, <1>2, <1>3, <1>4, <1>5, <1>6, <1>7, <1>8, <1>9, <1>10, <1>11, <1>12, <1>13, <1>14,
     <1>15, <1>16, <1>17
     DEF Connection!Next

\* and who holds an allocator.
LEMMA HoldersStep ==
    ASSUME ConnectionTypes, Points, Holders, [Connection!Next]_Connectionvars
    PROVE  Holders'
<1> USE DEF ConnectionTypes, Points, AsFound, Holders, InCall, BothConnected, BothPins,
            Connection!pinVars, Connection!poolVars, Connection!countVars, Connection!history, Connection!Both,
            Connection!NULL, Connection!Allocators
<1>1. ASSUME NEW w \in Connection!Wishes, Connection!Connect(w) PROVE Holders'
  BY <1>1 DEF Connection!Connect
<1>2. CASE Connection!PassOver
  BY <1>2 DEF Connection!PassOver, Connection!NextType
<1>3. CASE Connection!Attempt
  BY <1>3 DEF Connection!Attempt, Connection!NextType
<1>4. CASE Connection!AttemptFails
  BY <1>4 DEF Connection!AttemptFails, Connection!NextType, Connection!Fail
<1>5. CASE Connection!NoMoreTypes
  BY <1>5 DEF Connection!NoMoreTypes
<1>6. CASE Connection!ReceiveConnection
  BY <1>6 DEF Connection!ReceiveConnection
<1>7. CASE Connection!ReceiveRefuses
  BY <1>7
     DEF Connection!ReceiveRefuses, Connection!BreakOut, Connection!NextType, Connection!Fail,
         Connection!Released, Connection!Decommitted
<1>8. CASE Connection!GetAllocator
  BY <1>8 DEF Connection!GetAllocator, Connection!Create
<1>9. CASE Connection!GetAllocatorFails
  BY <1>9 DEF Connection!GetAllocatorFails, Connection!Fail
<1>10. CASE Connection!InitAllocator
  BY <1>10 DEF Connection!InitAllocator, Connection!Create
<1>11. CASE Connection!NotifyAllocator
  BY <1>11 DEF Connection!NotifyAllocator, Connection!Released
<1>12. CASE Connection!AllocatorFails
  BY <1>12 DEF Connection!AllocatorFails, Connection!Fail, Connection!Released
<1>13. CASE Connection!Undo
  BY <1>13 DEF Connection!Undo, Connection!NextType, Connection!Released, Connection!Decommitted
<1>14. ASSUME NEW p \in BothPins, Connection!Disconnect(p) PROVE Holders'
  BY <1>14
     DEF Connection!Disconnect, Connection!Meanwhile, Connection!Released, Connection!Decommitted
<1>15. ASSUME NEW p \in BothPins, Connection!Active(p) PROVE Holders'
  BY <1>15 DEF Connection!Active, Connection!Free, Connection!Meanwhile
<1>16. ASSUME NEW p \in BothPins, Connection!Inactive(p) PROVE Holders'
  BY <1>16 DEF Connection!Inactive, Connection!Free, Connection!Meanwhile, Connection!Decommitted
<1>17. CASE UNCHANGED Connectionvars
  BY <1>17 DEF Connectionvars
<1>. QED
  BY <1>1, <1>2, <1>3, <1>4, <1>5, <1>6, <1>7, <1>8, <1>9, <1>10, <1>11, <1>12, <1>13, <1>14,
     <1>15, <1>16, <1>17
     DEF Connection!Next

\* An allocator gets a reference with each holder and loses it with that.
LEMMA ReferencedStep ==
    ASSUME ConnectionTypes, Points, Holders, Referenced, [Connection!Next]_Connectionvars
    PROVE  Referenced'
<1> USE DEF ConnectionTypes, Points, AsFound, Holders, Referenced, Held, InCall, BothConnected, BothPins,
            Connection!pinVars, Connection!poolVars, Connection!countVars, Connection!history, Connection!Both,
            Connection!NULL, Connection!Allocators
<1>1. ASSUME NEW w \in Connection!Wishes, Connection!Connect(w) PROVE Referenced'
  BY <1>1 DEF Connection!Connect
<1>2. CASE Connection!PassOver
  BY <1>2 DEF Connection!PassOver, Connection!NextType
<1>3. CASE Connection!Attempt
  BY <1>3 DEF Connection!Attempt, Connection!NextType
<1>4. CASE Connection!AttemptFails
  BY <1>4 DEF Connection!AttemptFails, Connection!NextType, Connection!Fail
<1>5. CASE Connection!NoMoreTypes
  BY <1>5 DEF Connection!NoMoreTypes
<1>6. CASE Connection!ReceiveConnection
  BY <1>6 DEF Connection!ReceiveConnection
<1>7. CASE Connection!ReceiveRefuses
  BY <1>7
     DEF Connection!ReceiveRefuses, Connection!BreakOut, Connection!NextType, Connection!Fail,
         Connection!Released, Connection!Decommitted
<1>8. CASE Connection!GetAllocator
  <2>1. PICK a \in 1..MaxAllocators :
            /\ IF m_pAllocator["in"] = 0
               THEN a = created + 1 /\ refs' = [refs EXCEPT ![a] = 2]
               ELSE a = m_pAllocator["in"] /\ refs' = [refs EXCEPT ![a] = @ + 1]
            /\ m_pAllocator' = [p \in BothPins |-> a]
    BY <1>8 DEF Connection!GetAllocator, Connection!Create
  <2>2. m_pAllocator["out"] = 0 /\ m_pAllocator'["in"] = a /\ m_pAllocator'["out"] = a
    BY <1>8, <2>1 DEF Connection!GetAllocator
  <2>3. ASSUME NEW b \in 1..MaxAllocators PROVE refs'[b] = Held("in", b)' + Held("out", b)'
    <3>1. MaxAllocators \in Nat /\ refs \in [1..MaxAllocators -> Int] /\ b # 0
      BY ConnectionAssumption
    <3>2. refs[b] = Held("in", b) + Held("out", b)
      OBVIOUS
    <3>3. refs[b] = IF m_pAllocator["in"] = b THEN 1 ELSE 0
      BY <2>2, <3>1, <3>2
    <3>4. CASE b = a
      BY SMTT(40), <2>1, <2>2, <3>1, <3>3, <3>4
    <3>5. CASE b # a
      <4>1. refs'[b] = refs[b]
        BY <2>1, <3>1, <3>5
      <4>2. m_pAllocator["in"] # b
        BY <2>1, <3>1, <3>5
      <4>. QED
        BY <2>2, <3>3, <3>5, <4>1, <4>2
    <3>. QED
      BY <3>4, <3>5
  <2>. QED
    BY <2>3
<1>9. CASE Connection!GetAllocatorFails
  BY <1>9 DEF Connection!GetAllocatorFails, Connection!Fail
<1>10. CASE Connection!InitAllocator
  BY SMTT(40), <1>10 DEF Connection!InitAllocator, Connection!Create
<1>11. CASE Connection!NotifyAllocator
  BY <1>11 DEF Connection!NotifyAllocator, Connection!Released
<1>12. CASE Connection!AllocatorFails
  BY <1>12 DEF Connection!AllocatorFails, Connection!Fail, Connection!Released
<1>13. CASE Connection!Undo
  <2>1. m_pAllocator["out"] = 0
    BY <1>13 DEF Connection!Undo
  <2>2. CASE stopped["in"]
    <3>1. /\ m_pAllocator' = [p \in BothPins |-> 0]
          /\ refs' = IF m_pAllocator["in"] = 0 THEN refs
                     ELSE [refs EXCEPT ![m_pAllocator["in"]] = @ - 1]
      BY <1>13, <2>1, <2>2 DEF Connection!Undo, Connection!Released
    <3>2. m_pAllocator'["in"] = 0 /\ m_pAllocator'["out"] = 0
      BY <3>1
    <3>3. ASSUME NEW b \in 1..MaxAllocators PROVE refs'[b] = 0
      BY <2>1, <3>1, <3>3
    <3>. QED
      BY <3>2, <3>3
  <2>3. CASE ~stopped["in"]
    BY <1>13, <2>3 DEF Connection!Undo
  <2>. QED
    BY <2>2, <2>3
<1>14. ASSUME NEW p \in BothPins, Connection!Disconnect(p) PROVE Referenced'
  BY <1>14
     DEF Connection!Disconnect, Connection!Meanwhile, Connection!Released, Connection!Decommitted
<1>15. ASSUME NEW p \in BothPins, Connection!Active(p) PROVE Referenced'
  BY <1>15 DEF Connection!Active, Connection!Free, Connection!Meanwhile
<1>16. ASSUME NEW p \in BothPins, Connection!Inactive(p) PROVE Referenced'
  BY <1>16 DEF Connection!Inactive, Connection!Free, Connection!Meanwhile, Connection!Decommitted
<1>17. CASE UNCHANGED Connectionvars
  BY <1>17 DEF Connectionvars
<1>. QED
  BY <1>1, <1>2, <1>3, <1>4, <1>5, <1>6, <1>7, <1>8, <1>9, <1>10, <1>11, <1>12, <1>13, <1>14,
     <1>15, <1>16, <1>17
     DEF Connection!Next

\* A type is given up only when a pin does not accept it.
LEMMA StillToTryStep ==
    ASSUME ConnectionTypes, Points, StillToTry, [Connection!Next]_Connectionvars
    PROVE  StillToTry'
<1> USE DEF ConnectionTypes, Points, AsFound, StillToTry, InCall, BothConnected, BothPins,
            Connection!pinVars, Connection!poolVars, Connection!countVars, Connection!history, Connection!Both,
            Connection!NULL, Connection!Allocators
<1>1. ASSUME NEW w \in Connection!Wishes, Connection!Connect(w) PROVE StillToTry'
  BY <1>1, CandidateTypes DEF Connection!Connect
<1>2. CASE Connection!PassOver
  <2>1. /\ connPc = "try" /\ candidates # << >> /\ Head(candidates) \notin wish.match
        /\ candidates' = Tail(candidates)
        /\ UNCHANGED <<accepts, wish, failures, before, mishaps, stopped>>
    BY <1>2 DEF Connection!PassOver, Connection!NextType
  <2>. QED
    BY <2>1, OtherCandidates
<1>3. CASE Connection!Attempt
  <2>1. /\ connPc = "try" /\ candidates # << >>
        /\ UNCHANGED <<accepts, wish, failures, before, mishaps, stopped>>
    BY <1>3 DEF Connection!Attempt
  <2>2. CASE Head(candidates) \in accepts["out"]
    BY <1>3, <2>1, <2>2 DEF Connection!Attempt
  <2>3. CASE Head(candidates) \notin accepts["out"]
    <3>1. candidates' = Tail(candidates)
      BY <1>3, <2>3 DEF Connection!Attempt, Connection!NextType
    <3>. QED
      BY OtherCandidates, <2>1, <2>3, <3>1
  <2>. QED
    BY <2>2, <2>3
<1>4. CASE Connection!AttemptFails
  BY <1>4, OtherCandidates DEF Connection!AttemptFails, Connection!NextType, Connection!Fail
<1>5. CASE Connection!NoMoreTypes
  BY <1>5 DEF Connection!NoMoreTypes
<1>6. CASE Connection!ReceiveConnection
  BY <1>6 DEF Connection!ReceiveConnection
<1>7. CASE Connection!ReceiveRefuses
  <2>1. /\ connPc = "receive" /\ candidates # << >> /\ candidates' = Tail(candidates)
        /\ UNCHANGED <<accepts, wish, before, mishaps, stopped>>
        /\ \/ m_Connected["in"] \/ ~stopped["in"] \/ Head(candidates) \notin accepts["in"]
           \/ failures' = failures + 1
        /\ failures' = failures \/ failures' = failures + 1
    BY <1>7 DEF Connection!ReceiveRefuses, Connection!NextType, Connection!Fail
  <2>2. CASE failures' = 0 /\ ~before /\ stopped["in"] /\ mishaps = {}
    <3>1. failures = 0 /\ Head(candidates) \notin accepts["in"]
      BY <2>1, <2>2
    <3>. QED
      BY ZenonT(60), OtherCandidates, <2>1, <2>2, <3>1
  <2>. QED
    BY <2>1, <2>2
<1>8. CASE Connection!GetAllocator
  BY <1>8 DEF Connection!GetAllocator, Connection!Create
<1>9. CASE Connection!GetAllocatorFails
  BY <1>9 DEF Connection!GetAllocatorFails, Connection!Fail
<1>10. CASE Connection!InitAllocator
  BY <1>10 DEF Connection!InitAllocator, Connection!Create
<1>11. CASE Connection!NotifyAllocator
  BY <1>11 DEF Connection!NotifyAllocator, Connection!Released
<1>12. CASE Connection!AllocatorFails
  BY <1>12 DEF Connection!AllocatorFails, Connection!Fail, Connection!Released
<1>13. CASE Connection!Undo
  BY <1>13, OtherCandidates
     DEF Connection!Undo, Connection!NextType, Connection!Released, Connection!Decommitted
<1>14. ASSUME NEW p \in BothPins, Connection!Disconnect(p) PROVE StillToTry'
  BY <1>14
     DEF Connection!Disconnect, Connection!Meanwhile, Connection!Released, Connection!Decommitted
<1>15. ASSUME NEW p \in BothPins, Connection!Active(p) PROVE StillToTry'
  BY <1>15 DEF Connection!Active, Connection!Free, Connection!Meanwhile
<1>16. ASSUME NEW p \in BothPins, Connection!Inactive(p) PROVE StillToTry'
  BY <1>16 DEF Connection!Inactive, Connection!Free, Connection!Meanwhile, Connection!Decommitted
<1>17. CASE UNCHANGED Connectionvars
  BY <1>17 DEF Connectionvars
<1>. QED
  BY <1>1, <1>2, <1>3, <1>4, <1>5, <1>6, <1>7, <1>8, <1>9, <1>10, <1>11, <1>12, <1>13, <1>14,
     <1>15, <1>16, <1>17
     DEF Connection!Next

\* Whoever lets go of a committed allocator decommits it.
LEMMA CommittedStep ==
    ASSUME ConnectionTypes, Points, Holders, Connection!CommittedWhileActive,
           [Connection!Next]_Connectionvars
    PROVE  Connection!CommittedWhileActive'
<1> USE DEF ConnectionTypes, Points, Holders, Connection!CommittedWhileActive, InCall,
            BothConnected, BothPins,
            Connection!pinVars, Connection!poolVars, Connection!countVars, Connection!history, Connection!Both,
            Connection!NULL, Connection!Allocators
<1>1. ASSUME NEW w \in Connection!Wishes, Connection!Connect(w)
      PROVE  Connection!CommittedWhileActive'
  BY <1>1 DEF Connection!Connect
<1>2. CASE Connection!PassOver
  BY <1>2 DEF Connection!PassOver, Connection!NextType
<1>3. CASE Connection!Attempt
  BY <1>3 DEF Connection!Attempt, Connection!NextType
<1>4. CASE Connection!AttemptFails
  BY <1>4 DEF Connection!AttemptFails, Connection!NextType, Connection!Fail
<1>5. CASE Connection!NoMoreTypes
  BY <1>5 DEF Connection!NoMoreTypes
<1>6. CASE Connection!ReceiveConnection
  BY <1>6 DEF Connection!ReceiveConnection
<1>7. CASE Connection!ReceiveRefuses
  BY <1>7
     DEF Connection!ReceiveRefuses, Connection!BreakOut, Connection!NextType, Connection!Fail,
         Connection!Released, Connection!Decommitted
<1>8. CASE Connection!GetAllocator
  BY <1>8 DEF Connection!GetAllocator, Connection!Create
<1>9. CASE Connection!GetAllocatorFails
  BY <1>9 DEF Connection!GetAllocatorFails, Connection!Fail
<1>10. CASE Connection!InitAllocator
  BY <1>10 DEF Connection!InitAllocator, Connection!Create
<1>11. CASE Connection!NotifyAllocator
  BY <1>11 DEF Connection!NotifyAllocator, Connection!Released
<1>12. CASE Connection!AllocatorFails
  BY <1>12 DEF Connection!AllocatorFails, Connection!Fail, Connection!Released
<1>13. CASE Connection!Undo
  BY <1>13 DEF Connection!Undo, Connection!NextType, Connection!Released, Connection!Decommitted
<1>14. ASSUME NEW p \in BothPins, Connection!Disconnect(p) PROVE Connection!CommittedWhileActive'
  BY <1>14
     DEF Connection!Disconnect, Connection!Meanwhile, Connection!Released, Connection!Decommitted
<1>15. ASSUME NEW p \in BothPins, Connection!Active(p) PROVE Connection!CommittedWhileActive'
  BY <1>15 DEF Connection!Active, Connection!Free, Connection!Meanwhile
<1>16. ASSUME NEW p \in BothPins, Connection!Inactive(p) PROVE Connection!CommittedWhileActive'
  BY <1>16 DEF Connection!Inactive, Connection!Free, Connection!Meanwhile, Connection!Decommitted
<1>17. CASE UNCHANGED Connectionvars
  BY SMTT(40), <1>17 DEF Connectionvars
<1>. QED
  BY <1>1, <1>2, <1>3, <1>4, <1>5, <1>6, <1>7, <1>8, <1>9, <1>10, <1>11, <1>12, <1>13, <1>14,
     <1>15, <1>16, <1>17
     DEF Connection!Next

\* What a Connect answers is true when it answers, and until the next call.
LEMMA OutcomeStep ==
    ASSUME ConnectionTypes, Points, Holders, StillToTry, Outcome, [Connection!Next]_Connectionvars
    PROVE  Outcome'
<1> USE DEF ConnectionTypes, Points, AsFound, Holders, StillToTry, Outcome, Connection!Agreed,
            Connection!NothingLeft, Connection!TypeFound, InCall, BothConnected, BothPins,
            Connection!pinVars, Connection!poolVars, Connection!countVars, Connection!history, Connection!Both,
            Connection!NULL, Connection!Allocators
<1>1. ASSUME NEW w \in Connection!Wishes, Connection!Connect(w) PROVE Outcome'
  BY <1>1 DEF Connection!Connect
<1>2. CASE Connection!PassOver
  BY <1>2 DEF Connection!PassOver, Connection!NextType
<1>3. CASE Connection!Attempt
  BY <1>3 DEF Connection!Attempt, Connection!NextType
<1>4. CASE Connection!AttemptFails
  BY <1>4 DEF Connection!AttemptFails, Connection!NextType, Connection!Fail
<1>5. CASE Connection!NoMoreTypes
  <2>1. /\ connPc = "try" /\ candidates = << >> /\ connResult' = "failed"
        /\ UNCHANGED <<accepts, stopped, m_Connected, m_pAllocator, m_pInputPin, wish,
                      before, mishaps, failures>>
    BY <1>5 DEF Connection!NoMoreTypes
  <2>2. Connection!NothingLeft'
    BY <2>1
  <2>3. Connection!TypeFound'
    BY <2>1 DEF Offered, Connection!Range
  <2>. QED
    BY <2>1, <2>2, <2>3
<1>6. CASE Connection!ReceiveConnection
  BY <1>6 DEF Connection!ReceiveConnection
<1>7. CASE Connection!ReceiveRefuses
  BY <1>7
     DEF Connection!ReceiveRefuses, Connection!BreakOut, Connection!NextType, Connection!Fail,
         Connection!Released, Connection!Decommitted
<1>8. CASE Connection!GetAllocator
  BY <1>8 DEF Connection!GetAllocator, Connection!Create
<1>9. CASE Connection!GetAllocatorFails
  BY <1>9 DEF Connection!GetAllocatorFails, Connection!Fail
<1>10. CASE Connection!InitAllocator
  BY <1>10 DEF Connection!InitAllocator, Connection!Create
<1>11. CASE Connection!NotifyAllocator
  BY <1>11 DEF Connection!NotifyAllocator, Connection!Released
<1>12. CASE Connection!AllocatorFails
  BY <1>12 DEF Connection!AllocatorFails, Connection!Fail, Connection!Released
<1>13. CASE Connection!Undo
  BY <1>13 DEF Connection!Undo, Connection!NextType, Connection!Released, Connection!Decommitted
<1>14. ASSUME NEW p \in BothPins, Connection!Disconnect(p) PROVE Outcome'
  BY <1>14
     DEF Connection!Disconnect, Connection!Meanwhile, Connection!Released, Connection!Decommitted
<1>15. ASSUME NEW p \in BothPins, Connection!Active(p) PROVE Outcome'
  BY <1>15 DEF Connection!Active, Connection!Free, Connection!Meanwhile
<1>16. ASSUME NEW p \in BothPins, Connection!Inactive(p) PROVE Outcome'
  BY <1>16 DEF Connection!Inactive, Connection!Free, Connection!Meanwhile, Connection!Decommitted
<1>17. CASE UNCHANGED Connectionvars
  BY <1>17 DEF Connectionvars
<1>. QED
  BY <1>1, <1>2, <1>3, <1>4, <1>5, <1>6, <1>7, <1>8, <1>9, <1>10, <1>11, <1>12, <1>13, <1>14,
     <1>15, <1>16, <1>17
     DEF Connection!Next

\* A step of a connection keeps its invariant.
LEMMA ConnectionStep ==
    ASSUME ConnectionInv, [Connection!Next]_Connectionvars
    PROVE  ConnectionInv'
  BY ConnectionTypesStep, PointsStep, HoldersStep, ReferencedStep, StillToTryStep,
     CommittedStep,
     OutcomeStep DEF ConnectionInv

-----------------------------------------------------------------------------
\* Each component counts with its own operator.
LEMMA CountedAlike ==
    ASSUME NEW S
    PROVE  /\ EnumPins!Cardinality(S) = Cardinality(S)
           /\ Connection!Cardinality(S) = Cardinality(S)
<1>1. EnumPins!Cardinality(S) = Cardinality(S)
  BY Zenon DEF EnumPins!Cardinality, Cardinality
<1>2. Connection!Cardinality(S) = Cardinality(S)
  BY Zenon DEF Connection!Cardinality, Cardinality
<1>. QED
  BY <1>1, <1>2

\* An allocator that both pins have has two holders.
LEMMA HoldersCounted ==
    ASSUME NEW f, NEW a
    PROVE  Cardinality({p \in {"out", "in"} : f[p] = a}) =
               (IF f["in"] = a THEN 1 ELSE 0) + (IF f["out"] = a THEN 1 ELSE 0)
<1> DEFINE S == {p \in {"out", "in"} : f[p] = a}
<1>1. CASE f["in"] # a /\ f["out"] # a
  <2>1. S = {}
    BY <1>1
  <2>. QED
    BY <1>1, <2>1, FS_EmptySet
<1>2. CASE f["in"] = a /\ f["out"] # a
  <2>1. S = {"in"}
    BY <1>2
  <2>. QED
    BY <1>2, <2>1, FS_Singleton
<1>3. CASE f["in"] # a /\ f["out"] = a
  <2>1. S = {"out"}
    BY <1>3
  <2>. QED
    BY SMTT(40), <1>3, <2>1, FS_Singleton
<1>4. CASE f["in"] = a /\ f["out"] = a
  <2>1. S = {"out"} \cup {"in"}
    BY <1>4
  <2>2. Cardinality({"out"} \cup {"in"}) = Cardinality({"out"}) + 1
    BY FS_Singleton, FS_AddElement
  <2>3. Cardinality({"out"}) = 1
    BY FS_Singleton
  <2>. QED
    BY <1>4, <2>1, <2>2, <2>3
<1>. QED
  BY <1>1, <1>2, <1>3, <1>4
-----------------------------------------------------------------------------
Kinds == [version : Nat, place : Nat]

\* A list with more behind it.
LEMMA Joined ==
    ASSUME NEW q \in Seq(Kinds), NEW n \in Nat, NEW e \in [1..n -> Kinds]
    PROVE  /\ q \o e \in Seq(Kinds) /\ Len(q \o e) = Len(q) + n
           /\ \A k \in 1..Len(q) : (q \o e)[k] = q[k]
           /\ \A k \in 1..n : (q \o e)[Len(q) + k] = e[k]
           /\ \A k \in 1..Len(q) + n : k \in 1..Len(q) \/ \E j \in 1..n : k = Len(q) + j
<1>1. e \in Seq(Kinds) /\ Len(e) = n
  OBVIOUS
<1>2. \A k \in 1..Len(q) + n : k \in 1..Len(q) \/ \E j \in 1..n : k = Len(q) + j
  <2> SUFFICES ASSUME NEW k \in 1..Len(q) + n, k \notin 1..Len(q)
               PROVE  \E j \in 1..n : k = Len(q) + j
    OBVIOUS
  <2>1. k - Len(q) \in 1..n /\ k = Len(q) + (k - Len(q))
    OBVIOUS
  <2>. QED
    BY <2>1
<1>3. ASSUME NEW d \in Seq(Kinds)
      PROVE  /\ q \o d \in Seq(Kinds) /\ Len(q \o d) = Len(q) + Len(d)
             /\ \A k \in 1..Len(q) : (q \o d)[k] = q[k]
             /\ \A k \in 1..Len(d) : (q \o d)[Len(q) + k] = d[k]
  OBVIOUS
<1>4. /\ q \o e \in Seq(Kinds) /\ Len(q \o e) = Len(q) + Len(e)
      /\ \A k \in 1..Len(q) : (q \o e)[k] = q[k]
      /\ \A k \in 1..Len(e) : (q \o e)[Len(q) + k] = e[k]
  BY <1>1, <1>3
<1>. QED
  BY <1>1, <1>2, <1>4

\* The enumerator of types is in step with the pin.
TypesInSync == m_typesVersion = m_TypeVersion

TypesNumbers ==
    /\ types \in Nat /\ m_TypeVersion \in Nat
    /\ m_typesVersion \in Nat /\ m_typesVersion <= m_TypeVersion
    /\ m_typesPosition \in Nat /\ left \in Nat
    /\ got \in Seq(Kinds) /\ given \in Seq(Kinds)

TypesCalls ==
    /\ typesPc = "next" => typesResult = "none" /\ (left > 0 \/ got # << >>)
    /\ typesResult = "NOERROR" => left = 0 /\ got # << >>
    /\ TypesInSync =>
           /\ typesResult = "S_FALSE" => types <= m_typesPosition
           /\ typesResult = "skipped" => m_typesPosition <= types
           /\ typesResult = "skippedPast" => m_typesPosition > types

\* What was given lies before the enumerator's place.
TypesPlaces ==
    /\ \A k \in DOMAIN given : given[k].place < m_typesPosition
    /\ EnumTypes!InOrder

\* In step with the pin, it has passed no type over.
TypesPassed ==
    TypesInSync => \A i \in 0..types - 1 : i < m_typesPosition =>
                       \E k \in DOMAIN given : given[k] = EnumTypes!Type(i)

TypesInv == TypesNumbers /\ TypesCalls /\ TypesPlaces /\ TypesPassed

\* A new enumerator of types has given none and is in step with its pin.
LEMMA TypesInit == EnumTypes!Init => TypesInv
  BY EnumeratorsAssumption
     DEF EnumTypes!Init, TypesInv, TypesNumbers, TypesCalls, TypesPlaces, TypesPassed,
         EnumTypes!InOrder, TypesInSync

\* Every type has its place in the list.
LEMMA KindsPlaced ==
    ASSUME NEW q \in Seq(Kinds)
    PROVE  \A k \in DOMAIN q : q[k].place \in Nat
<1>1. \A k \in DOMAIN q : q[k] \in Kinds
  OBVIOUS
<1>. QED
  BY <1>1 DEF Kinds

\* Giving or passing the next n types leaves nothing out.
LEMMA MoreGiven ==
    ASSUME TypesInv, NEW n \in 1..2, NEW e \in [1..n -> Kinds],
           \A k \in 1..n : e[k] = EnumTypes!Type(m_typesPosition + k - 1),
           given' = given \o e, m_typesPosition' = m_typesPosition + n,
           UNCHANGED <<types, m_TypeVersion, m_typesVersion>>
    PROVE  TypesPlaces' /\ TypesPassed' /\ given' \in Seq(Kinds)
<1>1. given \in Seq(Kinds) /\ n \in Nat /\ m_typesPosition \in Nat /\ types \in Nat
  BY DEF TypesInv, TypesNumbers
<1> DEFINE g == given \o e
<1>a. /\ g \in Seq(Kinds) /\ Len(g) = Len(given) + n
      /\ \A k \in 1..Len(given) : g[k] = given[k]
      /\ \A k \in 1..n : g[Len(given) + k] = e[k]
      /\ \A k \in 1..Len(given) + n : k \in 1..Len(given) \/ \E j \in 1..n : k = Len(given) + j
  BY <1>1, Joined
<1>b. given' = g
  OBVIOUS
<1> HIDE DEF g
<1>2. /\ given' \in Seq(Kinds) /\ Len(given') = Len(given) + n
      /\ \A k \in 1..Len(given) : given'[k] = given[k]
      /\ \A k \in 1..n : given'[Len(given) + k] = e[k]
      /\ \A k \in 1..Len(given) + n : k \in 1..Len(given) \/ \E j \in 1..n : k = Len(given) + j
  BY <1>a, <1>b
<1>3. /\ DOMAIN given = 1..Len(given) /\ DOMAIN given' = 1..Len(given')
      /\ Len(given) \in Nat
  BY <1>1, <1>2
<1>4. \A k \in DOMAIN given : given[k].place < m_typesPosition /\ given[k].place \in Nat
  BY <1>1, KindsPlaced DEF TypesInv, TypesPlaces
<1>5. \A k \in 1..n : given'[Len(given) + k].place = m_typesPosition + k - 1
  <2>1. \A k \in 1..n : e[k].place = m_typesPosition + k - 1
    BY DEF EnumTypes!Type
  <2>. QED
    BY <1>2, <2>1
<1>6. \A k \in DOMAIN given' :
         \/ k \in 1..Len(given) /\ given'[k] = given[k]
         \/ \E j \in 1..n : k = Len(given) + j /\ given'[k].place = m_typesPosition + j - 1
  <2> TAKE k \in DOMAIN given'
  <2>1. k \in 1..Len(given) + n
    BY <1>2, <1>3
  <2>2. CASE k \in 1..Len(given)
    BY <1>2, <2>2
  <2>3. ASSUME NEW j \in 1..n, k = Len(given) + j
        PROVE  given'[k].place = m_typesPosition + j - 1
    BY <1>5, <2>3
  <2>. QED
    BY <1>2, <2>1, <2>2, <2>3
<1>7. \A k \in DOMAIN given' : given'[k].place < m_typesPosition'
  <2> TAKE k \in DOMAIN given'
  <2>1. CASE k \in 1..Len(given) /\ given'[k] = given[k]
    BY <1>1, <1>3, <1>4, <2>1
  <2>2. ASSUME NEW j \in 1..n, given'[k].place = m_typesPosition + j - 1
        PROVE  given'[k].place < m_typesPosition'
    BY <1>1, <2>2
  <2>. QED
    BY <1>6, <2>1, <2>2
<1>8. ASSUME NEW j \in DOMAIN given', NEW k \in DOMAIN given', j < k
      PROVE  given'[j].place < given'[k].place
  <2>1. CASE k \in 1..Len(given) /\ given'[k] = given[k]
    <3>1. j \in 1..Len(given)
      BY <1>3, <1>8, <2>1
    <3>. QED
      BY <1>2, <1>3, <1>8, <2>1, <3>1 DEF TypesInv, TypesPlaces, EnumTypes!InOrder
  <2>2. ASSUME NEW h \in 1..n, k = Len(given) + h, given'[k].place = m_typesPosition + h - 1
        PROVE  given'[j].place < given'[k].place
    <3>1. CASE j \in 1..Len(given) /\ given'[j] = given[j]
      BY SMTT(40), <1>1, <1>3, <1>4, <2>2, <3>1
    <3>2. ASSUME NEW f \in 1..n, j = Len(given) + f, given'[j].place = m_typesPosition + f - 1
          PROVE  given'[j].place < given'[k].place
      BY SMTT(40), <1>1, <1>3, <1>8, <2>2, <3>2
    <3>. QED
      BY <1>6, <3>1, <3>2
  <2>. QED
    BY <1>6, <2>1, <2>2
<1>9. ASSUME m_TypeVersion = m_typesVersion, NEW i \in 0..types - 1, i < m_typesPosition + n
      PROVE  \E k \in DOMAIN given' : given'[k] = EnumTypes!Type(i)
  <2>1. CASE i < m_typesPosition
    <3>1. PICK k \in DOMAIN given : given[k] = EnumTypes!Type(i)
      BY <1>9, <2>1 DEF TypesInv, TypesPassed, TypesInSync
    <3>2. k \in DOMAIN given' /\ given'[k] = given[k]
      BY <1>1, <1>2, <1>3
    <3>. QED
      BY <3>1, <3>2
  <2>2. CASE i >= m_typesPosition
    <3>1. i - m_typesPosition + 1 \in 1..n /\ i = m_typesPosition + (i - m_typesPosition + 1) - 1
      BY <1>1, <1>9, <2>2
    <3>2. PICK k \in 1..n : i = m_typesPosition + k - 1
      BY <3>1
    <3>3. Len(given) + k \in DOMAIN given'
      BY <1>1, <1>2, <1>3
    <3>4. given'[Len(given) + k] = EnumTypes!Type(i)
      BY <1>2, <3>2
    <3>. QED
      BY <3>3, <3>4
  <2>. QED
    BY <1>1, <1>9, <2>1, <2>2
<1>10. \A i : EnumTypes!Type(i)' = EnumTypes!Type(i)
  BY DEF EnumTypes!Type
<1>. QED
  BY <1>2, <1>7, <1>8, <1>9, <1>10
     DEF TypesPlaces, TypesPassed, TypesInSync, EnumTypes!InOrder

\* What the enumerator's callers do.
LEMMA TypesStep ==
    ASSUME TypesInv, [EnumTypes!Next]_EnumTypesvars
    PROVE  TypesInv'
<1>0. TypesNumbers /\ TypesCalls /\ TypesPlaces /\ TypesPassed
  BY DEF TypesInv
<1>1. CASE EnumTypes!IncrementTypeVersion
  <2>1. TypesNumbers'
    BY <1>0, <1>1, EnumeratorsAssumption
       DEF EnumTypes!IncrementTypeVersion, EnumTypes!callVars, TypesNumbers
  <2>2. ~TypesInSync'
    BY <1>0, <1>1
       DEF EnumTypes!IncrementTypeVersion, EnumTypes!callVars, TypesNumbers, TypesInSync
  <2>3. TypesCalls' /\ TypesPassed'
    BY <1>0, <1>1, <2>2
       DEF EnumTypes!IncrementTypeVersion, EnumTypes!callVars, TypesCalls, TypesPassed
  <2>4. TypesPlaces'
    BY <1>0, <1>1
       DEF EnumTypes!IncrementTypeVersion, TypesPlaces, EnumTypes!InOrder
  <2>. QED
    BY <2>1, <2>3, <2>4 DEF TypesInv
<1>2. CASE EnumTypes!NextType
  <2> DEFINE e == [k \in 1..1 |-> EnumTypes!Type(m_typesPosition + k - 1)]
  <2>1. EnumTypes!Type(m_typesPosition) \in Kinds
    BY <1>0 DEF EnumTypes!Type, TypesNumbers, Kinds
  <2>2. e = <<EnumTypes!Type(m_typesPosition)>>
    BY <1>0 DEF TypesNumbers
  <2>3. given' = given \o <<EnumTypes!Type(m_typesPosition)>>
    BY <1>0, <1>2, <2>1 DEF EnumTypes!NextType, TypesNumbers
  <2>4. \A k \in 1..1 : e[k] \in Kinds
    BY <1>0, <2>1 DEF TypesNumbers
  <2>5. e \in [1..1 -> Kinds] /\ \A k \in 1..1 : e[k] = EnumTypes!Type(m_typesPosition + k - 1)
    BY <2>4
  <2> HIDE DEF e
  <2>6. m_typesPosition' = m_typesPosition + 1 /\ UNCHANGED <<types, m_TypeVersion, m_typesVersion>>
    BY <1>2 DEF EnumTypes!NextType, EnumTypes!pinVars
  <2>7. 1 \in 1..2 /\ given' = given \o e
    BY <2>2, <2>3
  <2>8. TypesPlaces' /\ TypesPassed' /\ given' \in Seq(Kinds)
    BY <2>5, <2>6, <2>7, MoreGiven
  <2>9. TypesNumbers' /\ TypesCalls'
    BY <1>0, <1>2, <2>1, <2>8
       DEF EnumTypes!NextType, EnumTypes!pinVars, TypesNumbers, TypesCalls
  <2>. QED
    BY <2>8, <2>9 DEF TypesInv
<1>3. ASSUME NEW n \in 1..2, EnumTypes!Skip(n) PROVE TypesInv'
  <2>1. CASE m_TypeVersion # m_typesVersion
    BY <1>0, <1>3, <2>1
       DEF EnumTypes!Skip, EnumTypes!AreWeOutOfSync, EnumTypes!pinVars, TypesInv, TypesInSync,
           TypesNumbers, TypesCalls, TypesPlaces, TypesPassed, EnumTypes!InOrder
  <2>2. CASE m_TypeVersion = m_typesVersion
    <3> DEFINE e == [k \in 1..n |-> EnumTypes!Type(m_typesPosition + k - 1)]
    <3>1. \A k \in 1..n : EnumTypes!Type(m_typesPosition + k - 1) \in Kinds
      BY <1>0 DEF EnumTypes!Type, TypesNumbers, Kinds
    <3>2. e \in [1..n -> Kinds] /\ \A k \in 1..n : e[k] = EnumTypes!Type(m_typesPosition + k - 1)
      BY <3>1
    <3>3. given' = given \o e /\ m_typesPosition' = m_typesPosition + n
      BY <1>3, <2>2 DEF EnumTypes!Skip, EnumTypes!AreWeOutOfSync
    <3>4. UNCHANGED <<types, m_TypeVersion, m_typesVersion, typesPc, left>> /\ got' = << >>
      BY <1>3 DEF EnumTypes!Skip, EnumTypes!pinVars
    <3> HIDE DEF e
    <3>5. TypesPlaces' /\ TypesPassed' /\ given' \in Seq(Kinds)
      BY <3>2, <3>3, <3>4, MoreGiven
    <3>6. typesPc = "idle" /\ typesResult' = IF m_typesPosition' - 1 < types
                                             THEN "skipped" ELSE "skippedPast"
      BY <1>3, <2>2 DEF EnumTypes!Skip, EnumTypes!AreWeOutOfSync, EnumTypes!GetMediaType
    <3>7. TypesNumbers'
      BY <1>0, <3>3, <3>4, <3>5 DEF TypesNumbers
    <3>8. TypesCalls'
      BY <1>0, <3>3, <3>4, <3>6, <3>7 DEF TypesNumbers, TypesCalls
    <3>. QED
      BY <3>5, <3>7, <3>8 DEF TypesInv
  <2>. QED
    BY <2>1, <2>2
<1>4. CASE EnumTypes!NextReturns
  <2>1. /\ m_typesPosition' \in Nat /\ m_typesPosition <= m_typesPosition'
        /\ UNCHANGED <<types, m_TypeVersion, m_typesVersion, left, got, given>>
        /\ typesPc' = "idle"
    BY <1>0, <1>4 DEF EnumTypes!NextReturns, EnumTypes!pinVars, TypesNumbers
  <2>2. TypesNumbers'
    BY <1>0, <2>1 DEF TypesNumbers
  <2>3. TypesCalls'
    BY <1>0, <1>4
       DEF EnumTypes!NextReturns, EnumTypes!pinVars, EnumTypes!GetMediaType,
           TypesNumbers, TypesCalls, TypesInSync
  <2>4. TypesPlaces'
    <3>1. \A k \in DOMAIN given : given[k].place \in Nat
      BY <1>0, KindsPlaced DEF TypesNumbers
    <3>. QED
      BY <1>0, <2>1, <3>1 DEF TypesPlaces, EnumTypes!InOrder, TypesNumbers
  <2>5. TypesPassed'
    <3>1. \A i \in 0..types - 1 : i < m_typesPosition' => i < m_typesPosition
      BY <1>0, <1>4 DEF EnumTypes!NextReturns, EnumTypes!GetMediaType, TypesNumbers
    <3>. QED
      BY <1>0, <2>1, <3>1 DEF TypesPassed, TypesInSync, EnumTypes!Type
  <2>. QED
    BY <2>2, <2>3, <2>4, <2>5 DEF TypesInv
<1>5. CASE EnumTypes!Reset
  <2>1. /\ UNCHANGED <<types, m_TypeVersion, typesPc, left>>
        /\ m_typesPosition' = 0 /\ m_typesVersion' = m_TypeVersion
        /\ got' = << >> /\ given' = << >> /\ typesResult' = "none" /\ typesPc = "idle"
    BY <1>5 DEF EnumTypes!Reset, EnumTypes!pinVars
  <2>2. TypesNumbers'
    BY <1>0, <2>1 DEF TypesNumbers
  <2>3. TypesCalls'
    BY <1>0, <2>1 DEF TypesCalls
  <2>4. TypesPlaces'
    BY <2>1 DEF TypesPlaces, EnumTypes!InOrder
  <2>5. TypesPassed'
    BY <1>0, <2>1 DEF TypesPassed, TypesNumbers
  <2>. QED
    BY <2>2, <2>3, <2>4, <2>5 DEF TypesInv
<1>6. ASSUME NEW n \in 1..2, EnumTypes!NextBegin(n) PROVE TypesInv'
  <2>1. UNCHANGED <<types, m_TypeVersion, m_typesPosition, m_typesVersion, given>> /\ got' = << >>
    BY <1>6 DEF EnumTypes!NextBegin, EnumTypes!pinVars
  <2>2. \/ typesResult' = "VFW_E_ENUM_OUT_OF_SYNC" /\ typesPc' = "idle" /\ left' = left
        \/ typesResult' = "none" /\ left' = n
    BY <1>6 DEF EnumTypes!NextBegin
  <2>3. TypesNumbers'
    BY <1>0, <2>1, <2>2 DEF TypesNumbers
  <2>4. TypesCalls'
    BY <1>0, <2>1, <2>2 DEF TypesCalls
  <2>5. TypesPlaces' /\ TypesPassed'
    BY <1>0, <2>1 DEF TypesPlaces, TypesPassed, TypesInSync, EnumTypes!InOrder, EnumTypes!Type
  <2>. QED
    BY <2>3, <2>4, <2>5 DEF TypesInv
<1>7. CASE UNCHANGED EnumTypesvars
  BY <1>0, <1>7
     DEF EnumTypesvars, TypesInv, TypesNumbers, TypesCalls, TypesPlaces, TypesPassed, TypesInSync,
         EnumTypes!InOrder, EnumTypes!Type
<1>. QED
  BY <1>1, <1>2, <1>3, <1>4, <1>5, <1>6, <1>7 DEF EnumTypes!Next

\* Who is told that there are no more types has been given all there are.
LEMMA TypesGiven == TypesInv => EnumTypes!InOrder /\ EnumTypes!EndIsEnd
  BY SMTT(40) DEF TypesInv, TypesNumbers, TypesCalls, TypesPlaces, TypesPassed, TypesInSync,
         EnumTypes!EndIsEnd, EnumTypes!AreWeOutOfSync, EnumTypes!Range
-----------------------------------------------------------------------------
\* One that is added to a list without repetition stays the only one.
LEMMA OneMorePin ==
    ASSUME NEW q \in Seq(FilterPins), NEW p \in FilterPins
    PROVE  /\ Append(q, p) \in Seq(FilterPins) /\ Len(Append(q, p)) = Len(q) + 1
           /\ EnumPins!Range(q) \subseteq EnumPins!Range(Append(q, p))
           /\ p \in EnumPins!Range(Append(q, p))
           /\ EnumPins!IsInjective(q) /\ p \notin EnumPins!Range(q) =>
                  EnumPins!IsInjective(Append(q, p))
<1> DEFINE r == Append(q, p)
<1>1. /\ r \in Seq(FilterPins) /\ Len(r) = Len(q) + 1 /\ r[Len(r)] = p
      /\ \A k \in 1..Len(q) : r[k] = q[k]
      /\ DOMAIN q = 1..Len(q) /\ DOMAIN r = 1..Len(r) /\ Len(q) \in Nat
  OBVIOUS
<1> HIDE DEF r
<1>2. EnumPins!Range(q) \subseteq EnumPins!Range(r) /\ p \in EnumPins!Range(r)
  BY <1>1 DEF EnumPins!Range
<1>3. ASSUME EnumPins!IsInjective(q), p \notin EnumPins!Range(q)
      PROVE  EnumPins!IsInjective(r)
  <2> SUFFICES ASSUME NEW a \in DOMAIN r, NEW b \in DOMAIN r, r[a] = r[b]
               PROVE  a = b
    BY DEF EnumPins!IsInjective
  <2>1. \A k \in 1..Len(q) : r[k] # p
    BY <1>1, <1>3 DEF EnumPins!Range
  <2>2. (a \in 1..Len(q) \/ a = Len(r)) /\ (b \in 1..Len(q) \/ b = Len(r))
    BY <1>1
  <2>. QED
    BY <1>1, <1>3, <2>1, <2>2 DEF EnumPins!IsInjective
<1>. QED
  BY <1>1, <1>2, <1>3 DEF r
PinsNumbers ==
    /\ m_pinList \in Seq(FilterPins) /\ m_PinVersion \in Nat
    /\ m_pinsPosition \in [Enumerators -> Nat] /\ m_PinCount \in [Enumerators -> Nat]
    /\ m_pinsVersion \in [Enumerators -> Nat] /\ m_cRef \in [Enumerators -> Nat]
    /\ cPins \in [Enumerators -> Nat]

PinsLists ==
    /\ m_PinCache \in [Enumerators -> Seq(FilterPins)]
    /\ returned \in [Enumerators -> Seq(FilterPins)]
    /\ fetched \in [Enumerators -> Seq(FilterPins)]

PinsCallers ==
    /\ pinsPc \in [Enumerators -> {"idle", "next"}]
    /\ pinsResult \in [Enumerators -> {"none", "NOERROR", "S_FALSE", "VFW_E_ENUM_OUT_OF_SYNC"}]
    /\ skipped \in [Enumerators -> BOOLEAN]

PinsTypes == PinsNumbers /\ PinsLists /\ PinsCallers

\* The enumerator is in step with the filter and its caller has passed none over.
Follows(i) == m_pinsVersion[i] = m_PinVersion /\ m_cRef[i] > 0 /\ ~skipped[i]

PinsCalls(i) ==
    /\ pinsPc[i] = "next" => m_cRef[i] > 0 /\ pinsResult[i] # "S_FALSE"
    /\ Len(fetched[i]) <= cPins[i]

PinsReturned(i) ==
    m_PinCache[i] = returned[i] /\ EnumPins!IsInjective(returned[i])

PinsSeen(i) ==
    /\ m_pinsVersion[i] <= m_PinVersion
    /\ Notifies /\ Follows(i) =>
        /\ m_PinCount[i] = Len(m_pinList)
        /\ \A k \in 1..Len(m_pinList) :
               k <= m_pinsPosition[i] => m_pinList[k] \in EnumPins!Range(m_PinCache[i])
        /\ pinsResult[i] = "S_FALSE" => m_PinCount[i] <= m_pinsPosition[i]

PinsOf(i) == PinsCalls(i) /\ PinsReturned(i) /\ PinsSeen(i)

PinsInv ==
    /\ PinsTypes /\ EnumPins!FilterReferenced
    /\ \A i \in Enumerators : PinsOf(i)

\* There are no enumerators of pins at first, and no references.
LEMMA PinsInit == EnumPins!Init => PinsInv
<1> SUFFICES ASSUME EnumPins!Init PROVE PinsInv
  OBVIOUS
<1>1. PinsTypes
  <2>1. m_pinList \in Seq(FilterPins)
    BY EnumeratorsAssumption DEF EnumPins!Init
  <2>2. << >> \in Seq(FilterPins)
    OBVIOUS
  <2>3. PinsNumbers
    BY <2>1 DEF EnumPins!Init, PinsNumbers
  <2>4. PinsLists
    BY <2>2 DEF EnumPins!Init, PinsLists
  <2>5. PinsCallers
    BY DEF EnumPins!Init, PinsCallers, EnumPins!None
  <2>. QED
    BY <2>3, <2>4, <2>5 DEF PinsTypes
<1>2. EnumPins!FilterReferenced
  <2>1. {i \in Enumerators : m_cRef[i] > 0} = {}
    BY DEF EnumPins!Init
  <2>. QED
    BY <2>1, FS_EmptySet, CountedAlike DEF EnumPins!Init, EnumPins!FilterReferenced
<1>3. \A i \in Enumerators : PinsOf(i)
  BY DEF EnumPins!Init, PinsOf, PinsCalls, PinsReturned, PinsSeen, Follows,
         EnumPins!IsInjective, EnumPins!None
<1>. QED
  BY <1>1, <1>2, <1>3 DEF PinsInv

\* A step of one enumerator leaves the filter and the others alone.
Alone(i) ==
    /\ UNCHANGED <<m_pinList, m_PinVersion>>
    /\ \A j \in Enumerators \ {i} :
           UNCHANGED <<m_pinsPosition[j], m_PinCount[j], m_pinsVersion[j], m_PinCache[j],
                       m_cRef[j], pinsPc[j], cPins[j], fetched[j], pinsResult[j],
                       returned[j], skipped[j]>>

\* What holds for the enumerators that take no step goes on to hold.
LEMMA OthersKept ==
    ASSUME NEW i \in Enumerators, Alone(i), \A j \in Enumerators : PinsOf(j)
    PROVE  \A j \in Enumerators \ {i} : PinsOf(j)'
  BY DEF Alone, PinsOf, PinsCalls, PinsReturned, PinsSeen, Follows, EnumPins!Range,
         EnumPins!IsInjective

\* An enumerator that appears or disappears counts.
LEMMA CountStep ==
    ASSUME PinsTypes, EnumPins!FilterReferenced, NEW i \in Enumerators, NEW n \in Nat,
           m_cRef' = [m_cRef EXCEPT ![i] = n], m_cRef[i] > 0 \/ n > 0,
           filterRefs' = IF m_cRef[i] = 0 THEN filterRefs + 1
                         ELSE IF n = 0 THEN filterRefs - 1 ELSE filterRefs
    PROVE  EnumPins!FilterReferenced'
<1> DEFINE F == {j \in Enumerators : m_cRef[j] > 0}
           G == {j \in Enumerators : m_cRef'[j] > 0}
<1>1. m_cRef \in [Enumerators -> Nat] /\ m_cRef[i] \in Nat
  BY DEF PinsTypes, PinsNumbers
<1>2. IsFiniteSet(F)
  BY EnumeratorsAssumption, FS_Subset
<1>3. /\ m_cRef[i] > 0 /\ n > 0 => G = F
      /\ m_cRef[i] = 0 /\ n > 0 => G = F \cup {i} /\ i \notin F
      /\ m_cRef[i] > 0 /\ n = 0 => G = F \ {i} /\ i \in F
  BY <1>1
<1>4. /\ i \notin F => Cardinality(F \cup {i}) = Cardinality(F) + 1
      /\ i \in F => Cardinality(F \ {i}) = Cardinality(F) - 1
  BY <1>2, FS_AddElement, FS_RemoveElement
<1>5. filterRefs = Cardinality(F)
  BY CountedAlike DEF EnumPins!FilterReferenced
<1>6. EnumPins!FilterReferenced' <=> filterRefs' = Cardinality(G)
  BY CountedAlike DEF EnumPins!FilterReferenced
<1> HIDE DEF F, G
<1>7. CASE m_cRef[i] = 0
  <2>1. G = F \cup {i} /\ i \notin F
    BY <1>1, <1>3, <1>7
  <2>2. Cardinality(G) = Cardinality(F) + 1
    BY <1>4, <2>1
  <2>3. filterRefs' = filterRefs + 1
    BY <1>7
  <2>. QED
    BY <1>5, <1>6, <2>2, <2>3
<1>8. CASE m_cRef[i] > 0 /\ n = 0
  BY <1>1, <1>3, <1>4, <1>5, <1>6, <1>8
<1>9. CASE m_cRef[i] > 0 /\ n > 0
  BY <1>1, <1>3, <1>5, <1>6, <1>9
<1>. QED
  BY <1>1, <1>7, <1>8, <1>9

\* The filter adds or removes a pin: every enumerator is out of step with it.
LEMMA FilterChanges ==
    ASSUME PinsInv, m_pinList' \in Seq(FilterPins), EnumPins!IncrementPinVersion,
           UNCHANGED EnumPins!EnumeratorsUnchanged
    PROVE  PinsInv'
<1> USE DEF EnumPins!EnumeratorsUnchanged, EnumPins!placeVars, EnumPins!callVars,
            EnumPins!pastVars
<1>1. PinsTypes'
  BY DEF PinsInv, PinsTypes, PinsNumbers, PinsLists, PinsCallers, EnumPins!IncrementPinVersion
<1>2. EnumPins!FilterReferenced'
  BY DEF PinsInv, EnumPins!FilterReferenced
<1>3. ASSUME NEW i \in Enumerators PROVE PinsOf(i)'
  <2>1. m_pinsVersion[i] \in Nat /\ m_PinVersion \in Nat /\ m_pinsVersion[i] <= m_PinVersion
    BY DEF PinsInv, PinsTypes, PinsNumbers, PinsOf, PinsSeen
  <2>2. Notifies => m_pinsVersion'[i] < m_PinVersion'
    BY <2>1 DEF EnumPins!IncrementPinVersion
  <2>3. m_pinsVersion'[i] <= m_PinVersion'
    BY <2>1 DEF EnumPins!IncrementPinVersion
  <2>4. PinsSeen(i)'
    BY <2>1, <2>2, <2>3 DEF PinsSeen, Follows
  <2>5. PinsCalls(i)' /\ PinsReturned(i)'
    BY DEF PinsInv, PinsOf, PinsCalls, PinsReturned
  <2>. QED
    BY <2>4, <2>5 DEF PinsOf
<1>. QED
  BY <1>1, <1>2, <1>3 DEF PinsInv

\* A list of pins without one of them is a list of pins.
LEMMA RemovedAt ==
    ASSUME NEW q \in Seq(FilterPins), NEW k \in DOMAIN q
    PROVE  EnumPins!RemoveAt(q, k) \in Seq(FilterPins)
<1>1. k \in 1..Len(q) /\ Len(q) \in Nat
  OBVIOUS
<1>2. SubSeq(q, 1, k - 1) \in Seq(FilterPins)
  BY <1>1
<1>3. SubSeq(q, k + 1, Len(q)) \in Seq(FilterPins)
  BY <1>1
<1>. QED
  BY <1>2, <1>3 DEF EnumPins!RemoveAt

\* The filter's own steps.
LEMMA PinsFilterStep ==
    ASSUME PinsInv, EnumPins!Filter
    PROVE  PinsInv'
<1>0. m_pinList \in Seq(FilterPins)
  BY DEF PinsInv, PinsTypes, PinsNumbers, PinsLists, PinsCallers
<1>1. ASSUME NEW p \in FilterPins, EnumPins!AddPin(p) PROVE PinsInv'
  <2>1. m_pinList' \in Seq(FilterPins)
    BY <1>0, <1>1, OneMorePin DEF EnumPins!AddPin
  <2>. QED
    BY <1>1, <2>1, FilterChanges DEF EnumPins!AddPin
<1>2. ASSUME NEW p \in FilterPins, EnumPins!RemovePin(p) PROVE PinsInv'
  <2>1. m_pinList' \in Seq(FilterPins)
    BY <1>0, <1>2, RemovedAt DEF EnumPins!RemovePin
  <2>. QED
    BY <1>2, <2>1, FilterChanges DEF EnumPins!RemovePin
<1>. QED
  BY <1>1, <1>2 DEF EnumPins!Filter

\* Creation, Clone, AddRef and Release.
LEMMA PinsReferenceStep ==
    ASSUME PinsInv, NEW i \in Enumerators,
           \/ EnumPins!EnumPinsCall(i) \/ EnumPins!AddRef(i) \/ EnumPins!Release(i)
           \/ EnumPins!Reset(i)
           \/ \E j \in Enumerators : EnumPins!Clone(i, j)
    PROVE  PinsInv'
<1> USE DEF EnumPins!filterVars, EnumPins!placeVars, EnumPins!callVars, EnumPins!pastVars,
            EnumPins!Idle, EnumPins!None
<1>0. PinsTypes /\ EnumPins!FilterReferenced /\ \A j \in Enumerators : PinsOf(j)
  BY DEF PinsInv
<1>1. CASE EnumPins!EnumPinsCall(i)
  <2>1. PinsTypes'
    <3>1. PinsNumbers'
      BY <1>0, <1>1 DEF EnumPins!EnumPinsCall, PinsTypes, PinsNumbers
    <3>2. PinsLists'
      BY <1>0, <1>1 DEF EnumPins!EnumPinsCall, PinsTypes, PinsLists
    <3>3. PinsCallers'
      BY <1>0, <1>1 DEF EnumPins!EnumPinsCall, PinsTypes, PinsCallers
    <3>. QED
      BY <3>1, <3>2, <3>3 DEF PinsTypes
  <2>2. EnumPins!FilterReferenced'
    <3>1. /\ m_cRef[i] = 0 /\ m_cRef' = [m_cRef EXCEPT ![i] = 1]
          /\ filterRefs' = filterRefs + 1
      BY <1>1 DEF EnumPins!EnumPinsCall
    <3>2. m_cRef[i] \in Nat
      BY <1>0 DEF PinsTypes, PinsNumbers
    <3>3. /\ 1 \in Nat /\ (m_cRef[i] > 0 \/ 1 > 0)
          /\ filterRefs' = IF m_cRef[i] = 0 THEN filterRefs + 1
                           ELSE IF 1 = 0 THEN filterRefs - 1 ELSE filterRefs
      BY <3>1, <3>2
    <3>. QED
      BY <1>0, <3>1, <3>3, CountStep
  <2>3. Alone(i)
    BY <1>0, <1>1
       DEF EnumPins!EnumPinsCall, Alone, PinsTypes, PinsNumbers, PinsLists, PinsCallers
  <2>4. PinsOf(i)'
    <3>1. PinsCalls(i)'
      BY <1>0, <1>1
         DEF EnumPins!EnumPinsCall, PinsTypes, PinsNumbers, PinsLists, PinsCallers, PinsOf,
             PinsCalls
    <3>2. PinsReturned(i)'
      BY <1>0, <1>1
         DEF EnumPins!EnumPinsCall, PinsTypes, PinsLists, PinsOf, PinsReturned, EnumPins!IsInjective
    <3>3. PinsSeen(i)'
      BY <1>0, <1>1
         DEF EnumPins!EnumPinsCall, PinsTypes, PinsNumbers, PinsLists, PinsCallers, PinsOf,
             PinsCalls,
             PinsSeen, Follows
    <3>. QED
      BY <3>1, <3>2, <3>3 DEF PinsOf
  <2>. QED
    BY <1>0, <2>1, <2>2, <2>3, <2>4, OthersKept DEF PinsInv
<1>2. CASE EnumPins!AddRef(i)
  <2>1. PinsTypes'
    <3>1. PinsNumbers'
      BY <1>0, <1>2 DEF EnumPins!AddRef, PinsTypes, PinsNumbers
    <3>2. PinsLists'
      BY <1>0, <1>2 DEF EnumPins!AddRef, PinsTypes, PinsLists
    <3>3. PinsCallers'
      BY <1>0, <1>2 DEF EnumPins!AddRef, PinsTypes, PinsCallers
    <3>. QED
      BY <3>1, <3>2, <3>3 DEF PinsTypes
  <2>2. EnumPins!FilterReferenced'
    <3>1. /\ m_cRef[i] > 0 /\ m_cRef' = [m_cRef EXCEPT ![i] = m_cRef[i] + 1]
          /\ filterRefs' = filterRefs
      BY <1>2 DEF EnumPins!AddRef
    <3>2. m_cRef[i] \in Nat
      BY <1>0 DEF PinsTypes, PinsNumbers
    <3>3. /\ m_cRef[i] + 1 \in Nat /\ (m_cRef[i] > 0 \/ m_cRef[i] + 1 > 0)
          /\ filterRefs' = IF m_cRef[i] = 0 THEN filterRefs + 1
                           ELSE IF m_cRef[i] + 1 = 0 THEN filterRefs - 1 ELSE filterRefs
      BY <3>1, <3>2
    <3>. QED
      BY <1>0, <3>1, <3>3, CountStep
  <2>3. Alone(i)
    BY <1>0, <1>2 DEF EnumPins!AddRef, Alone, PinsTypes, PinsNumbers, PinsLists, PinsCallers
  <2>4. PinsOf(i)'
    <3>1. PinsCalls(i)'
      BY <1>0, <1>2
         DEF EnumPins!AddRef, PinsTypes, PinsNumbers, PinsLists, PinsCallers, PinsOf, PinsCalls
    <3>2. PinsReturned(i)'
      BY <1>0, <1>2
         DEF EnumPins!AddRef, PinsTypes, PinsLists, PinsOf, PinsReturned
    <3>3. PinsSeen(i)'
      BY <1>0, <1>2
         DEF EnumPins!AddRef, PinsTypes, PinsNumbers, PinsLists, PinsCallers, PinsOf, PinsCalls,
             PinsSeen, Follows
    <3>. QED
      BY <3>1, <3>2, <3>3 DEF PinsOf
  <2>. QED
    BY <1>0, <2>1, <2>2, <2>3, <2>4, OthersKept DEF PinsInv
<1>3. CASE EnumPins!Release(i)
  <2>1. PinsTypes'
    <3>1. PinsNumbers'
      BY <1>0, <1>3 DEF EnumPins!Release, PinsTypes, PinsNumbers
    <3>2. PinsLists'
      BY <1>0, <1>3 DEF EnumPins!Release, PinsTypes, PinsLists
    <3>3. PinsCallers'
      BY <1>0, <1>3 DEF EnumPins!Release, PinsTypes, PinsCallers
    <3>. QED
      BY <3>1, <3>2, <3>3 DEF PinsTypes
  <2>2. EnumPins!FilterReferenced'
    <3>1. /\ m_cRef[i] > 0 /\ m_cRef' = [m_cRef EXCEPT ![i] = m_cRef[i] - 1]
          /\ filterRefs' = IF m_cRef[i] = 1 THEN filterRefs - 1 ELSE filterRefs
      BY <1>3 DEF EnumPins!Release
    <3>2. m_cRef[i] \in Nat
      BY <1>0 DEF PinsTypes, PinsNumbers
    <3>3. /\ m_cRef[i] - 1 \in Nat /\ (m_cRef[i] > 0 \/ m_cRef[i] - 1 > 0)
          /\ filterRefs' = IF m_cRef[i] = 0 THEN filterRefs + 1
                           ELSE IF m_cRef[i] - 1 = 0 THEN filterRefs - 1 ELSE filterRefs
      BY <3>1, <3>2
    <3>. QED
      BY <1>0, <3>1, <3>3, CountStep
  <2>3. Alone(i)
    BY <1>0, <1>3 DEF EnumPins!Release, Alone, PinsTypes, PinsNumbers, PinsLists, PinsCallers
  <2>4. PinsOf(i)'
    <3>1. PinsCalls(i)'
      BY <1>0, <1>3
         DEF EnumPins!Release, PinsTypes, PinsNumbers, PinsLists, PinsCallers, PinsOf, PinsCalls
    <3>2. PinsReturned(i)'
      BY <1>0, <1>3
         DEF EnumPins!Release, PinsTypes, PinsLists, PinsOf, PinsReturned
    <3>3. PinsSeen(i)'
      BY <1>0, <1>3
         DEF EnumPins!Release, PinsTypes, PinsNumbers, PinsLists, PinsCallers, PinsOf, PinsCalls,
             PinsSeen, Follows
    <3>. QED
      BY <3>1, <3>2, <3>3 DEF PinsOf
  <2>. QED
    BY <1>0, <2>1, <2>2, <2>3, <2>4, OthersKept DEF PinsInv
<1>4. CASE EnumPins!Reset(i)
  <2>1. PinsTypes'
    <3>1. PinsNumbers'
      BY <1>0, <1>4 DEF EnumPins!Reset, PinsTypes, PinsNumbers
    <3>2. PinsLists'
      BY <1>0, <1>4 DEF EnumPins!Reset, PinsTypes, PinsLists
    <3>3. PinsCallers'
      BY <1>0, <1>4 DEF EnumPins!Reset, PinsTypes, PinsCallers
    <3>. QED
      BY <3>1, <3>2, <3>3 DEF PinsTypes
  <2>2. EnumPins!FilterReferenced'
    BY <1>0, <1>4 DEF EnumPins!Reset, EnumPins!FilterReferenced
  <2>3. Alone(i)
    BY <1>0, <1>4 DEF EnumPins!Reset, Alone, PinsTypes, PinsNumbers, PinsLists, PinsCallers
  <2>4. PinsOf(i)'
    <3>1. PinsCalls(i)'
      BY <1>0, <1>4
         DEF EnumPins!Reset, PinsTypes, PinsNumbers, PinsLists, PinsCallers, PinsOf, PinsCalls
    <3>2. PinsReturned(i)'
      BY <1>0, <1>4
         DEF EnumPins!Reset, PinsTypes, PinsLists, PinsOf, PinsReturned, EnumPins!IsInjective
    <3>3. PinsSeen(i)'
      BY <1>0, <1>4
         DEF EnumPins!Reset, PinsTypes, PinsNumbers, PinsLists, PinsCallers, PinsOf, PinsCalls,
             PinsSeen, Follows
    <3>. QED
      BY <3>1, <3>2, <3>3 DEF PinsOf
  <2>. QED
    BY <1>0, <2>1, <2>2, <2>3, <2>4, OthersKept DEF PinsInv
<1>5. ASSUME NEW j \in Enumerators, EnumPins!Clone(i, j) PROVE PinsInv'
  <2>1. PinsTypes'
    <3>1. PinsNumbers'
      BY <1>0, <1>5 DEF EnumPins!Clone, PinsTypes, PinsNumbers
    <3>2. PinsLists'
      BY <1>0, <1>5 DEF EnumPins!Clone, PinsTypes, PinsLists
    <3>3. PinsCallers'
      BY <1>0, <1>5 DEF EnumPins!Clone, PinsTypes, PinsCallers
    <3>. QED
      BY <3>1, <3>2, <3>3 DEF PinsTypes
  <2>2. EnumPins!FilterReferenced'
    <3>1. /\ m_cRef[j] = 0 /\ m_cRef' = [m_cRef EXCEPT ![j] = 1]
          /\ filterRefs' = filterRefs + 1
      BY <1>5 DEF EnumPins!Clone
    <3>2. m_cRef[j] \in Nat
      BY <1>0 DEF PinsTypes, PinsNumbers
    <3>3. /\ 1 \in Nat /\ (m_cRef[j] > 0 \/ 1 > 0)
          /\ filterRefs' = IF m_cRef[j] = 0 THEN filterRefs + 1
                           ELSE IF 1 = 0 THEN filterRefs - 1 ELSE filterRefs
      BY <3>1, <3>2
    <3>. QED
      BY <1>0, <3>1, <3>3, CountStep
  <2>3. Alone(j)
    BY <1>0, <1>5 DEF EnumPins!Clone, Alone, PinsTypes, PinsNumbers, PinsLists, PinsCallers
  <2>4. PinsOf(j)'
    <3>1. PinsCalls(j)'
      BY <1>0, <1>5
         DEF EnumPins!Clone, PinsTypes, PinsNumbers, PinsLists, PinsCallers, PinsOf, PinsCalls
    <3>2. PinsReturned(j)'
      BY <1>0, <1>5
         DEF EnumPins!Clone, PinsTypes, PinsLists, PinsOf, PinsReturned
    <3>3. PinsSeen(j)'
      BY ZenonT(60), <1>0, <1>5
         DEF EnumPins!Clone, PinsTypes, PinsNumbers, PinsLists, PinsCallers, PinsOf, PinsCalls,
             PinsSeen, Follows
    <3>. QED
      BY <3>1, <3>2, <3>3 DEF PinsOf
  <2>. QED
    BY <1>0, <2>1, <2>2, <2>3, <2>4, OthersKept DEF PinsInv
<1>. QED
  BY <1>1, <1>2, <1>3, <1>4, <1>5

\* Next and Skip.
LEMMA PinsNextStep ==
    ASSUME PinsInv, NEW i \in Enumerators,
           \/ EnumPins!NextPin(i) \/ EnumPins!NextNull(i) \/ EnumPins!NextReturns(i)
           \/ \E n \in 1..2 : EnumPins!NextBegin(i, n) \/ EnumPins!Skip(i, n)
    PROVE  PinsInv'
<1> USE DEF EnumPins!filterVars, EnumPins!placeVars, EnumPins!callVars, EnumPins!pastVars,
            EnumPins!Idle, EnumPins!None, EnumPins!AreWeOutOfSync, EnumPins!More,
            EnumPins!Return
<1>0. PinsTypes /\ EnumPins!FilterReferenced /\ \A j \in Enumerators : PinsOf(j)
  BY DEF PinsInv
<1>1. CASE EnumPins!NextPin(i)
  <2> DEFINE p == m_pinList[m_pinsPosition[i] + 1]
  <2>0. /\ p \in FilterPins /\ m_pinsPosition[i] \in Nat /\ Len(m_pinList) \in Nat
        /\ m_PinCache[i] \in Seq(FilterPins)
        /\ fetched[i] \in Seq(FilterPins) /\ returned[i] = m_PinCache[i]
    BY <1>0, <1>1
       DEF EnumPins!NextPin, PinsTypes, PinsNumbers, PinsLists, PinsCallers, PinsNumbers,
           PinsLists, PinsCallers, PinsOf, PinsReturned
  <2>a. /\ m_pinsPosition' = [m_pinsPosition EXCEPT ![i] = m_pinsPosition[i] + 1]
        /\ \/ /\ p \in EnumPins!Range(m_PinCache[i])
              /\ UNCHANGED <<fetched, m_PinCache, returned>>
           \/ /\ p \notin EnumPins!Range(m_PinCache[i])
              /\ fetched' = [fetched EXCEPT ![i] = Append(fetched[i], p)]
              /\ m_PinCache' = [m_PinCache EXCEPT ![i] = Append(m_PinCache[i], p)]
              /\ returned' = [returned EXCEPT ![i] = Append(returned[i], p)]
        /\ UNCHANGED <<m_pinList, m_PinVersion, m_PinCount, m_pinsVersion, m_cRef, filterRefs,
                       pinsPc, cPins, pinsResult, skipped>>
        /\ pinsPc[i] = "next" /\ Len(fetched[i]) < cPins[i]
    BY <1>1 DEF EnumPins!NextPin
  <2>b. /\ Append(m_PinCache[i], p) \in Seq(FilterPins)
        /\ Append(fetched[i], p) \in Seq(FilterPins)
        /\ Len(Append(fetched[i], p)) = Len(fetched[i]) + 1
        /\ EnumPins!Range(m_PinCache[i]) \subseteq EnumPins!Range(Append(m_PinCache[i], p))
        /\ p \in EnumPins!Range(Append(m_PinCache[i], p))
        /\ EnumPins!IsInjective(m_PinCache[i]) /\ p \notin EnumPins!Range(m_PinCache[i]) =>
               EnumPins!IsInjective(Append(m_PinCache[i], p))
    BY <2>0, OneMorePin
  <2>c. \A k \in 1..Len(m_pinList) :
            k <= m_pinsPosition[i] + 1 => k <= m_pinsPosition[i] \/ m_pinList[k] = p
    BY <2>0
  <2> HIDE DEF p
  <2>1. PinsTypes'
    <3>1. PinsNumbers'
      BY <1>0, <2>0, <2>a, <2>b DEF PinsTypes, PinsNumbers
    <3>2. PinsLists'
      <4>1. CASE UNCHANGED <<fetched, m_PinCache, returned>>
        BY <1>0, <4>1 DEF PinsTypes, PinsLists
      <4>2. CASE /\ fetched' = [fetched EXCEPT ![i] = Append(fetched[i], p)]
                 /\ m_PinCache' = [m_PinCache EXCEPT ![i] = Append(m_PinCache[i], p)]
                 /\ returned' = [returned EXCEPT ![i] = Append(m_PinCache[i], p)]
        BY <1>0, <2>b, <4>2 DEF PinsTypes, PinsLists
      <4>. QED
        BY <2>0, <2>a, <4>1, <4>2
    <3>3. PinsCallers'
      BY <1>0, <2>0, <2>a, <2>b DEF PinsTypes, PinsCallers
    <3>. QED
      BY <3>1, <3>2, <3>3 DEF PinsTypes
  <2>2. EnumPins!FilterReferenced'
    BY <1>0, <2>a DEF EnumPins!FilterReferenced
  <2>3. Alone(i)
    BY ZenonT(60), <1>0, <2>a DEF Alone, PinsTypes, PinsNumbers, PinsLists, PinsCallers
  <2>4. PinsCalls(i)'
    BY SMTT(40), <1>0, <2>a, <2>b DEF PinsTypes, PinsNumbers, PinsLists, PinsCallers, PinsOf,
           PinsCalls
  <2>5. PinsReturned(i)'
    <3>1. CASE UNCHANGED <<fetched, m_PinCache, returned>>
      BY <1>0, <3>1 DEF PinsOf, PinsReturned
    <3>2. CASE /\ p \notin EnumPins!Range(m_PinCache[i])
               /\ m_PinCache' = [m_PinCache EXCEPT ![i] = Append(m_PinCache[i], p)]
               /\ returned' = [returned EXCEPT ![i] = Append(m_PinCache[i], p)]
      <4>1. m_PinCache'[i] = Append(m_PinCache[i], p) /\ returned'[i] = Append(m_PinCache[i], p)
        BY <1>0, <3>2 DEF PinsTypes, PinsLists
      <4>2. EnumPins!IsInjective(m_PinCache[i])
        BY <1>0, <2>0 DEF PinsOf, PinsReturned
      <4>. QED
        BY <2>b, <3>2, <4>1, <4>2 DEF PinsReturned
    <3>. QED
      BY <2>0, <2>a, <3>1, <3>2
  <2>6. /\ m_pinsPosition'[i] = m_pinsPosition[i] + 1
        /\ EnumPins!Range(m_PinCache[i]) \subseteq EnumPins!Range(m_PinCache'[i])
        /\ p \in EnumPins!Range(m_PinCache'[i])
    BY <1>0, <2>a, <2>b DEF PinsTypes, PinsNumbers, PinsLists
  <2>7. PinsSeen(i)'
    BY <1>0, <2>0, <2>a, <2>c, <2>6
       DEF PinsTypes, PinsNumbers, PinsLists, PinsCallers, PinsOf, PinsCalls, PinsSeen, Follows
  <2>. QED
    BY <1>0, <2>1, <2>2, <2>3, <2>4, <2>5, <2>7, OthersKept DEF PinsInv, PinsOf
<1>2. CASE EnumPins!NextNull(i)
  <2>1. PinsTypes'
    <3>1. PinsNumbers'
      BY <1>0, <1>2 DEF EnumPins!NextNull, PinsTypes, PinsNumbers
    <3>2. PinsLists'
      BY <1>0, <1>2 DEF EnumPins!NextNull, PinsTypes, PinsLists
    <3>3. PinsCallers'
      BY <1>0, <1>2 DEF EnumPins!NextNull, PinsTypes, PinsCallers
    <3>. QED
      BY <3>1, <3>2, <3>3 DEF PinsTypes
  <2>2. EnumPins!FilterReferenced'
    BY <1>0, <1>2 DEF EnumPins!NextNull, EnumPins!FilterReferenced
  <2>3. Alone(i)
    BY <1>0, <1>2 DEF EnumPins!NextNull, Alone, PinsTypes, PinsNumbers, PinsLists, PinsCallers
  <2>4. PinsOf(i)'
    <3>1. PinsCalls(i)'
      BY <1>0, <1>2
         DEF EnumPins!NextNull, PinsTypes, PinsNumbers, PinsLists, PinsCallers, PinsOf, PinsCalls
    <3>2. PinsReturned(i)'
      BY <1>0, <1>2
         DEF EnumPins!NextNull, PinsTypes, PinsLists, PinsOf, PinsReturned
    <3>3. PinsSeen(i)'
      BY <1>0, <1>2
         DEF EnumPins!NextNull, PinsTypes, PinsNumbers, PinsLists, PinsCallers, PinsOf, PinsCalls,
             PinsSeen, Follows
    <3>. QED
      BY <3>1, <3>2, <3>3 DEF PinsOf
  <2>. QED
    BY <1>0, <2>1, <2>2, <2>3, <2>4, OthersKept DEF PinsInv
<1>3. CASE EnumPins!NextReturns(i)
  <2>1. PinsTypes'
    <3>1. PinsNumbers'
      BY <1>0, <1>3 DEF EnumPins!NextReturns, PinsTypes, PinsNumbers
    <3>2. PinsLists'
      BY <1>0, <1>3 DEF EnumPins!NextReturns, PinsTypes, PinsLists
    <3>3. PinsCallers'
      BY <1>0, <1>3 DEF EnumPins!NextReturns, PinsTypes, PinsCallers
    <3>. QED
      BY <3>1, <3>2, <3>3 DEF PinsTypes
  <2>2. EnumPins!FilterReferenced'
    BY <1>0, <1>3 DEF EnumPins!NextReturns, EnumPins!FilterReferenced
  <2>3. Alone(i)
    BY <1>0, <1>3
       DEF EnumPins!NextReturns, Alone, PinsTypes, PinsNumbers, PinsLists, PinsCallers
  <2>4. PinsOf(i)'
    <3>1. PinsCalls(i)'
      BY <1>0, <1>3
         DEF EnumPins!NextReturns, PinsTypes, PinsNumbers, PinsLists, PinsCallers, PinsOf,
             PinsCalls
    <3>2. PinsReturned(i)'
      BY <1>0, <1>3
         DEF EnumPins!NextReturns, PinsTypes, PinsLists, PinsOf, PinsReturned
    <3>3. PinsSeen(i)'
      BY <1>0, <1>3
         DEF EnumPins!NextReturns, PinsTypes, PinsNumbers, PinsLists, PinsCallers, PinsOf,
             PinsCalls,
             PinsSeen, Follows
    <3>. QED
      BY <3>1, <3>2, <3>3 DEF PinsOf
  <2>. QED
    BY <1>0, <2>1, <2>2, <2>3, <2>4, OthersKept DEF PinsInv
<1>4. ASSUME NEW n \in 1..2, EnumPins!NextBegin(i, n) PROVE PinsInv'
  <2>1. PinsTypes'
    <3>1. PinsNumbers'
      <4>1. Len(m_pinList) \in Nat /\ n \in Nat
        BY <1>0 DEF PinsTypes, PinsNumbers
      <4>. QED
        <5>1. CASE m_PinVersion # m_pinsVersion[i]
          <6>1. /\ m_pinsVersion' = [m_pinsVersion EXCEPT ![i] = m_PinVersion]
                /\ m_PinCount' = [m_PinCount EXCEPT ![i] = Len(m_pinList)]
                /\ m_pinsPosition' = [m_pinsPosition EXCEPT ![i] = 0]
                /\ cPins' = [cPins EXCEPT ![i] = n]
                /\ UNCHANGED <<m_pinList, m_PinVersion, m_cRef>>
            BY <1>4, <5>1 DEF EnumPins!NextBegin
          <6>. QED
            BY <1>0, <4>1, <6>1 DEF PinsTypes, PinsNumbers
        <5>2. CASE m_PinVersion = m_pinsVersion[i]
          BY <1>0, <1>4, <4>1, <5>2 DEF EnumPins!NextBegin, PinsTypes, PinsNumbers
        <5>. QED
          BY <5>1, <5>2
    <3>2. PinsLists'
      BY <1>0, <1>4 DEF EnumPins!NextBegin, PinsTypes, PinsLists
    <3>3. PinsCallers'
      BY <1>0, <1>4 DEF EnumPins!NextBegin, PinsTypes, PinsCallers
    <3>. QED
      BY <3>1, <3>2, <3>3 DEF PinsTypes
  <2>2. EnumPins!FilterReferenced'
    BY <1>0, <1>4 DEF EnumPins!NextBegin, EnumPins!FilterReferenced
  <2>3. Alone(i)
    BY ZenonT(60), <1>0, <1>4 DEF EnumPins!NextBegin, Alone, PinsTypes, PinsNumbers, PinsLists,
           PinsCallers
  <2>4. PinsOf(i)'
    <3>1. PinsCalls(i)'
      BY <1>0, <1>4
         DEF EnumPins!NextBegin, PinsTypes, PinsNumbers, PinsLists, PinsCallers, PinsOf, PinsCalls
    <3>2. PinsReturned(i)'
      BY <1>0, <1>4
         DEF EnumPins!NextBegin, PinsTypes, PinsLists, PinsOf, PinsReturned
    <3>3. PinsSeen(i)'
      BY SMTT(40), <1>0, <1>4
         DEF EnumPins!NextBegin, PinsTypes, PinsNumbers, PinsLists, PinsCallers, PinsOf, PinsCalls,
             PinsSeen, Follows
    <3>. QED
      BY <3>1, <3>2, <3>3 DEF PinsOf
  <2>. QED
    BY <1>0, <2>1, <2>2, <2>3, <2>4, OthersKept DEF PinsInv
<1>5. ASSUME NEW n \in 1..2, EnumPins!Skip(i, n) PROVE PinsInv'
  <2>1. PinsTypes'
    <3>1. PinsNumbers'
      BY SMTT(40), <1>0, <1>5 DEF EnumPins!Skip, PinsTypes, PinsNumbers
    <3>2. PinsLists'
      BY <1>0, <1>5 DEF EnumPins!Skip, PinsTypes, PinsLists
    <3>3. PinsCallers'
      BY <1>0, <1>5 DEF EnumPins!Skip, PinsTypes, PinsCallers
    <3>. QED
      BY <3>1, <3>2, <3>3 DEF PinsTypes
  <2>2. EnumPins!FilterReferenced'
    BY <1>0, <1>5 DEF EnumPins!Skip, EnumPins!FilterReferenced
  <2>3. Alone(i)
    BY <1>0, <1>5 DEF EnumPins!Skip, Alone, PinsTypes, PinsNumbers, PinsLists, PinsCallers
  <2>4. PinsOf(i)'
    <3>1. PinsCalls(i)'
      BY <1>0, <1>5
         DEF EnumPins!Skip, PinsTypes, PinsNumbers, PinsLists, PinsCallers, PinsOf, PinsCalls
    <3>2. PinsReturned(i)'
      BY <1>0, <1>5
         DEF EnumPins!Skip, PinsTypes, PinsLists, PinsOf, PinsReturned
    <3>3. PinsSeen(i)'
      BY <1>0, <1>5
         DEF EnumPins!Skip, PinsTypes, PinsNumbers, PinsLists, PinsCallers, PinsOf, PinsCalls,
             PinsSeen, Follows
    <3>. QED
      BY <3>1, <3>2, <3>3 DEF PinsOf
  <2>. QED
    BY <1>0, <2>1, <2>2, <2>3, <2>4, OthersKept DEF PinsInv
<1>. QED
  BY <1>1, <1>2, <1>3, <1>4, <1>5

\* No pin is given twice, the filter is referenced once by each enumerator and,
\* where it tells them of its changes, they miss none.
LEMMA PinsStep ==
    ASSUME PinsInv, [EnumPins!Next]_EnumPinsvars
    PROVE  PinsInv'
<1>1. CASE EnumPins!Next
  BY <1>1, PinsFilterStep, PinsReferenceStep, PinsNextStep
     DEF EnumPins!Next, EnumPins!Enumerator
<1>2. CASE UNCHANGED EnumPinsvars
  <2>1. PinsTypes' /\ EnumPins!FilterReferenced'
    BY <1>2
       DEF EnumPinsvars, PinsInv, PinsTypes, PinsNumbers, PinsLists, PinsCallers,
           EnumPins!FilterReferenced
  <2>2. \A i \in Enumerators : PinsOf(i)'
    BY <1>2
       DEF EnumPinsvars, PinsInv, PinsOf, PinsCalls, PinsReturned, PinsSeen, Follows
  <2>. QED
    BY <2>1, <2>2 DEF PinsInv
<1>. QED
  BY <1>1, <1>2

\* What has been returned is what the enumerator promises.
LEMMA PinsGiven ==
    ASSUME PinsInv
    PROVE  /\ EnumPins!NoPinTwice /\ EnumPins!FilterReferenced
           /\ Notifies => EnumPins!NothingMissed
<1>1. EnumPins!NoPinTwice /\ EnumPins!FilterReferenced
  BY DEF PinsInv, PinsOf, PinsReturned, EnumPins!NoPinTwice
<1>2. ASSUME Notifies, NEW i \in Enumerators, pinsResult[i] = "S_FALSE", Follows(i)
      PROVE  EnumPins!Range(m_pinList) \subseteq EnumPins!Range(returned[i])
  <2>1. \A k \in 1..Len(m_pinList) : m_pinList[k] \in EnumPins!Range(returned[i])
    BY <1>2
       DEF PinsInv, PinsTypes, PinsNumbers, PinsLists, PinsCallers, PinsNumbers, PinsLists,
           PinsCallers, PinsOf, PinsReturned, PinsSeen
  <2>2. DOMAIN m_pinList = 1..Len(m_pinList)
    BY DEF PinsInv, PinsTypes, PinsNumbers, PinsLists, PinsCallers
  <2>. QED
    BY <2>1, <2>2 DEF EnumPins!Range
<1>. QED
  BY <1>1, <1>2 DEF EnumPins!NothingMissed, Follows, EnumPins!AreWeOutOfSync
-----------------------------------------------------------------------------
\* What keeps a connection, and the numbers of references that pins hold, right.
LEMMA ConnectionHolds ==
    ASSUME ConnectionInv
    PROVE  ConnectionAgreed
<1>1. ASSUME NEW a \in 1..MaxAllocators
      PROVE  refs[a] = Connection!Cardinality({p \in Connection!Both : m_pAllocator[p] = a})
  <2>1. {p \in Connection!Both : m_pAllocator[p] = a} = {p \in {"out", "in"} : m_pAllocator[p] = a}
    BY DEF Connection!Both
  <2>2. refs[a] = (IF m_pAllocator["in"] = a THEN 1 ELSE 0)
                      + (IF m_pAllocator["out"] = a THEN 1 ELSE 0)
    BY DEF ConnectionInv, Referenced, Held
  <2>3. Cardinality({p \in {"out", "in"} : m_pAllocator[p] = a}) =
            (IF m_pAllocator["in"] = a THEN 1 ELSE 0) + (IF m_pAllocator["out"] = a THEN 1 ELSE 0)
    BY HoldersCounted
  <2>. QED
    BY <2>1, <2>2, <2>3, CountedAlike
<1>2. Connection!AllocatorReferenced
  BY <1>1 DEF Connection!AllocatorReferenced, Connection!Allocators
<1>. QED
  BY <1>2 DEF ConnectionInv, Outcome, ConnectionAgreed

\* In a connection, whatever the pins accept and offer and whatever fails: a Connect
\* that succeeds leaves both pins with one type and one allocator, one that fails leaves
\* nothing behind, unless the input pin was disconnected in the middle of it or refused to
\* be because its filter had become active, and has found no type only where there is none,
\* whatever states the filters go to meanwhile; each pin references
\* its allocator once, and only that of active pins is committed (amfilter.cpp lines
\* 1662 to 2180 and 2440 to 2780).
THEOREM Connected == MCSpec => []ConnectionAgreed
<1>1. MCInit => ConnectionInv
  BY ConnectionInit DEF MCInit
<1>2. ConnectionInv /\ [MCNext]_<<part, components>> => ConnectionInv'
  <2>1. [MCNext]_<<part, components>> => [Connection!Next]_Connectionvars
    BY DEF MCNext, components
  <2>. QED
    BY <2>1, ConnectionStep
<1>3. ConnectionInv => ConnectionAgreed
  BY ConnectionHolds
<1>. QED
  BY <1>1, <1>2, <1>3, PTL DEF MCSpec

\* The enumerators of pins and of types keep their invariants side by side.
LEMMA EnumeratorsKept == MCSpec => [](PinsInv /\ TypesInv)
<1>1. MCInit => PinsInv /\ TypesInv
  BY PinsInit, TypesInit DEF MCInit
<1>2. PinsInv /\ TypesInv /\ [MCNext]_<<part, components>> => PinsInv' /\ TypesInv'
  <2>1. [MCNext]_<<part, components>> => /\ [EnumPins!Next]_EnumPinsvars
                                         /\ [EnumTypes!Next]_EnumTypesvars
    BY DEF MCNext, components
  <2>. QED
    BY <2>1, PinsStep, TypesStep
<1>. QED
  BY <1>1, <1>2, PTL DEF MCSpec

\* Where the filter tells its enumerators of each change, as CBaseFilter expects, they
\* give out every pin and every type once, in order, and end only when nothing is
\* missing (amfilter.cpp lines 960 to 1240 and 1270 to 1480).
THEOREM GivenOnce ==
    ASSUME Notifies
    PROVE  MCSpec => []EnumeratedOnce
<1>1. PinsInv /\ TypesInv => EnumeratedOnce
  BY PinsGiven, TypesGiven DEF EnumeratedOnce
<1>. QED
  BY <1>1, EnumeratorsKept, PTL

\* Whether or not the filter does so (the sink does not when it adds pins), no pin is
\* given out twice and each enumerator has one reference on the filter.
THEOREM NeverTwice == MCSpec => [](EnumPins!NoPinTwice /\ EnumPins!FilterReferenced)
<1>1. PinsInv /\ TypesInv => EnumPins!NoPinTwice /\ EnumPins!FilterReferenced
  BY PinsGiven
<1>. QED
  BY <1>1, EnumeratorsKept, PTL
=============================================================================
