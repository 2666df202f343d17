---------------------------- MODULE TransInPlace ----------------------------
(***************************************************************************)
(* CTransInPlaceFilter between an upstream and a downstream filter: which  *)
(* types and allocators its two pins come to use, and when it must copy.   *)
(*                                                                         *)
(* The pins are connected and disconnected, by the application or by the   *)
(* graph when a pin has asked to be reconnected, while the filter is       *)
(* stopped.  An upstream filter has its own allocator, perhaps read-only,  *)
(* and may insist on it; a downstream one may offer an allocator, and may  *)
(* accept no other.                                                        *)
(***************************************************************************)
EXTENDS Integers, FiniteSets

CONSTANTS Types,            \* media types that all filters accept
          MaxConnections    \* bound: connections made by the application

None == "none"
Nobody == [nobody |-> TRUE]
Upstreams == [readOnly : BOOLEAN, insists : BOOLEAN]
Downstreams == [offers : BOOLEAN, accepts : BOOLEAN]

VARIABLES
    m_bModifiesData,
    upstream, downstream,       \* the filters connected to, or Nobody
    typeIn, typeOut,
    allocIn, m_bReadOnly, allocOut,   \* of the pins; read-only on the input
    reconnect,                  \* pins the graph has been asked to reconnect
    connections

inPin  == <<upstream, typeIn, allocIn, m_bReadOnly>>
outPin == <<downstream, typeOut, allocOut>>
vars == <<m_bModifiesData, inPin, outPin, reconnect, connections>>

Init ==
    /\ m_bModifiesData \in BOOLEAN
    /\ upstream = Nobody /\ downstream = Nobody /\ typeIn = None /\ typeOut = None
    /\ allocIn = None /\ m_bReadOnly = FALSE /\ allocOut = None
    /\ reconnect = {} /\ connections = 0

InConnected  == upstream # Nobody
OutConnected == downstream # Nobody
UsingDifferentAllocators == allocIn # allocOut

\* NotifyAllocator of the downstream pin.
Accepts(alloc) == downstream.accepts \/ alloc = "down"
-----------------------------------------------------------------------------
\* The allocators.

\* Fault: it is not asked whether the output pin uses the same allocator.
CopyAlways(out, alloc) == OutConnected /\ allocOut' = out

\* The input is read-only and will be changed: the output needs another
\* allocator, which is asked for when there is none.
CopyNeeded(out, alloc) ==
    /\ allocOut' = IF out = None THEN IF downstream.offers THEN "down" ELSE "own" ELSE out
    /\ allocOut' # alloc /\ Accepts(allocOut')

\* CTransInPlaceInputPin::NotifyAllocator, when it succeeds, with the allocator the
\* output pin has by then.
NotifyAllocator(out, alloc, readOnly) ==
    /\ allocIn' = alloc /\ m_bReadOnly' = readOnly
    /\ IF ~OutConnected THEN allocOut' = out
       ELSE IF readOnly /\ m_bModifiesData THEN CopyNeeded(out, alloc)
       ELSE Accepts(alloc) /\ allocOut' = alloc

\* GetAllocator of the input pin offers downstream's when the output is connected, and
\* an allocator for the time being otherwise.
Offered == IF ~OutConnected THEN "temporary" ELSE IF downstream.offers THEN "down" ELSE None

\* The output pin has downstream's from there on, though nobody may come to use it.
OutWhenAsked == IF OutConnected /\ downstream.offers THEN "down" ELSE allocOut

\* The input pin is merely asked, by a filter it is connected to or that wants to be.
GetAllocator ==
    /\ allocOut' = OutWhenAsked
    /\ allocIn' = (IF ~OutConnected /\ allocIn = None THEN Offered ELSE allocIn)
    /\ UNCHANGED <<m_bModifiesData, upstream, typeIn, m_bReadOnly, downstream, typeOut,
                   reconnect, connections>>

\* What an upstream filter does with them, CBaseOutputPin::DecideAllocator: the
\* input pin's allocator, and when that fails its own; or that without asking.
DecideUpstream(filter) ==
    \/ /\ ~filter.insists /\ Offered # None
       /\ NotifyAllocator(OutWhenAsked, Offered, FALSE)
    \/ /\ filter.insists \/ Offered = None
       /\ \E out \in {allocOut, OutWhenAsked} : NotifyAllocator(out, "up", filter.readOnly)

\* What they have changed when they come to no agreement.
DecidedNothing(filter) ==
    /\ allocOut' \in {allocOut, OutWhenAsked}
    /\ m_bReadOnly' \in {m_bReadOnly, filter.readOnly, FALSE}

\* DecideAllocator of the output pin: downstream's, or its own.
DecideAllocator(filter) ==
    \/ filter.offers /\ allocOut' = "down"
    \/ ~filter.offers /\ filter.accepts /\ allocOut' = "own"
-----------------------------------------------------------------------------
\* Connections.

\* CTransformInputPin::CheckMediaType asks both sides; the types of the other
\* pin's connection are not fixed here.
ConnectInput(filter, type) ==
    /\ upstream' = filter /\ typeIn' = type
    /\ DecideUpstream(filter)
    /\ UNCHANGED <<m_bModifiesData, downstream, typeOut>>

\* Fault: reconnected whatever its type.
ReconnectAlways(type) == IF OutConnected THEN {"out"} ELSE {}

\* CompleteConnect: the other pin is reconnected when its type differs.
ReconnectOutput(type) == IF OutConnected /\ type # typeOut THEN {"out"} ELSE {}

Connect(filter, type) ==
    /\ ~InConnected /\ connections < MaxConnections /\ connections' = connections + 1
    /\ ConnectInput(filter, type)
    /\ reconnect' = (reconnect \ {"in"}) \cup ReconnectOutput(type)

\* An attempt that fails, whatever for, is undone by a disconnection.
ConnectFails(filter) ==
    /\ ~InConnected /\ DecidedNothing(filter) /\ allocIn' = None
    /\ UNCHANGED <<m_bModifiesData, upstream, typeIn, downstream, typeOut, reconnect,
                   connections>>

\* The input always is, so that the upstream filter sees the allocators too.
ReconnectInput(type) == IF InConnected THEN {"in"} ELSE {}

ConnectOutput(filter, type) ==
    /\ downstream' = filter /\ typeOut' = type /\ DecideAllocator(filter)
    /\ UNCHANGED <<m_bModifiesData, inPin>>

\* CheckConnect of the output pin: the input is connected first.
Receive(filter, type) ==
    /\ InConnected /\ ~OutConnected
    /\ connections < MaxConnections /\ connections' = connections + 1
    /\ ConnectOutput(filter, type)
    /\ reconnect' = (reconnect \ {"out"}) \cup ReconnectInput(type)

\* The type a reconnection was asked for with: that of the other pin, which may
\* have been disconnected since.
Asked(type) == IF type = None THEN Types ELSE {type}

\* The graph reconnects a pin to the filter it had, with the type of the other
\* pin; when that fails the pin stays disconnected.
GraphReconnectsInput ==
    /\ "in" \in reconnect /\ InConnected
    /\ \/ \E type \in Asked(typeOut) :
             /\ ConnectInput(upstream, type)
             /\ reconnect' = (reconnect \ {"in"}) \cup ReconnectOutput(type)
       \/ /\ upstream' = Nobody /\ typeIn' = None /\ allocIn' = None
          /\ DecidedNothing(upstream)
          /\ reconnect' = reconnect \ {"in"} /\ UNCHANGED <<m_bModifiesData, downstream, typeOut>>
    /\ UNCHANGED connections

GraphReconnectsOutput ==
    /\ "out" \in reconnect /\ OutConnected
    /\ \/ \E type \in Asked(typeIn) :
             /\ InConnected /\ ConnectOutput(downstream, type)
             /\ reconnect' = (reconnect \ {"out"}) \cup ReconnectInput(type)
       \/ /\ downstream' = Nobody /\ typeOut' = None /\ allocOut' = None
          /\ reconnect' = reconnect \ {"out"} /\ UNCHANGED <<m_bModifiesData, inPin>>
    /\ UNCHANGED connections

\* BreakConnect: each pin lets go of its own allocator, and of nothing else.
DisconnectInput ==
    /\ InConnected /\ upstream' = Nobody /\ typeIn' = None /\ allocIn' = None
    /\ reconnect' = reconnect \ {"in"}
    /\ UNCHANGED <<m_bModifiesData, m_bReadOnly, outPin, connections>>

DisconnectOutput ==
    /\ OutConnected /\ downstream' = Nobody /\ typeOut' = None /\ allocOut' = None
    /\ reconnect' = reconnect \ {"out"}
    /\ UNCHANGED <<m_bModifiesData, inPin, connections>>
-----------------------------------------------------------------------------
Reconnect == GraphReconnectsInput \/ GraphReconnectsOutput

Next ==
    \/ \E filter \in Upstreams, type \in Types : Connect(filter, type)
    \/ \E filter \in Upstreams : ConnectFails(filter)
    \/ GetAllocator
    \/ \E filter \in Downstreams, type \in Types : Receive(filter, type)
    \/ DisconnectInput \/ DisconnectOutput \/ Reconnect

Fairness == WF_vars(Reconnect)
Spec == Init /\ [][Next]_vars /\ Fairness
-----------------------------------------------------------------------------
\* When the graph has reconnected what it was asked to, samples can flow: both
\* sides have the same type (lines 186 to 192), and a filter that changes the
\* data does so in place only where it may write (lines 751 to 768).
Settled == InConnected /\ OutConnected /\ reconnect = {}
TransformsSafely ==
    Settled => /\ typeIn = typeOut
               /\ allocIn # None /\ allocOut # None
               /\ m_bModifiesData /\ m_bReadOnly => UsingDifferentAllocators

\* Reconnecting one pin asks for the other, and this comes to an end.
Waits == reconnect # {}
=============================================================================
