---------------------------- MODULE PinConnection ----------------------------
(***************************************************************************)
(* The connection of two pins by the base classes: CBasePin::Connect and   *)
(* what it calls in CBaseOutputPin (the connecting pin) and CBaseInputPin  *)
(* (the receiving one), with the agreement on a media type and on an       *)
(* allocator, and the pins' Active, Inactive and Disconnect.               *)
(*                                                                         *)
(* Connect holds the lock of the output pin's filter to its end; that of   *)
(* the input pin's filter is taken call by call, so its filter may change  *)
(* its state, or the pin be disconnected, in between.  Derived classes may *)
(* fail each call they override.                                           *)
(***************************************************************************)
EXTENDS Integers, SequencesExt, FiniteSets

CONSTANTS Types,            \* media types, each fully specified
          InTypes, OutTypes,    \* what the pins' enumerators offer, in order
          TryMine,          \* m_bTryMyTypesFirst
          MaxAllocators, MaxFailures, MaxConnects   \* bounds

Allocators == 1..MaxAllocators
NULL == 0
NoType == "none"

\* A wish is a type, or a partial type that others match, or none.
Wishes == [full : {TRUE}, match : {{t} : t \in Types}]
             \cup [full : {FALSE}, match : {Types, {CHOOSE t \in Types : TRUE}}]

VARIABLES
    accepts,                          \* the types each pin accepts
    stopped,                          \* is each pin's filter stopped
    m_Connected, m_mt, m_pAllocator,  \* the pins
    m_pInputPin,                      \* the output pin's reference to the input pin
    refs, committed, created,         \* the allocators
    pc, candidates, wish, result,     \* Connect: types still to try, pmt, its answer
    failures, connects,               \* counts of what is bounded
    before,                           \* history: was the input pin connected already,
    mishaps                           \* and what else befell it during the call

pinVars   == <<m_Connected, m_mt, m_pAllocator, m_pInputPin>>
poolVars  == <<refs, committed, created>>
history   == <<before, mishaps>>
callVars  == <<pc, candidates, wish, result, history>>
countVars == <<failures, connects>>
vars == <<accepts, stopped, pinVars, poolVars, callVars, countVars>>

Both == {"out", "in"}

Init ==
    /\ accepts \in [Both -> SUBSET Types]
    /\ stopped = [p \in Both |-> TRUE]
    /\ m_Connected = [p \in Both |-> FALSE] /\ m_mt = [p \in Both |-> NoType]
    /\ m_pAllocator = [p \in Both |-> NULL] /\ m_pInputPin = FALSE
    /\ refs = [a \in Allocators |-> 0] /\ committed = [a \in Allocators |-> FALSE]
    /\ created = 0
    /\ pc = "idle" /\ candidates = << >> /\ wish = CHOOSE w \in Wishes : TRUE
    /\ result = "none" /\ before = FALSE /\ mishaps = {}
    /\ failures = 0 /\ connects = 0

Fail == failures < MaxFailures /\ failures' = failures + 1

\* What is left of an allocator when a pin lets go of it.
Released(r, a) == IF a = NULL THEN r ELSE [r EXCEPT ![a] = @ - 1]
Decommitted(a) == IF a = NULL THEN committed ELSE [committed EXCEPT ![a] = FALSE]
-----------------------------------------------------------------------------
\* AgreeMediaType: a full type is the only one tried; else those of both
\* enumerators.
Candidates(w) ==
    IF w.full THEN << CHOOSE t \in w.match : TRUE >>
    ELSE IF TryMine THEN OutTypes \o InTypes ELSE InTypes \o OutTypes

Connect(w) ==
    /\ pc = "idle" /\ connects < MaxConnects
    /\ connects' = connects + 1 /\ wish' = w /\ before' = m_Connected["in"]
    /\ mishaps' = {}
    /\ IF m_Connected["out"] \/ ~stopped["out"]
       THEN result' = "refused" /\ UNCHANGED <<pc, candidates>>
       ELSE pc' = "try" /\ candidates' = Candidates(w) /\ result' = "none"
    /\ UNCHANGED <<accepts, stopped, pinVars, poolVars, failures>>

NextType == pc' = "try" /\ candidates' = Tail(candidates)

\* A type that does not match the one asked for is passed over.
PassOver ==
    /\ pc = "try" /\ candidates # << >> /\ Head(candidates) \notin wish.match
    /\ NextType
    /\ UNCHANGED <<accepts, stopped, pinVars, poolVars, wish, result, history, countVars>>

\* AttemptConnection, up to ReceiveConnection.  CheckConnect gets the input
\* pin's IMemInputPin, which BreakConnect gives back with a type not accepted.
Attempt ==
    /\ pc = "try" /\ candidates # << >> /\ Head(candidates) \in wish.match
    /\ IF Head(candidates) \in accepts["out"]
       THEN /\ m_pInputPin' = TRUE /\ m_Connected' = [m_Connected EXCEPT !["out"] = TRUE]
            /\ m_mt' = [m_mt EXCEPT !["out"] = Head(candidates)]
            /\ pc' = "receive" /\ UNCHANGED candidates
       ELSE NextType /\ UNCHANGED <<m_pInputPin, m_Connected, m_mt>>
    /\ UNCHANGED <<accepts, stopped, m_pAllocator, poolVars, wish, result, history, countVars>>

\* CheckConnect, CheckMediaType or SetMediaType of the output pin fails.
AttemptFails ==
    /\ pc = "try" /\ candidates # << >> /\ Head(candidates) \in wish.match /\ Fail
    /\ NextType
    /\ UNCHANGED <<accepts, stopped, pinVars, poolVars, wish, result, history, connects>>

NoMoreTypes ==
    /\ pc = "try" /\ candidates = << >>
    /\ pc' = "idle" /\ result' = "failed"
    /\ UNCHANGED <<accepts, stopped, pinVars, poolVars, candidates, wish, history, countVars>>

\* BreakConnect of the output pin, and m_Connected is NULL again.
BreakOut ==
    /\ m_pInputPin' = FALSE
    /\ committed' = Decommitted(m_pAllocator["out"])
    /\ refs' = Released(refs, m_pAllocator["out"])

\* Fault: the input pin keeps the type of its last connection.
ReceiveKeepsType ==
    /\ pc = "receive"
    /\ ~m_Connected["in"] /\ stopped["in"] /\ Head(candidates) \in accepts["in"]
    /\ m_Connected' = [m_Connected EXCEPT !["in"] = TRUE]
    /\ m_mt' = IF m_mt["in"] = NoType THEN [m_mt EXCEPT !["in"] = Head(candidates)] ELSE m_mt
    /\ pc' = "getAllocator"
    /\ UNCHANGED <<accepts, stopped, m_pAllocator, m_pInputPin, poolVars, candidates, wish,
                   result, history, countVars>>

\* ReceiveConnection of the input pin.
ReceiveConnection ==
    /\ pc = "receive"
    /\ ~m_Connected["in"] /\ stopped["in"] /\ Head(candidates) \in accepts["in"]
    /\ m_Connected' = [m_Connected EXCEPT !["in"] = TRUE]
    /\ m_mt' = [m_mt EXCEPT !["in"] = Head(candidates)]
    /\ pc' = "getAllocator"
    /\ UNCHANGED <<accepts, stopped, m_pAllocator, m_pInputPin, poolVars, candidates, wish,
                   result, history, countVars>>

\* It may refuse, for its state, for the type or because its CompleteConnect
\* fails; then the output pin undoes what it has done.
ReceiveRefuses ==
    /\ pc = "receive"
    /\ \/ /\ m_Connected["in"] \/ ~stopped["in"] \/ Head(candidates) \notin accepts["in"]
          /\ UNCHANGED failures
       \/ Fail
    /\ BreakOut /\ NextType
    /\ m_Connected' = [m_Connected EXCEPT !["out"] = FALSE]
    /\ m_pAllocator' = [m_pAllocator EXCEPT !["out"] = NULL]
    /\ UNCHANGED <<accepts, stopped, m_mt, created, wish, result, history, connects>>
-----------------------------------------------------------------------------
\* CompleteConnect: DecideAllocator.

Create(a) == created < MaxAllocators /\ a = created + 1 /\ created' = a

\* The input pin makes its allocator when it is first asked for it.
GetAllocator ==
    /\ pc = "getAllocator"
    /\ \E a \in Allocators :
          /\ IF m_pAllocator["in"] = NULL
             THEN Create(a) /\ refs' = [refs EXCEPT ![a] = 2]
             ELSE a = m_pAllocator["in"] /\ refs' = [refs EXCEPT ![a] = @ + 1] /\ UNCHANGED created
          /\ m_pAllocator' = [p \in Both |-> a]
    /\ pc' = "notifyTheirs"
    /\ UNCHANGED <<accepts, stopped, m_Connected, m_mt, m_pInputPin, committed, candidates,
                   wish, result, history, countVars>>

GetAllocatorFails ==
    /\ pc = "getAllocator" /\ Fail
    /\ pc' = "initAllocator"
    /\ UNCHANGED <<accepts, stopped, pinVars, poolVars, candidates, wish, result, history,
                   connects>>

InitAllocator ==
    /\ pc = "initAllocator"
    /\ \E a \in Allocators :
          /\ Create(a) /\ refs' = [refs EXCEPT ![a] = 1]
          /\ m_pAllocator' = [m_pAllocator EXCEPT !["out"] = a]
    /\ pc' = "notifyOurs"
    /\ UNCHANGED <<accepts, stopped, m_Connected, m_mt, m_pInputPin, committed, candidates,
                   wish, result, history, countVars>>

\* Fault: the allocator the input pin has had is not released.
NotifyKeepsOld ==
    /\ pc \in {"notifyTheirs", "notifyOurs"}
    /\ LET a == m_pAllocator["out"] IN
       /\ refs' = [refs EXCEPT ![a] = @ + 1]
       /\ m_pAllocator' = [m_pAllocator EXCEPT !["in"] = a]
    /\ pc' = "idle" /\ result' = "connected"
    /\ UNCHANGED <<accepts, stopped, m_Connected, m_mt, m_pInputPin, committed, created,
                   candidates, wish, history, countVars>>

\* DecideBufferSize and NotifyAllocator, which succeed: the pins share it.
NotifyAllocator ==
    /\ pc \in {"notifyTheirs", "notifyOurs"}
    /\ LET a == m_pAllocator["out"] IN
       /\ refs' = Released([refs EXCEPT ![a] = @ + 1], m_pAllocator["in"])
       /\ m_pAllocator' = [m_pAllocator EXCEPT !["in"] = a]
    /\ pc' = "idle" /\ result' = "connected"
    /\ UNCHANGED <<accepts, stopped, m_Connected, m_mt, m_pInputPin, committed, created,
                   candidates, wish, history, countVars>>

\* One of them fails: the next allocator, or no connection.
AllocatorFails ==
    /\ pc \in {"notifyTheirs", "notifyOurs"} /\ Fail
    /\ refs' = Released(refs, m_pAllocator["out"])
    /\ m_pAllocator' = [m_pAllocator EXCEPT !["out"] = NULL]
    /\ pc' = IF pc = "notifyTheirs" THEN "initAllocator" ELSE "undo"
    /\ UNCHANGED <<accepts, stopped, m_Connected, m_mt, m_pInputPin, committed, created,
                   candidates, wish, result, history, connects>>

\* Fault: the input pin is left as it is.
UndoOutOnly ==
    /\ pc = "undo"
    /\ m_Connected' = [m_Connected EXCEPT !["out"] = FALSE] /\ UNCHANGED <<refs, committed>>
    /\ m_pInputPin' = FALSE /\ NextType
    /\ UNCHANGED <<accepts, stopped, m_mt, m_pAllocator, created, wish, result, history,
                   countVars>>

\* The input pin is told to Disconnect, which it refuses unless its filter is
\* stopped; the answer is not looked at.
Undo ==
    /\ pc = "undo"
    /\ IF stopped["in"]
       THEN /\ m_Connected' = [p \in Both |-> FALSE]
            /\ refs' = Released(refs, m_pAllocator["in"])
            /\ committed' = Decommitted(m_pAllocator["in"])
            /\ m_pAllocator' = [p \in Both |-> NULL] /\ UNCHANGED mishaps
       ELSE /\ m_Connected' = [m_Connected EXCEPT !["out"] = FALSE]
            /\ mishaps' = mishaps \cup {"kept"} /\ UNCHANGED <<refs, committed, m_pAllocator>>
    /\ m_pInputPin' = FALSE /\ NextType
    /\ UNCHANGED <<accepts, stopped, m_mt, created, wish, result, before, countVars>>
-----------------------------------------------------------------------------
\* Other calls.  Those on the output pin and its filter wait for Connect to end,
\* those on the input pin's come between its calls.

Free(p) == pc = "idle" \/ p = "in"

Meanwhile(what) ==
    /\ result' = "none" /\ mishaps' = IF pc = "idle" THEN mishaps ELSE mishaps \cup {what}
    /\ UNCHANGED <<pc, candidates, wish, before>>

\* Disconnect, with BreakConnect of either class.
Disconnect(p) ==
    /\ Free(p) /\ stopped[p] /\ m_Connected[p]
    /\ m_Connected' = [m_Connected EXCEPT ![p] = FALSE]
    /\ committed' = Decommitted(m_pAllocator[p])
    /\ refs' = Released(refs, m_pAllocator[p])
    /\ m_pAllocator' = [m_pAllocator EXCEPT ![p] = NULL]
    /\ m_pInputPin' = (m_pInputPin /\ p = "in")
    /\ Meanwhile("disconnected")
    /\ UNCHANGED <<accepts, stopped, m_mt, created, countVars>>

\* The filter pauses.  A connected output pin commits its allocator.
Active(p) ==
    /\ Free(p) /\ stopped[p]
    /\ stopped' = [stopped EXCEPT ![p] = FALSE]
    /\ committed' = IF p = "out" /\ m_Connected["out"]
                    THEN [committed EXCEPT ![m_pAllocator["out"]] = TRUE] ELSE committed
    /\ Meanwhile("changed")
    /\ UNCHANGED <<accepts, pinVars, refs, created, countVars>>

\* Fault: a pin that stops leaves the allocator to the other.
InactiveIn(p) ==
    /\ Free(p) /\ ~stopped[p]
    /\ stopped' = [stopped EXCEPT ![p] = TRUE]
    /\ committed' = IF p = "in" /\ m_Connected[p] THEN Decommitted(m_pAllocator[p]) ELSE committed
    /\ Meanwhile("changed")
    /\ UNCHANGED <<accepts, pinVars, refs, created, countVars>>

\* The filter stops: either pin decommits the allocator.
Inactive(p) ==
    /\ Free(p) /\ ~stopped[p]
    /\ stopped' = [stopped EXCEPT ![p] = TRUE]
    /\ committed' = IF m_Connected[p] THEN Decommitted(m_pAllocator[p]) ELSE committed
    /\ Meanwhile("changed")
    /\ UNCHANGED <<accepts, pinVars, refs, created, countVars>>
-----------------------------------------------------------------------------
Next == \/ \E w \in Wishes : Connect(w)
        \/ PassOver \/ Attempt \/ AttemptFails \/ NoMoreTypes \/ ReceiveConnection \/ ReceiveRefuses
        \/ GetAllocator \/ GetAllocatorFails \/ InitAllocator \/ NotifyAllocator
        \/ AllocatorFails \/ Undo
        \/ \E p \in Both : Disconnect(p) \/ Active(p) \/ Inactive(p)

Spec == Init /\ [][Next]_vars
-----------------------------------------------------------------------------
\* A Connect that succeeds leaves both pins connected, with one type, which both
\* accept and which matches what was asked for, and with one allocator, unless the
\* input pin was disconnected before it returned.
Agreed ==
    result = "connected" /\ "disconnected" \notin mishaps =>
        /\ m_Connected["out"] /\ m_Connected["in"] /\ m_pInputPin
        /\ m_mt["out"] = m_mt["in"]
        /\ m_mt["in"] \in accepts["out"] \cap accepts["in"] \cap wish.match
        /\ m_pAllocator["out"] = m_pAllocator["in"] /\ m_pAllocator["in"] # NULL

\* "Failing this will also fail the connection and disconnect the other pin as
\* well" (line 1975): a Connect that fails leaves the output pin with nothing, and
\* the input pin as it was, or connected where it refused to be disconnected
\* because its filter was no longer stopped.
NothingLeft ==
    result = "failed" =>
        /\ ~m_Connected["out"] /\ ~m_pInputPin /\ m_pAllocator["out"] = NULL
        /\ \/ (m_Connected["in"] <=> before \/ "kept" \in mishaps)
           \/ "disconnected" \in mishaps
        /\ "kept" \in mishaps => "changed" \in mishaps

\* A type that both pins accept, that one of them offers, is found, unless a
\* call failed or the input pin was not to be had.
TypeFound ==
    result = "failed" /\ failures = 0 /\ ~before /\ stopped["in"] /\ mishaps = {} =>
        \A t \in wish.match \cap accepts["out"] \cap accepts["in"] :
            ~wish.full /\ t \notin Range(InTypes) \cup Range(OutTypes)

\* An allocator is referenced once by each pin that has it.
AllocatorReferenced ==
    \A a \in Allocators : refs[a] = Cardinality({p \in Both : m_pAllocator[p] = a})

\* "A memory leak could occur if the allocator is not decommited" (line 2531):
\* only the allocator of a connected pin whose filter is active is committed.
CommittedWhileActive ==
    \A a \in Allocators : committed[a] => m_pAllocator["out"] = a /\ ~stopped["out"]
=============================================================================
