------------------------------ MODULE EnumPins ------------------------------
(***************************************************************************)
(* CEnumPins: enumerators over the pins of a filter that adds and removes  *)
(* pins while they are in use.  An enumerator takes no lock: Next asks the *)
(* filter for one pin at a time and the filter may change in between.      *)
(*                                                                         *)
(* A pin is identified by its address; addresses are not used again here.  *)
(***************************************************************************)
EXTENDS Integers, SequencesExt, FiniteSets

CONSTANTS Pins,        \* the pins the filter may have
          Enumerators,
          InitialPins, \* how many it starts with
          Notifies,    \* does the filter call IncrementPinVersion
          MaxVersion   \* bound: changes of the list

None == "none"

VARIABLES
    m_pinList, m_PinVersion, changes,      \* the filter
    m_Position, m_PinCount, m_Version,     \* the enumerators,
    m_PinCache, m_cRef,                    \*   their pins and references
    filterRefs,                            \* references they hold on the filter
    pc, cPins, fetched, result,            \* their callers: what Next was asked
                                           \*   for, has found, and answered
    returned, skipped                      \* history: pins given since Reset,
                                           \*   was any passed over

filterVars == <<m_pinList, m_PinVersion, changes>>
placeVars  == <<m_Position, m_PinCount, m_Version, m_PinCache>>
callVars   == <<pc, cPins, fetched, result>>
pastVars   == <<returned, skipped>>
vars == <<filterVars, placeVars, m_cRef, filterRefs, callVars, pastVars>>

Init ==
    /\ m_pinList \in [1..InitialPins -> Pins] /\ IsInjective(m_pinList)
    /\ m_PinVersion = 1 /\ changes = 0 /\ filterRefs = 0
    /\ m_Position = [i \in Enumerators |-> 0] /\ m_PinCount = [i \in Enumerators |-> 0]
    /\ m_Version = [i \in Enumerators |-> 0] /\ m_cRef = [i \in Enumerators |-> 0]
    /\ m_PinCache = [i \in Enumerators |-> << >>]
    /\ pc = [i \in Enumerators |-> "idle"] /\ cPins = [i \in Enumerators |-> 0]
    /\ fetched = [i \in Enumerators |-> << >>] /\ result = [i \in Enumerators |-> None]
    /\ returned = [i \in Enumerators |-> << >>] /\ skipped = [i \in Enumerators |-> FALSE]

Idle(i) == pc[i] = "idle" /\ m_cRef[i] > 0
AreWeOutOfSync(i) == m_PinVersion # m_Version[i]
-----------------------------------------------------------------------------
\* The filter.

IncrementPinVersion ==
    m_PinVersion' = IF Notifies THEN m_PinVersion + 1 ELSE m_PinVersion

EnumeratorsUnchanged == <<placeVars, m_cRef, filterRefs, callVars, pastVars>>

AddPin(p) ==
    /\ changes < MaxVersion /\ changes' = changes + 1
    /\ p \notin Range(m_pinList) /\ \A i \in Enumerators : p \notin Range(m_PinCache[i])
    /\ m_pinList' = Append(m_pinList, p) /\ IncrementPinVersion
    /\ UNCHANGED EnumeratorsUnchanged

RemovePin(p) ==
    /\ changes < MaxVersion /\ changes' = changes + 1
    /\ \E k \in DOMAIN m_pinList : m_pinList[k] = p /\ m_pinList' = RemoveAt(m_pinList, k)
    /\ IncrementPinVersion
    /\ UNCHANGED EnumeratorsUnchanged
-----------------------------------------------------------------------------
\* Creation, Clone, AddRef and Release.

EnumPinsCall(i) ==
    /\ m_cRef[i] = 0
    /\ m_cRef' = [m_cRef EXCEPT ![i] = 1] /\ filterRefs' = filterRefs + 1
    /\ m_Position' = [m_Position EXCEPT ![i] = 0]
    /\ m_PinCount' = [m_PinCount EXCEPT ![i] = Len(m_pinList)]
    /\ m_Version' = [m_Version EXCEPT ![i] = m_PinVersion]
    /\ m_PinCache' = [m_PinCache EXCEPT ![i] = << >>]
    /\ returned' = [returned EXCEPT ![i] = << >>] /\ skipped' = [skipped EXCEPT ![i] = FALSE]
    /\ result' = [result EXCEPT ![i] = None]
    /\ UNCHANGED <<filterVars, pc, cPins, fetched>>

\* Fault: the clone does not know what its original has returned.
CloneForgets(i, j) ==
    /\ Idle(i) /\ m_cRef[j] = 0 /\ ~AreWeOutOfSync(i)
    /\ m_cRef' = [m_cRef EXCEPT ![j] = 1] /\ filterRefs' = filterRefs + 1
    /\ m_Position' = [m_Position EXCEPT ![j] = m_Position[i]]
    /\ m_PinCount' = [m_PinCount EXCEPT ![j] = m_PinCount[i]]
    /\ m_Version' = [m_Version EXCEPT ![j] = m_Version[i]]
    /\ m_PinCache' = [m_PinCache EXCEPT ![j] = << >>]
    /\ returned' = [returned EXCEPT ![j] = returned[i]]
    /\ skipped' = [skipped EXCEPT ![j] = skipped[i]]
    /\ result' = [result EXCEPT ![j] = None]
    /\ UNCHANGED <<filterVars, pc, cPins, fetched>>

\* A clone of an enumerator in step with the filter starts where that is.
Clone(i, j) ==
    /\ Idle(i) /\ m_cRef[j] = 0 /\ ~AreWeOutOfSync(i)
    /\ m_cRef' = [m_cRef EXCEPT ![j] = 1] /\ filterRefs' = filterRefs + 1
    /\ m_Position' = [m_Position EXCEPT ![j] = m_Position[i]]
    /\ m_PinCount' = [m_PinCount EXCEPT ![j] = m_PinCount[i]]
    /\ m_Version' = [m_Version EXCEPT ![j] = m_Version[i]]
    /\ m_PinCache' = [m_PinCache EXCEPT ![j] = m_PinCache[i]]
    /\ returned' = [returned EXCEPT ![j] = returned[i]]
    /\ skipped' = [skipped EXCEPT ![j] = skipped[i]]
    /\ result' = [result EXCEPT ![j] = None]
    /\ UNCHANGED <<filterVars, pc, cPins, fetched>>

AddRef(i) ==
    /\ Idle(i) /\ m_cRef[i] < 2
    /\ m_cRef' = [m_cRef EXCEPT ![i] = @ + 1]
    /\ UNCHANGED <<filterVars, placeVars, filterRefs, callVars, pastVars>>

\* Fault: the destructor is run with each reference.
ReleaseAlways(i) ==
    /\ Idle(i)
    /\ m_cRef' = [m_cRef EXCEPT ![i] = @ - 1] /\ filterRefs' = filterRefs - 1
    /\ UNCHANGED <<filterVars, placeVars, callVars, pastVars>>

Release(i) ==
    /\ Idle(i)
    /\ m_cRef' = [m_cRef EXCEPT ![i] = @ - 1]
    /\ filterRefs' = IF m_cRef[i] = 1 THEN filterRefs - 1 ELSE filterRefs
    /\ UNCHANGED <<filterVars, placeVars, callVars, pastVars>>
-----------------------------------------------------------------------------
\* Next, one pin of the filter at a time.

\* Refresh: an enumerator that is out of step starts over, but keeps its cache.
NextBegin(i, n) ==
    /\ Idle(i)
    /\ IF AreWeOutOfSync(i)
       THEN /\ m_Version' = [m_Version EXCEPT ![i] = m_PinVersion]
            /\ m_PinCount' = [m_PinCount EXCEPT ![i] = Len(m_pinList)]
            /\ m_Position' = [m_Position EXCEPT ![i] = 0]
            /\ skipped' = [skipped EXCEPT ![i] = FALSE]
       ELSE UNCHANGED <<m_Version, m_PinCount, m_Position, skipped>>
    /\ pc' = [pc EXCEPT ![i] = "next"] /\ cPins' = [cPins EXCEPT ![i] = n]
    /\ fetched' = [fetched EXCEPT ![i] = << >>] /\ result' = [result EXCEPT ![i] = None]
    /\ UNCHANGED <<filterVars, m_PinCache, m_cRef, filterRefs, returned>>

\* What the caller asked for and its array are the call's own.
Return(i) ==
    /\ pc' = [pc EXCEPT ![i] = "idle"]
    /\ cPins' = [cPins EXCEPT ![i] = 0] /\ fetched' = [fetched EXCEPT ![i] = << >>]

More(i) == Len(fetched[i]) < cPins[i] /\ m_PinCount[i] > m_Position[i]

\* A pin the filter has: returned, unless it was before.
NextPin(i) ==
    /\ pc[i] = "next" /\ More(i) /\ m_Position[i] < Len(m_pinList)
    /\ m_Position' = [m_Position EXCEPT ![i] = @ + 1]
    /\ LET pPin == m_pinList[m_Position[i] + 1] IN
       IF pPin \in Range(m_PinCache[i])
       THEN UNCHANGED <<fetched, m_PinCache, returned>>
       ELSE /\ fetched' = [fetched EXCEPT ![i] = Append(@, pPin)]
            /\ m_PinCache' = [m_PinCache EXCEPT ![i] = Append(@, pPin)]
            /\ returned' = [returned EXCEPT ![i] = Append(@, pPin)]
    /\ UNCHANGED <<filterVars, m_PinCount, m_Version, m_cRef, filterRefs, pc, cPins, result,
                   skipped>>

\* The filter has no pin there any more: what has been fetched stays referenced.
NextNull(i) ==
    /\ pc[i] = "next" /\ More(i) /\ m_Position[i] >= Len(m_pinList)
    /\ m_Position' = [m_Position EXCEPT ![i] = @ + 1]
    /\ result' = [result EXCEPT ![i] = "VFW_E_ENUM_OUT_OF_SYNC"]
    /\ Return(i)
    /\ UNCHANGED <<filterVars, m_PinCount, m_Version, m_PinCache, m_cRef, filterRefs,
                   pastVars>>

NextReturns(i) ==
    /\ pc[i] = "next" /\ ~More(i)
    /\ result' = [result EXCEPT ![i] = IF Len(fetched[i]) = cPins[i] THEN "NOERROR" ELSE "S_FALSE"]
    /\ Return(i)
    /\ UNCHANGED <<filterVars, placeVars, m_cRef, filterRefs, pastVars>>

\* Skip counts places, those of pins it has returned before a refresh too.
Skip(i, n) ==
    /\ Idle(i) /\ ~AreWeOutOfSync(i) /\ n <= m_PinCount[i] - m_Position[i]
    /\ m_Position' = [m_Position EXCEPT ![i] = @ + n]
    /\ skipped' = [skipped EXCEPT ![i] = TRUE] /\ result' = [result EXCEPT ![i] = None]
    /\ UNCHANGED <<filterVars, m_PinCount, m_Version, m_PinCache, m_cRef, filterRefs, pc, cPins,
                   fetched, returned>>

\* Fault: Reset leaves the cache.
ResetKeepsCache(i) ==
    /\ Idle(i)
    /\ m_Version' = [m_Version EXCEPT ![i] = m_PinVersion]
    /\ m_PinCount' = [m_PinCount EXCEPT ![i] = Len(m_pinList)]
    /\ m_Position' = [m_Position EXCEPT ![i] = 0]
    /\ returned' = [returned EXCEPT ![i] = << >>] /\ skipped' = [skipped EXCEPT ![i] = FALSE]
    /\ result' = [result EXCEPT ![i] = None]
    /\ UNCHANGED <<filterVars, m_PinCache, m_cRef, filterRefs, pc, cPins, fetched>>

Reset(i) ==
    /\ Idle(i)
    /\ m_Version' = [m_Version EXCEPT ![i] = m_PinVersion]
    /\ m_PinCount' = [m_PinCount EXCEPT ![i] = Len(m_pinList)]
    /\ m_Position' = [m_Position EXCEPT ![i] = 0]
    /\ m_PinCache' = [m_PinCache EXCEPT ![i] = << >>]
    /\ returned' = [returned EXCEPT ![i] = << >>] /\ skipped' = [skipped EXCEPT ![i] = FALSE]
    /\ result' = [result EXCEPT ![i] = None]
    /\ UNCHANGED <<filterVars, m_cRef, filterRefs, pc, cPins, fetched>>
-----------------------------------------------------------------------------
Filter == \E p \in Pins : AddPin(p) \/ RemovePin(p)

Enumerator(i) ==
    \/ EnumPinsCall(i) \/ AddRef(i) \/ Release(i) \/ Reset(i)
    \/ NextPin(i) \/ NextNull(i) \/ NextReturns(i)
    \/ \E n \in 1..2 : NextBegin(i, n) \/ Skip(i, n)
    \/ \E j \in Enumerators : Clone(i, j)

Next == Filter \/ \E i \in Enumerators : Enumerator(i)

Spec == Init /\ [][Next]_vars
-----------------------------------------------------------------------------
\* "We only want to return this pin, if it is not in our cache" (line 1133): no
\* pin is returned twice between two Resets, however often the filter changes
\* and the enumerator starts over, and the same through a clone.
NoPinTwice == \A i \in Enumerators : IsInjective(returned[i])

\* An enumerator that has come to the end and is in step with the filter has
\* returned every pin, unless its caller passed over some.
NothingMissed ==
    \A i \in Enumerators :
        result[i] = "S_FALSE" /\ m_cRef[i] > 0 /\ ~AreWeOutOfSync(i) /\ ~skipped[i] =>
            Range(m_pinList) \subseteq Range(returned[i])

\* The filter is referenced once by each enumerator there is (lines 992, 1016).
FilterReferenced ==
    filterRefs = Cardinality({i \in Enumerators : m_cRef[i] > 0})
=============================================================================
