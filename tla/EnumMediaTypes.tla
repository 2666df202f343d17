--------------------------- MODULE EnumMediaTypes ---------------------------
(***************************************************************************)
(* CEnumMediaTypes: an enumerator over the types a pin prefers, a list     *)
(* that the pin may change at any time (IncrementTypeVersion).  The        *)
(* enumerator asks for one type at a time and compares versions only at    *)
(* the start of a call.                                                    *)
(***************************************************************************)
EXTENDS Integers, SequencesExt

CONSTANTS MaxTypes,    \* the longest list of a pin
          MaxVersion,  \* bound: how often it changes
          MaxSkip      \* bound: the place a caller skips to

VARIABLES
    types, m_TypeVersion,        \* the pin: the number of its types, their version
    m_Position, m_Version,       \* the enumerator
    pc, left, got, result,       \* its caller: how many types are still wanted,
                                 \*   those it has got, the answer
    given                        \* history: what was given out since the last Reset,
                                 \*   and where the caller has skipped

pinVars  == <<types, m_TypeVersion>>
callVars == <<pc, left, got, result>>
vars == <<pinVars, m_Position, m_Version, callVars, given>>

Type(i) == [version |-> m_TypeVersion, place |-> i]

Init ==
    /\ types \in 0..MaxTypes /\ m_TypeVersion = 1
    /\ m_Position = 0 /\ m_Version = m_TypeVersion
    /\ pc = "idle" /\ left = 0 /\ got = << >> /\ result = "none"
    /\ given = << >>

AreWeOutOfSync == m_TypeVersion # m_Version

\* The pin's GetMediaType answers S_OK for the places it has.
GetMediaType(i) == i < types
-----------------------------------------------------------------------------
\* The pin changes its list of types.
IncrementTypeVersion ==
    /\ m_TypeVersion < MaxVersion
    /\ m_TypeVersion' = m_TypeVersion + 1 /\ types' \in 0..MaxTypes
    /\ UNCHANGED <<m_Position, m_Version, callVars, given>>

NextBegin(n) ==
    /\ pc = "idle"
    /\ IF AreWeOutOfSync
       THEN result' = "VFW_E_ENUM_OUT_OF_SYNC" /\ got' = << >> /\ UNCHANGED <<pc, left>>
       ELSE pc' = "next" /\ left' = n /\ got' = << >> /\ result' = "none"
    /\ UNCHANGED <<pinVars, m_Position, m_Version, given>>

\* Fault: the place moves on only behind the last type of a call.
NextTypeInPlace ==
    /\ pc = "next" /\ left > 0 /\ GetMediaType(m_Position)
    /\ m_Position' = IF left = 1 THEN m_Position + 1 ELSE m_Position
    /\ got' = Append(got, Type(m_Position)) /\ given' = Append(given, Type(m_Position))
    /\ left' = left - 1
    /\ UNCHANGED <<pinVars, m_Version, pc, result>>

NextType ==
    /\ pc = "next" /\ left > 0 /\ GetMediaType(m_Position)
    /\ m_Position' = m_Position + 1
    /\ got' = Append(got, Type(m_Position)) /\ given' = Append(given, Type(m_Position))
    /\ left' = left - 1
    /\ UNCHANGED <<pinVars, m_Version, pc, result>>

\* The place moves on also when the pin has no type for it.
NextReturns ==
    /\ pc = "next" /\ (left = 0 \/ ~GetMediaType(m_Position))
    /\ m_Position' = (IF left = 0 THEN m_Position ELSE m_Position + 1)
    /\ m_Position <= MaxSkip
    /\ result' = IF left = 0 THEN "NOERROR" ELSE "S_FALSE"
    /\ pc' = "idle"
    /\ UNCHANGED <<pinVars, m_Version, left, got, given>>

\* Fault: Skip looks for the type behind those it has passed.
SkipLooksFurther(n) ==
    /\ pc = "idle" /\ m_Position + n <= MaxSkip
    /\ got' = << >>
    /\ IF AreWeOutOfSync
       THEN result' = "VFW_E_ENUM_OUT_OF_SYNC" /\ UNCHANGED <<m_Position, given>>
       ELSE /\ m_Position' = m_Position + n
            /\ given' = given \o [k \in 1..n |-> Type(m_Position + k - 1)]
            /\ result' = IF GetMediaType(m_Position') THEN "skipped" ELSE "skippedPast"
    /\ UNCHANGED <<pinVars, m_Version, pc, left>>

\* Skip moves on in any case and answers if there were so many.
Skip(n) ==
    /\ pc = "idle" /\ m_Position + n <= MaxSkip
    /\ got' = << >>
    /\ IF AreWeOutOfSync
       THEN result' = "VFW_E_ENUM_OUT_OF_SYNC" /\ UNCHANGED <<m_Position, given>>
       ELSE /\ m_Position' = m_Position + n
            /\ given' = given \o [k \in 1..n |-> Type(m_Position + k - 1)]
            /\ result' = IF GetMediaType(m_Position' - 1) THEN "skipped" ELSE "skippedPast"
    /\ UNCHANGED <<pinVars, m_Version, pc, left>>

Reset ==
    /\ pc = "idle"
    /\ m_Position' = 0 /\ m_Version' = m_TypeVersion
    /\ got' = << >> /\ given' = << >> /\ result' = "none"
    /\ UNCHANGED <<pinVars, pc, left>>
-----------------------------------------------------------------------------
Next == \/ IncrementTypeVersion \/ NextType \/ NextReturns \/ Reset
        \/ \E n \in 1..2 : NextBegin(n) \/ Skip(n)

Spec == Init /\ [][Next]_vars
-----------------------------------------------------------------------------
\* Between two Resets no place is given out or skipped twice, and they come in
\* order.
InOrder == \A j, k \in DOMAIN given : j < k => given[j].place < given[k].place

\* "The actual count always correctly reflects the number of types" (line
\* 1341), and who is told S_FALSE has been given every type there was to give,
\* though the list may have changed during the call.
EndIsEnd ==
    /\ result = "NOERROR" => left = 0 /\ got # << >>
    /\ result = "S_FALSE" /\ ~AreWeOutOfSync =>
          \A i \in 0..types - 1 : Type(i) \in Range(given)
    /\ result = "skipped" /\ ~AreWeOutOfSync => m_Position <= types
    /\ result = "skippedPast" /\ ~AreWeOutOfSync => m_Position > types
=============================================================================
