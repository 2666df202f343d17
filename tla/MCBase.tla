------------------------------- MODULE MCBase -------------------------------
(***************************************************************************)
(* Instances for TLC of what the application's thread does with filters    *)
(* and pins: the two enumerators, a connection, and the state of a filter  *)
(* with its clock and its graph. They share no state here, so "part" says  *)
(* which one takes the steps of a behaviour and the others stay at rest:   *)
(* every behaviour of each is explored, and none of their products.        *)
(***************************************************************************)
EXTENDS FilterState, Sequences, FiniteSets

CONSTANTS FilterPins, Enumerators, InitialPins, MaxPinVersion,
          Notifies    \* does the filter call IncrementPinVersion

CONSTANTS MaxTypes, MaxTypeVersion, MaxSkip

CONSTANTS Types, InTypes, OutTypes, TryMine, MaxAllocators, MaxFailures, MaxConnects

ASSUME EnumeratorsAssumption ==
    /\ InitialPins \in Nat /\ IsFiniteSet(Enumerators)
    /\ MaxTypes \in Nat /\ MaxSkip \in Nat

ASSUME ConnectionAssumption ==
    /\ Types # {} /\ InTypes \in Seq(Types) /\ OutTypes \in Seq(Types)
    /\ MaxAllocators \in Nat

MCInTypes == <<"b">>

MCOutTypes == <<"a">>

VARIABLE part    \* the component that takes the steps

VARIABLES m_pinList, m_PinVersion, changes, m_pinsPosition, m_PinCount, m_pinsVersion,
          m_PinCache, m_cRef, filterRefs, pinsPc, cPins, fetched, pinsResult, returned,
          skipped
EnumPins == INSTANCE EnumPins WITH
      Pins <- FilterPins, MaxVersion <- MaxPinVersion, m_Position <- m_pinsPosition,
      m_Version <- m_pinsVersion, pc <- pinsPc, result <- pinsResult
EnumPinsvars == <<m_pinList, m_PinVersion, changes, m_pinsPosition, m_PinCount,
                  m_pinsVersion, m_PinCache, m_cRef, filterRefs, pinsPc, cPins,
                  fetched, pinsResult, returned, skipped>>

VARIABLES types, m_TypeVersion, m_typesPosition, m_typesVersion, typesPc, left, got,
          typesResult, given
EnumTypes == INSTANCE EnumMediaTypes WITH
      MaxVersion <- MaxTypeVersion, m_Position <- m_typesPosition,
      m_Version <- m_typesVersion, pc <- typesPc, result <- typesResult
EnumTypesvars == <<types, m_TypeVersion, m_typesPosition, m_typesVersion, typesPc,
                   left, got, typesResult, given>>

VARIABLES accepts, stopped, m_Connected, m_mt, m_pAllocator, m_pInputPin, refs,
          committed, created, connPc, candidates, wish, connResult, failures, connects,
          before, mishaps
Connection == INSTANCE PinConnection WITH
      pc <- connPc, result <- connResult
Connectionvars == <<accepts, stopped, m_Connected, m_mt, m_pAllocator, m_pInputPin,
                    refs, committed, created, connPc, candidates, wish, connResult,
                    failures, connects, before, mishaps>>

Filtervars == vars

components == <<EnumPinsvars, EnumTypesvars, Connectionvars, Filtervars>>

Parts == {"EnumPins", "EnumTypes", "Connection", "Filter"}

\* A part that takes no steps has one initial state.
MCInit ==
    /\ part \in Parts
    /\ EnumPins!Init
    /\ part = "EnumPins" \/ m_pinList = 
           CHOOSE l \in [1..InitialPins -> FilterPins] : EnumPins!IsInjective(l)
    /\ EnumTypes!Init
    /\ part = "EnumTypes" \/ types = 0
    /\ Connection!Init
    /\ part = "Connection" \/ accepts = [p \in {"in", "out"} |-> Types]
    /\ Init
    /\ part = "Filter" \/ connected = [p \in Pins |-> TRUE]

MCNext ==
    /\ UNCHANGED part
    /\ IF part = "EnumPins" THEN EnumPins!Next ELSE UNCHANGED EnumPinsvars
    /\ IF part = "EnumTypes" THEN EnumTypes!Next ELSE UNCHANGED EnumTypesvars
    /\ IF part = "Connection" THEN Connection!Next ELSE UNCHANGED Connectionvars
    /\ IF part = "Filter" THEN Next ELSE UNCHANGED Filtervars

MCSpec == MCInit /\ [][MCNext]_<<part, components>>
-----------------------------------------------------------------------------
\* Enumerators give out every pin and every type once, in order, also when the
\* filter or the pin changes its list between two calls or within one, and each
\* holds one reference on the filter (amfilter.cpp lines 960 to 1240 and 1270 to
\* 1480).
EnumeratedOnce ==
    CASE part = "EnumPins" ->
             EnumPins!NoPinTwice /\ EnumPins!NothingMissed /\ EnumPins!FilterReferenced
      [] part = "EnumTypes" -> EnumTypes!InOrder /\ EnumTypes!EndIsEnd
      [] OTHER -> TRUE

\* A connection leaves both pins with one type and one allocator, which each of
\* them references and which is committed only while they are active; one that
\* fails leaves nothing behind, unless the input pin's filter became active or it was
\* disconnected in the middle of the call, and a type that would do is found
\* (amfilter.cpp lines 1662 to 2180 and 2440 to 2780).
ConnectionAgreed ==
    part = "Connection" =>
        /\ Connection!Agreed /\ Connection!TypeFound /\ Connection!NothingLeft
        /\ Connection!CommittedWhileActive /\ Connection!AllocatorReferenced

\* An enumerator that comes to the end has given out every pin (amfilter.cpp lines
\* 857 to 859), also those of a filter that adds pins as the sink does.
NothingMissed == EnumPins!NothingMissed
=============================================================================
