------------------------------- MODULE Seeking -------------------------------
(***************************************************************************)
(* Seeking, from both ends: CPosPassThru and CRendererPosPassThru in a     *)
(* renderer pass calls on to the filter the pin is connected to, and       *)
(* CSourceSeeking answers them in a source.                                *)
(*                                                                         *)
(* Several threads of the application call the renderer.  The source's     *)
(* lock is held while the positions are changed and not while the derived  *)
(* class is told (ChangeStart, ChangeStop, ChangeRate), which takes the    *)
(* new values over for its worker, or fails.  Graph edits may disconnect   *)
(* the renderer at any time.                                               *)
(***************************************************************************)
EXTENDS Integers

CONSTANTS Callers,       \* the application's threads
          MaxPosition    \* bound: positions run from 0 to MaxPosition

VARIABLES
    m_rtStart, m_rtStop, m_dRateSeeking,   \* CSourceSeeking
    worker,                                \* what the source's worker goes by
    sourceRefs, sourceLives,               \* references on the source held by calls
    connected,                             \* the renderer's pin
    m_StartMedia, m_bReset,                \* CRendererPosPassThru
    pc, hooks,                             \* per caller: what is still to be told
    pcEOS, llStop,                         \* EOS, on the renderer's thread
    reported, failed                       \* observed

source   == <<m_rtStart, m_rtStop, m_dRateSeeking, worker>>
graph    == <<sourceRefs, sourceLives, connected>>
renderer == <<m_StartMedia, m_bReset, reported>>
calls    == <<pc, hooks>>
eos      == <<pcEOS, llStop>>
vars == <<source, graph, renderer, calls, eos, failed>>

Positions == 0..MaxPosition
Nothing == -1

Init ==
    /\ m_rtStart = 0 /\ m_rtStop = MaxPosition /\ m_dRateSeeking = 1
    /\ worker = [start |-> 0, stop |-> MaxPosition, rate |-> 1]
    /\ sourceRefs = 0 /\ sourceLives = TRUE /\ connected = TRUE
    /\ m_StartMedia = 0 /\ m_bReset = TRUE /\ reported = Nothing
    /\ pc = [c \in Callers |-> "idle"] /\ hooks = [c \in Callers |-> {}]
    /\ pcEOS = "out" /\ llStop = 0 /\ failed = FALSE
-----------------------------------------------------------------------------
\* CPosPassThru: every call asks the connected pin for its interface, calls it and
\* releases it.  Without a connection it answers E_NOTIMPL.  ConnectedTo reads
\* m_Connected,
GetPeerSeeking(c) ==
    /\ pc[c] = "idle" /\ connected /\ pc' = [pc EXCEPT ![c] = "read"]
    /\ UNCHANGED <<source, graph, renderer, hooks, eos, failed>>

\* Fault: the source is not referenced.
ReferenceNothing(c) ==
    /\ pc[c] = "read" /\ sourceLives /\ pc' = [pc EXCEPT ![c] = "peer"]
    /\ UNCHANGED <<source, graph, renderer, hooks, eos, failed>>

\* and references it, without a lock: "It's pointless to lock here. The caller should
\* ensure integrity" (line 2191).
ReferencePeer(c) ==
    /\ pc[c] = "read" /\ sourceLives
    /\ pc' = [pc EXCEPT ![c] = "peer"] /\ sourceRefs' = sourceRefs + 1
    /\ UNCHANGED <<source, renderer, hooks, eos, failed, connected, sourceLives>>

\* Where the caller did not, the pin may be gone by then; what a call through it does
\* is left out.
PeerIsGone(c) ==
    /\ pc[c] = "read" /\ ~sourceLives /\ pc' = [pc EXCEPT ![c] = "idle"]
    /\ UNCHANGED <<source, graph, renderer, hooks, eos, failed>>

Return(c) ==
    /\ pc' = [pc EXCEPT ![c] = "idle"] /\ sourceRefs' = sourceRefs - 1
    /\ UNCHANGED <<connected, sourceLives>>

\* Any call that only asks - capabilities, formats, duration, rate, preroll - and
\* one with flags that are no positioning, which changes nothing.
Ask(c) ==
    /\ pc[c] = "peer" /\ Return(c)
    /\ UNCHANGED <<source, renderer, hooks, eos, failed>>

\* SetRate and put_Rate: a rate of 0 does not get here.
SetRate(c) ==
    /\ pc[c] = "peer" /\ \E rate \in 1..2 : m_dRateSeeking' = rate
    /\ pc' = [pc EXCEPT ![c] = "change"] /\ hooks' = [hooks EXCEPT ![c] = {"rate"}]
    /\ UNCHANGED <<m_rtStart, m_rtStop, worker, graph, renderer, eos, failed>>

\* What the flags make of a position; none leaves it as it is.
NewStart(flag, pCurrent) ==
    CASE flag = "Absolute" -> pCurrent
      [] flag = "Relative" -> m_rtStart + pCurrent
      [] OTHER             -> m_rtStart

NewStop(flag, pStop, start) ==
    CASE flag = "Absolute"    -> pStop
      [] flag = "Incremental" -> start + pStop
      [] flag = "Relative"    -> m_rtStop + pStop
      [] OTHER                -> m_rtStop

\* Fault: the start is only told when the stop was not.
OneHook(startFlag, stopFlag) ==
    IF stopFlag # "No" THEN {"stop"} ELSE IF startFlag # "No" THEN {"start"} ELSE {}

Hooks(startFlag, stopFlag) ==
    (IF stopFlag # "No" THEN {"stop"} ELSE {}) \cup (IF startFlag # "No" THEN {"start"} ELSE {})

\* SetPositions: start first, then stop, under the lock.
SetPositions(c, startFlag, pCurrent, stopFlag, pStop) ==
    /\ pc[c] = "peer"
    /\ m_rtStart' = NewStart(startFlag, pCurrent)
    /\ m_rtStop' = NewStop(stopFlag, pStop, m_rtStart')
    /\ m_rtStart' <= MaxPosition /\ m_rtStop' <= MaxPosition
    /\ pc' = [pc EXCEPT ![c] = "change"]
    /\ hooks' = [hooks EXCEPT ![c] = Hooks(startFlag, stopFlag)]
    /\ UNCHANGED <<m_dRateSeeking, worker, graph, renderer, eos, failed>>

\* The methods of IMediaPosition set one of them, or only ask.
PutCurrentPosition(c, llTime) == SetPositions(c, "Absolute", llTime, "No", 0)
PutStopTime(c, llTime) == SetPositions(c, "No", 0, "Absolute", llTime)
PositionCall(c) == \E llTime \in Positions : PutCurrentPosition(c, llTime) \/ PutStopTime(c, llTime)

\* ChangeStop, then ChangeStart, or ChangeRate, without the lock.
NextHook(c) == IF "stop" \in hooks[c] THEN "stop" ELSE CHOOSE h \in hooks[c] : TRUE

Stored == [start |-> m_rtStart, stop |-> m_rtStop, rate |-> m_dRateSeeking]

Change(c) ==
    /\ pc[c] = "change" /\ hooks[c] # {}
    /\ hooks' = [hooks EXCEPT ![c] = @ \ {NextHook(c)}]
    /\ \/ worker' = [worker EXCEPT ![NextHook(c)] = Stored[NextHook(c)]] /\ UNCHANGED failed
       \/ failed' = TRUE /\ UNCHANGED worker
    /\ UNCHANGED <<m_rtStart, m_rtStop, m_dRateSeeking, graph, renderer, pc, eos>>

Changed(c) ==
    /\ pc[c] = "change" /\ hooks[c] = {} /\ Return(c)
    /\ UNCHANGED <<source, renderer, hooks, eos, failed>>
-----------------------------------------------------------------------------
\* CRendererPosPassThru: the streaming thread registers the time of each sample; a
\* flush or Inactive resets it.
RegisterMediaTime ==
    /\ pcEOS = "out"
    /\ \E t \in Positions : m_StartMedia' = t /\ reported' = t
    /\ m_bReset' = FALSE
    /\ UNCHANGED <<source, graph, calls, eos, failed>>

\* Fault: the time stays valid.
ResetKeepsTime ==
    /\ m_StartMedia' = 0 /\ reported' = Nothing /\ UNCHANGED m_bReset
    /\ UNCHANGED <<source, graph, calls, eos, failed>>

ResetMediaTime ==
    /\ m_StartMedia' = 0 /\ m_bReset' = TRUE /\ reported' = Nothing
    /\ UNCHANGED <<source, graph, calls, eos, failed>>

\* GetMediaTime converts from media time to the source's format, which is the same;
\* the source is asked even so.
ConvertTimeFormat(t) == IF connected THEN t ELSE Nothing
MediaTime == IF m_bReset THEN Nothing ELSE ConvertTimeFormat(m_StartMedia)

\* GetCurrentPosition: without a time the peer is asked, and a source does not know.
CurrentPosition == IF MediaTime # Nothing THEN MediaTime ELSE Nothing

\* EOS asks for the stop position without m_PositionLock, as any call asks the peer,
\* and writes it as the position under it; nothing when there is no time or no peer.
EOS ==
    /\ pcEOS = "out" /\ ~m_bReset /\ connected /\ pcEOS' = "read"
    /\ UNCHANGED <<source, graph, renderer, calls, llStop, failed>>

ReferenceStop ==
    /\ pcEOS = "read"
    /\ IF sourceLives THEN pcEOS' = "stop" /\ sourceRefs' = sourceRefs + 1
       ELSE pcEOS' = "out" /\ UNCHANGED sourceRefs
    /\ UNCHANGED <<source, renderer, calls, llStop, failed, connected, sourceLives>>

GetStopPosition ==
    /\ pcEOS = "stop" /\ llStop' = m_rtStop /\ pcEOS' = "write"
    /\ sourceRefs' = sourceRefs - 1
    /\ UNCHANGED <<source, renderer, calls, failed, connected, sourceLives>>

WriteStop ==
    /\ pcEOS = "write" /\ pcEOS' = "out" /\ llStop' = 0
    /\ m_StartMedia' = llStop /\ reported' = (IF reported = Nothing THEN Nothing ELSE llStop)
    /\ UNCHANGED <<source, graph, calls, m_bReset, failed>>
-----------------------------------------------------------------------------
\* The graph: the renderer is disconnected, and the source deleted once nobody
\* holds it.
Disconnect ==
    /\ connected /\ connected' = FALSE
    /\ UNCHANGED <<source, renderer, calls, eos, failed, sourceRefs, sourceLives>>

DeleteSource ==
    /\ ~connected /\ sourceRefs = 0 /\ sourceLives /\ sourceLives' = FALSE
    /\ UNCHANGED <<source, renderer, calls, eos, failed, sourceRefs, connected>>

Flags == {"No", "Absolute", "Relative", "Incremental"}
Given(flag) == IF flag = "No" THEN {0} ELSE Positions    \* else it is not looked at

Call(c) ==
    \/ GetPeerSeeking(c) \/ ReferencePeer(c) \/ PeerIsGone(c)
    \/ Ask(c) \/ SetRate(c) \/ PositionCall(c) \/ Change(c) \/ Changed(c)
    \/ \E startFlag \in Flags \ {"Incremental"}, stopFlag \in Flags :
          \E a \in Given(startFlag), b \in Given(stopFlag) :
             SetPositions(c, startFlag, a, stopFlag, b)

Next == \/ \E c \in Callers : Call(c)
        \/ RegisterMediaTime \/ ResetMediaTime
        \/ EOS \/ ReferenceStop \/ GetStopPosition \/ WriteStop
        \/ Disconnect \/ DeleteSource

Spec == Init /\ [][Next]_vars
-----------------------------------------------------------------------------
\* When no call is under way and no hook has failed, the source's worker goes by
\* the positions and the rate that are stored, though two threads may have told it
\* in either order (ctlutil.cpp lines 1221 to 1286 and 1314 to 1321).
WorkerFollows ==
    (\A c \in Callers : pc[c] # "change") /\ ~failed => worker = Stored

\* The source lives while a call that references it uses it, whatever the graph does
\* meanwhile, and one that is about to reference it finds it unless it was
\* disconnected after the call looked (ctlutil.cpp lines 537 to 556, amfilter.cpp
\* lines 2184 to 2205).
PeerLives ==
    /\ (\E c \in Callers : pc[c] \in {"peer", "change"}) \/ pcEOS = "stop" => sourceLives
    /\ (\E c \in Callers : pc[c] = "read") \/ pcEOS = "read" => sourceLives \/ ~connected

\* The position reported is the time of the last sample since the reset, or the
\* stop position EOS was given (ctlutil.cpp lines 997 to 1089).
PositionOfSample == CurrentPosition \in {reported, Nothing}
==============================================================================
