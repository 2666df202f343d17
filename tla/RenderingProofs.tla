-------------------------- MODULE RenderingProofs --------------------------
(***************************************************************************)
(* What a renderer consists of besides its threads, part after part, for   *)
(* every value of the constants: times and positions that are any numbers, *)
(* any number of callers that seek, any formats, sizes and rectangles, and *)
(* frames that are late or early by any measure.                           *)
(*                                                                         *)
(* Every part has an invariant that its steps keep (...Step), that it      *)
(* begins with (...Init) and that implies what the run asks of it          *)
(* (...Safe).  As the parts share no state, the instances have all of the  *)
(* invariants, and the last theorems are those of the run's properties.    *)
(***************************************************************************)
EXTENDS MCRendering, Sequences, FiniteSetTheorems, WellFoundedInduction, TLAPS

\* Seeking.

\* The callers that hold a reference on the source.
Calling == {c \in Callers : seekPc[c] \in {"peer", "change"}}

\* What callers have under way, and times in their range.
SeekTypes ==
    /\ seekPc \in [Callers -> {"idle", "read", "peer", "change"}]
    /\ hooks \in [Callers -> SUBSET {"start", "stop", "rate"}]
    /\ worker \in [start : Int, stop : Int, rate : Int]
    /\ {m_rtStart, m_rtStop} \subseteq Nat /\ m_dRateSeeking \in Int /\ sourceRefs \in Int

\* Every call and every EOS holds one reference, and the source is not deleted before.
Referenced ==
    /\ sourceRefs = Cardinality(Calling) + IF pcEOS = "stop" THEN 1 ELSE 0
    /\ seekConnected \/ sourceRefs > 0 => sourceLives

\* What the worker does not go by yet, somebody is about to tell it.
Told ==
    failed \/ \A h \in {"start", "stop", "rate"} :
        \/ worker[h] = Seeking!Stored[h]
        \/ \E c \in Callers : seekPc[c] = "change" /\ h \in hooks[c]

\* A time that is valid is what was reported.
Reported ==
    /\ llStop \in Nat /\ m_StartMedia \in Nat
    /\ m_bReset \/ (reported = m_StartMedia /\ reported # Seeking!Nothing)

\* Together inductive: who tells the worker is counted in the references, and a caller
\* that is counted is one that will tell.
SeekingInv == SeekTypes /\ Referenced /\ Told /\ Reported

\* The types.
LEMMA SeekTypesStep == SeekTypes /\ [Seeking!Next]_Seekingvars => SeekTypes'
<1> SUFFICES ASSUME SeekTypes, [Seeking!Next]_Seekingvars PROVE SeekTypes'
  OBVIOUS
<1> USE SeekingAssumption
    DEF SeekTypes, Seeking!source, Seeking!graph, Seeking!calls
<1>1. ASSUME NEW c \in Callers,
             \/ Seeking!GetPeerSeeking(c) \/ Seeking!ReferencePeer(c) \/ Seeking!PeerIsGone(c)
             \/ Seeking!Ask(c) \/ Seeking!Changed(c)
      PROVE  SeekTypes'
  BY <1>1 DEF Seeking!GetPeerSeeking, Seeking!ReferencePeer, Seeking!PeerIsGone, Seeking!Ask,
     Seeking!Changed, Seeking!Return
<1>2. ASSUME NEW c \in Callers, Seeking!SetRate(c) PROVE SeekTypes'
  BY <1>2 DEF Seeking!SetRate
<1>3. ASSUME NEW c \in Callers, NEW startFlag, NEW a \in Nat, NEW stopFlag, NEW b \in Nat,
             Seeking!SetPositions(c, startFlag, a, stopFlag, b)
      PROVE  SeekTypes'
  <2>1. m_rtStart' \in Nat
    BY <1>3 DEF Seeking!SetPositions, Seeking!NewStart
  <2>2. m_rtStop' \in Nat
    BY <1>3, <2>1 DEF Seeking!SetPositions, Seeking!NewStop
  <2>3. Seeking!Hooks(startFlag, stopFlag) \subseteq {"start", "stop", "rate"}
    BY DEF Seeking!Hooks
  <2>4. QED
    BY <1>3, <2>1, <2>2, <2>3 DEF Seeking!SetPositions
<1>4. ASSUME NEW c \in Callers, Seeking!PositionCall(c) PROVE SeekTypes'
  BY <1>3, <1>4
     DEF Seeking!PositionCall, Seeking!PutCurrentPosition, Seeking!PutStopTime, Seeking!Positions
<1>5. ASSUME NEW c \in Callers, Seeking!Change(c) PROVE SeekTypes'
  <2>1. Seeking!NextHook(c) \in hooks[c]
    BY <1>5 DEF Seeking!NextHook, Seeking!Change
  <2>2. Seeking!NextHook(c) \in {"start", "stop", "rate"}
    BY <2>1
  <2>3. hooks' \in [Callers -> SUBSET {"start", "stop", "rate"}]
    BY <1>5 DEF Seeking!Change
  <2>4. worker' \in [start : Int, stop : Int, rate : Int]
    BY <1>5, <2>2 DEF Seeking!Change, Seeking!Stored
  <2>5. QED
    BY <1>5, <2>3, <2>4 DEF Seeking!Change
<1>6. ASSUME NEW startFlag, NEW a \in Seeking!Given(startFlag) PROVE a \in Nat
  BY <1>6 DEF Seeking!Given, Seeking!Positions
<1>7. ASSUME NEW c \in Callers, Seeking!Call(c) PROVE SeekTypes'
  BY <1>1, <1>2, <1>3, <1>4, <1>5, <1>6, <1>7 DEF Seeking!Call
<1>8. CASE Seeking!RegisterMediaTime \/ Seeking!ResetMediaTime \/ Seeking!WriteStop
  BY <1>8 DEF Seeking!RegisterMediaTime, Seeking!ResetMediaTime, Seeking!WriteStop
<1>9. CASE Seeking!EOS \/ Seeking!ReferenceStop \/ Seeking!GetStopPosition
           \/ Seeking!Disconnect \/ Seeking!DeleteSource
  BY <1>9 DEF Seeking!EOS, Seeking!ReferenceStop, Seeking!GetStopPosition, Seeking!Disconnect,
     Seeking!DeleteSource
<1>10. CASE UNCHANGED Seekingvars
  BY <1>10 DEF Seekingvars
<1>11. QED
  BY <1>7, <1>8, <1>9, <1>10 DEF Seeking!Next

\* The position that was reported.
LEMMA ReportedStep ==
    SeekTypes /\ Reported /\ [Seeking!Next]_Seekingvars => Reported'
<1> SUFFICES ASSUME SeekTypes, Reported, [Seeking!Next]_Seekingvars PROVE Reported'
  OBVIOUS
<1> USE SeekingAssumption
    DEF Reported, Seeking!renderer, Seeking!eos, Seeking!Positions, Seeking!Nothing
<1>1. CASE UNCHANGED <<llStop, m_StartMedia, m_bReset, reported>>
  BY <1>1
<1>2. ASSUME NEW c \in Callers, Seeking!Call(c) PROVE Reported'
  BY <1>1, <1>2 DEF Seeking!Call, Seeking!GetPeerSeeking, Seeking!ReferencePeer,
     Seeking!PeerIsGone, Seeking!Ask, Seeking!SetRate,
     Seeking!PositionCall, Seeking!PutCurrentPosition, Seeking!PutStopTime, Seeking!SetPositions,
     Seeking!Change, Seeking!Changed
<1>3. CASE Seeking!RegisterMediaTime
  BY <1>3 DEF Seeking!RegisterMediaTime
<1>4. CASE Seeking!ResetMediaTime
  BY <1>4 DEF Seeking!ResetMediaTime
<1>5. CASE Seeking!WriteStop
  BY <1>5 DEF Seeking!WriteStop
<1>6. CASE Seeking!GetStopPosition
  BY <1>6 DEF Seeking!GetStopPosition, SeekTypes
<1>7. CASE Seeking!EOS \/ Seeking!ReferenceStop \/ Seeking!Disconnect
           \/ Seeking!DeleteSource \/ UNCHANGED Seekingvars
  BY <1>1, <1>7 DEF Seeking!EOS, Seeking!ReferenceStop, Seeking!Disconnect, Seeking!DeleteSource, Seekingvars
<1>8. QED
  BY <1>2, <1>3, <1>4, <1>5, <1>6, <1>7 DEF Seeking!Next

\* Whoever stores a time calls the hook of it afterwards; a hook that fails has told all
\* the same.
LEMMA ToldStep == SeekTypes /\ Told /\ [Seeking!Next]_Seekingvars => Told'
<1> SUFFICES ASSUME SeekTypes, Told, [Seeking!Next]_Seekingvars PROVE Told'
  OBVIOUS
<1> USE DEF Told, Seeking!source, Seeking!calls, Seeking!Stored
<1>1. ASSUME UNCHANGED <<worker, m_rtStart, m_rtStop, m_dRateSeeking, failed>>,
             \A d \in Callers : seekPc[d] = "change" /\ hooks[d] # {} =>
                 seekPc'[d] = "change" /\ hooks'[d] = hooks[d]
      PROVE  Told'
  BY <1>1
<1>2. ASSUME NEW c \in Callers,
             \/ Seeking!GetPeerSeeking(c) \/ Seeking!ReferencePeer(c) \/ Seeking!PeerIsGone(c)
             \/ Seeking!Ask(c) \/ Seeking!Changed(c)
      PROVE  Told'
  BY <1>1, <1>2 DEF Seeking!GetPeerSeeking, Seeking!ReferencePeer, Seeking!PeerIsGone,
     Seeking!Ask, Seeking!Changed, Seeking!Return, SeekTypes
<1>3. ASSUME NEW c \in Callers, seekPc[c] = "peer", NEW given, 
             seekPc' = [seekPc EXCEPT ![c] = "change"], hooks' = [hooks EXCEPT ![c] = given],
             UNCHANGED <<worker, failed>>,
             m_rtStart' = m_rtStart \/ "start" \in given,
             m_rtStop' = m_rtStop \/ "stop" \in given,
             m_dRateSeeking' = m_dRateSeeking \/ "rate" \in given
      PROVE  Told'
  <2>1. seekPc'[c] = "change" /\ hooks'[c] = given
    BY <1>3 DEF SeekTypes
  <2>2. \A d \in Callers : seekPc[d] = "change" => seekPc'[d] = "change" /\ hooks'[d] = hooks[d]
    BY <1>3 DEF SeekTypes
  <2>3. QED
    BY <1>3, <2>1, <2>2
<1>4. ASSUME NEW c \in Callers, Seeking!SetRate(c) PROVE Told'
  BY <1>3, <1>4 DEF Seeking!SetRate
<1>5. ASSUME NEW c \in Callers, NEW startFlag \in Seeking!Flags, NEW a,
             NEW stopFlag \in Seeking!Flags, NEW b,
             Seeking!SetPositions(c, startFlag, a, stopFlag, b)
      PROVE  Told'
  <2> DEFINE given == Seeking!Hooks(startFlag, stopFlag)
  <2>1. m_rtStart' = m_rtStart \/ "start" \in given
    BY <1>5 DEF Seeking!SetPositions, Seeking!NewStart, Seeking!Hooks, Seeking!Flags
  <2>2. m_rtStop' = m_rtStop \/ "stop" \in given
    BY <1>5 DEF Seeking!SetPositions, Seeking!NewStop, Seeking!Hooks, Seeking!Flags
  <2> HIDE DEF given
  <2>3. seekPc[c] = "peer" /\ seekPc' = [seekPc EXCEPT ![c] = "change"]
        /\ hooks' = [hooks EXCEPT ![c] = given] /\ UNCHANGED <<worker, failed, m_dRateSeeking>>
    BY <1>5 DEF Seeking!SetPositions, given
  <2>4. QED
    BY <1>3, <2>1, <2>2, <2>3
<1>6. ASSUME NEW c \in Callers, Seeking!PositionCall(c) PROVE Told'
  BY <1>5, <1>6
     DEF Seeking!PositionCall, Seeking!PutCurrentPosition, Seeking!PutStopTime, Seeking!Flags
<1>7. ASSUME NEW c \in Callers, Seeking!Change(c) PROVE Told'
  <2> DEFINE h == Seeking!NextHook(c)
  <2>1. h \in hooks[c] /\ seekPc[c] = "change"
    BY <1>7 DEF Seeking!NextHook, Seeking!Change
  <2>2. h \in {"start", "stop", "rate"}
    BY <2>1 DEF SeekTypes
  <2>3. /\ hooks' = [hooks EXCEPT ![c] = @ \ {h}]
        /\ UNCHANGED <<m_rtStart, m_rtStop, m_dRateSeeking, seekPc>>
        /\ \/ worker' = [worker EXCEPT ![h] = Seeking!Stored[h]] /\ UNCHANGED failed
           \/ failed'
    BY <1>7 DEF Seeking!Change
  <2> HIDE DEF h
  <2>4. CASE failed'
    BY <2>4
  <2>5. CASE ~failed' /\ ~failed
    <3>1. worker' = [worker EXCEPT ![h] = Seeking!Stored[h]]
      BY <2>3, <2>5
    <3>2. ASSUME NEW g \in {"start", "stop", "rate"}, g # h
          PROVE  worker'[g] = worker[g]
                 /\ \A d \in Callers : g \in hooks[d] => g \in hooks'[d]
      BY <2>3, <3>1, <3>2 DEF SeekTypes
    <3>3. worker'[h] = Seeking!Stored[h]
      BY <2>2, <3>1 DEF SeekTypes
    <3>4. Seeking!Stored' = Seeking!Stored
      BY <2>3
    <3> HIDE DEF Seeking!Stored
    <3>5. QED
      BY <2>3, <2>5, <3>2, <3>3, <3>4
  <2>6. QED
    BY <2>3, <2>4, <2>5
<1>8. ASSUME NEW c \in Callers, Seeking!Call(c) PROVE Told'
  BY <1>2, <1>4, <1>5, <1>6, <1>7, <1>8 DEF Seeking!Call
<1>9. CASE ~(\E c \in Callers : Seeking!Call(c))
  BY <1>1, <1>9 DEF Seeking!Next, Seekingvars, Seeking!RegisterMediaTime, Seeking!ResetMediaTime,
     Seeking!WriteStop, Seeking!EOS, Seeking!ReferenceStop, Seeking!GetStopPosition,
     Seeking!Disconnect, Seeking!DeleteSource
<1>10. QED
  BY <1>8, <1>9

\* A caller that gets or gives back a reference is one more or one less.
LEMMA CallingChanges ==
    ASSUME SeekTypes, NEW c \in Callers, NEW point \in {"idle", "read", "peer", "change"},
           seekPc' = [seekPc EXCEPT ![c] = point]
    PROVE  /\ Cardinality(Calling) \in Nat
           /\ c \notin Calling /\ point \in {"peer", "change"} =>
                  Cardinality(Calling') = Cardinality(Calling) + 1
           /\ c \in Calling /\ point \in {"idle", "read"} =>
                  Cardinality(Calling') = Cardinality(Calling) - 1
           /\ c \in Calling /\ point \in {"peer", "change"} => Calling' = Calling
           /\ c \notin Calling /\ point \in {"idle", "read"} => Calling' = Calling
<1>1. IsFiniteSet(Calling) /\ Cardinality(Calling) \in Nat
  BY SeekingAssumption, FS_Subset, FS_CardinalityType DEF Calling
<1>2. seekPc'[c] = point /\ \A d \in Callers \ {c} : seekPc'[d] = seekPc[d]
  BY DEF SeekTypes
<1>3. CASE c \notin Calling /\ point \in {"peer", "change"}
  <2>1. Calling' = Calling \cup {c}
    BY <1>2, <1>3 DEF Calling
  <2>2. QED
    BY <1>1, <1>3, <2>1, FS_AddElement
<1>4. CASE c \in Calling /\ point \in {"idle", "read"}
  <2>1. Calling' = Calling \ {c}
    BY <1>2, <1>4 DEF Calling
  <2>2. QED
    BY <1>1, <1>4, <2>1, FS_RemoveElement
<1>5. CASE c \in Calling <=> point \in {"peer", "change"}
  <2>1. Calling' = Calling
    BY <1>2, <1>5 DEF Calling
  <2>2. QED
    BY <1>1, <1>5, <2>1
<1>7. QED
  BY <1>3, <1>4, <1>5

\* A reference is taken where a call begins and given back where it ends.
LEMMA ReferencedStep ==
    SeekTypes /\ Referenced /\ [Seeking!Next]_Seekingvars => Referenced'
<1> SUFFICES ASSUME SeekTypes, Referenced, [Seeking!Next]_Seekingvars PROVE Referenced'
  OBVIOUS
<1> DEFINE n == Cardinality(Calling)
<1> USE DEF Referenced, Seeking!graph, Seeking!calls, Seeking!eos
<1>0. n \in Nat
  BY SeekingAssumption, FS_Subset, FS_CardinalityType DEF Calling
<1>1. ASSUME NEW c \in Callers, Seeking!ReferencePeer(c) PROVE Referenced'
  <2>1. n' = n + 1
    BY <1>1, CallingChanges DEF Seeking!ReferencePeer, Calling
  <2> HIDE DEF n
  <2>2. QED
    BY <1>0, <1>1, <2>1 DEF Seeking!ReferencePeer, n
<1>2. ASSUME NEW c \in Callers, Seeking!Ask(c) \/ Seeking!Changed(c) PROVE Referenced'
  <2>1. n' = n - 1
    BY <1>2, CallingChanges DEF Seeking!Ask, Seeking!Changed, Seeking!Return, Calling
  <2>2. /\ sourceRefs' = sourceRefs - 1 /\ UNCHANGED <<seekConnected, sourceLives, pcEOS>>
    BY <1>2 DEF Seeking!Ask, Seeking!Changed, Seeking!Return
  <2>3. QED
    BY <1>0, <2>1, <2>2
<1>3. ASSUME NEW c \in Callers, NEW point \in {"idle", "read", "peer", "change"},
             seekPc' = [seekPc EXCEPT ![c] = point],
             c \in Calling <=> point \in {"peer", "change"},
             UNCHANGED <<sourceRefs, seekConnected, sourceLives, pcEOS>>
      PROVE  Referenced'
  <2>1. Calling' = Calling
    BY <1>3, CallingChanges
  <2>2. QED
    BY <1>3, <2>1
<1>4. ASSUME NEW c \in Callers, NEW startFlag, NEW a, NEW stopFlag, NEW b,
             Seeking!SetPositions(c, startFlag, a, stopFlag, b)
      PROVE  Referenced'
  BY <1>3, <1>4 DEF Seeking!SetPositions, Calling
<1>5. ASSUME NEW c \in Callers,
             \/ Seeking!SetRate(c) \/ Seeking!PositionCall(c)
             \/ Seeking!GetPeerSeeking(c) \/ Seeking!PeerIsGone(c)
      PROVE  Referenced'
  BY <1>3, <1>4, <1>5
     DEF Seeking!SetRate, Seeking!GetPeerSeeking, Seeking!PeerIsGone, Calling,
         Seeking!PositionCall, Seeking!PutCurrentPosition, Seeking!PutStopTime
<1>6. CASE UNCHANGED <<seekPc, sourceRefs, seekConnected, sourceLives, pcEOS>>
  BY <1>6 DEF Calling
<1>7. ASSUME NEW c \in Callers, Seeking!Call(c) PROVE Referenced'
  BY <1>1, <1>2, <1>4, <1>5, <1>6, <1>7 DEF Seeking!Call, Seeking!Change
<1>8. CASE Seeking!EOS \/ Seeking!ReferenceStop \/ Seeking!GetStopPosition
  <2>1. Calling' = Calling
    BY <1>8 DEF Seeking!EOS, Seeking!ReferenceStop, Seeking!GetStopPosition, Calling
  <2>2. QED
    BY <1>0, <1>8, <2>1 DEF Seeking!EOS, Seeking!ReferenceStop, Seeking!GetStopPosition
<1>9. CASE Seeking!Disconnect \/ Seeking!DeleteSource
  <2>1. Calling' = Calling
    BY <1>9 DEF Seeking!Disconnect, Seeking!DeleteSource, Calling
  <2>2. QED
    BY <1>0, <1>9, <2>1 DEF Seeking!Disconnect, Seeking!DeleteSource
<1>10. CASE Seeking!RegisterMediaTime \/ Seeking!ResetMediaTime \/ Seeking!WriteStop
            \/ UNCHANGED Seekingvars
  <2>1. Calling' = Calling
    BY <1>10 DEF Seeking!RegisterMediaTime, Seeking!ResetMediaTime, Seeking!WriteStop,
       Seekingvars, Calling
  <2>2. QED
    BY <1>0, <1>10, <2>1 DEF Seeking!RegisterMediaTime, Seeking!ResetMediaTime,
       Seeking!WriteStop, Seekingvars
<1>11. QED
  BY <1>7, <1>8, <1>9, <1>10 DEF Seeking!Next

\* Seeking, in any step,
LEMMA SeekingStep == SeekingInv /\ [Seeking!Next]_Seekingvars => SeekingInv'
  BY SeekTypesStep, ReferencedStep, ToldStep, ReportedStep DEF SeekingInv

\* from the beginning on.
LEMMA SeekingInit == Seeking!Init => SeekingInv
<1> SUFFICES ASSUME Seeking!Init PROVE SeekingInv
  OBVIOUS
<1> USE SeekingAssumption DEF Seeking!Init
<1>1. Calling = {}
  BY DEF Calling
<1>2. Referenced
  BY <1>1, FS_EmptySet DEF Referenced
<1>3. SeekTypes /\ Reported
  BY DEF SeekTypes, Reported
<1>4. Told
  BY DEF Told, Seeking!Stored
<1>5. QED
  BY <1>2, <1>3, <1>4 DEF SeekingInv

\* What the run asks of seeking.
LEMMA SeekingSafe ==
    SeekingInv => Seeking!PeerLives /\ Seeking!WorkerFollows /\ Seeking!PositionOfSample
<1> SUFFICES ASSUME SeekingInv
             PROVE  Seeking!PeerLives /\ Seeking!WorkerFollows /\ Seeking!PositionOfSample
  OBVIOUS
<1>1. ASSUME (\E c \in Callers : seekPc[c] \in {"peer", "change"}) \/ pcEOS = "stop" PROVE sourceRefs > 0
  <2>1. IsFiniteSet(Calling) /\ Cardinality(Calling) \in Nat
    BY SeekingAssumption, FS_Subset, FS_CardinalityType DEF Calling
  <2>2. (\E c \in Callers : seekPc[c] \in {"peer", "change"}) => Cardinality(Calling) # 0
    BY <2>1, FS_EmptySet DEF Calling
  <2>3. QED
    BY <1>1, <2>1, <2>2 DEF SeekingInv, Referenced
<1>2. Seeking!PeerLives
  BY <1>1 DEF SeekingInv, Referenced, Seeking!PeerLives
<1>3. Seeking!WorkerFollows
  <2> SUFFICES ASSUME \A c \in Callers : seekPc[c] # "change", ~failed
               PROVE  worker = Seeking!Stored
    BY DEF Seeking!WorkerFollows
  <2>1. \A h \in {"start", "stop", "rate"} : worker[h] = Seeking!Stored[h]
    BY DEF SeekingInv, Told
  <2>2. QED
    BY <2>1 DEF SeekingInv, SeekTypes, Seeking!Stored
<1>4. Seeking!PositionOfSample
  BY DEF SeekingInv, Reported, Seeking!PositionOfSample, Seeking!CurrentPosition,
     Seeking!MediaTime, Seeking!ConvertTimeFormat
<1>5. QED
  BY <1>2, <1>3, <1>4
-----------------------------------------------------------------------------
\* Samples.

\* The flags a sample may have,
SampleFlags == {"TimeValid", "StopValid", "MediaTimeValid", "TypeChanged", "Discontinuity"}

\* and what its fields may be.
AnySample ==
    [flags : SUBSET SampleFlags, type : Types \cup {Sample!Null}, start : Int, end : Int,
     media : Int, stream : {"media", "other"}, actual : Int]

\* A sample is flagged as having a new type exactly when it has one.
TypeFlagged(s) == "TypeChanged" \in s.flags <=> s.type # Sample!Null

\* A sample or properties as the setters leave them.
Sound(s) == s \in AnySample /\ TypeFlagged(s)

\* The samples of both sides, what is remembered of one, and who has a reference.
SampleTypes ==
    /\ inPlace \in BOOLEAN /\ m_cbBuffer \in OutSizes
    /\ DOMAIN sample = Sample!Sides /\ sample = [s \in Sample!Sides |-> sample[s]]
    /\ \A s \in Sample!Sides : Sound(sample[s])
    /\ Sound(m_SampleProps)
    /\ holds \subseteq Sample!Holders /\ m_cRef \in Nat
    /\ releasing \in [Sample!Holders -> {Sample!Unset, 1, 2}]

\* The count is that of the holders, and who read a 1 in Release is the last of them.
Holding ==
    /\ m_cRef = (IF "filter" \in holds THEN 1 ELSE 0) + (IF "renderer" \in holds THEN 1 ELSE 0)
    /\ freed = IF holds = {} THEN 1 ELSE 0
    /\ "filter" \in holds <=> samplePc \in {"buffer", "copied", "initialised", "delivered"}
    /\ samplePc \in {"buffer", "copied", "initialised"} => holds = {"filter"}
    /\ releasing["filter"] # Sample!Unset => samplePc = "delivered"
    /\ \A h \in Sample!Holders : releasing[h] # Sample!Unset =>
           h \in holds /\ (releasing[h] = 1 => m_cRef = 1)

\* What the renderer gets is what the filter upstream said, or is about to be.
Saying ==
    /\ freed = 1 => /\ sample["out"].flags = {} /\ sample["out"].type = Sample!Null
                    /\ sample["out"].stream = "media"
    /\ samplePc \in {"received", "buffer"} => m_SampleProps = Sample!GetProperties(sample["in"])
    /\ samplePc = "buffer" => sample["out"].flags \subseteq {"TypeChanged"}
    /\ ~inPlace => sample["out"].actual \in 0..m_cbBuffer
    /\ Sample!OutputSaysTheSame

\* Together inductive: that a recycled sample is blank is what lets the next one say
\* nothing but what its input said.
SampleInv == SampleTypes /\ Holding /\ Saying

\* What is read of a sample is all there is but for the media times.
LEMMA PropertiesRead ==
    ASSUME NEW s, Sound(s)
    PROVE  LET p == Sample!GetProperties(s)
           IN  /\ p.flags = s.flags \ {"MediaTimeValid"} /\ p.type = s.type
               /\ p.start = s.start /\ p.end = s.end /\ p.actual = s.actual
               /\ Sound(p)
<1> DEFINE flags == s.flags \ {"MediaTimeValid"}
           read == IF "TypeChanged" \in s.flags THEN s.type ELSE Sample!Null
           p == Sample!GetProperties(s)
<1>1. p = [s EXCEPT !.flags = flags, !.media = 0, !.type = read]
  BY DEF Sample!GetProperties
<1>2. s \in AnySample /\ read = s.type
  BY DEF Sound, TypeFlagged
<1>3. flags \subseteq SampleFlags
  BY <1>2 DEF AnySample
<1>4. "TypeChanged" \in flags <=> read # Sample!Null
  BY DEF Sound, TypeFlagged
<1> HIDE DEF flags, read, p
<1>5. /\ p.flags = flags /\ p.type = read /\ p.start = s.start /\ p.end = s.end
      /\ p.actual = s.actual
  BY <1>1, <1>2 DEF AnySample
<1>6. read \in Types \cup {Sample!Null} /\ 0 \in Int
  BY <1>2 DEF AnySample
<1>7. p \in AnySample
  <2> DEFINE zero == 0
  <2>1. p = [s EXCEPT !.flags = flags, !.media = zero, !.type = read] /\ zero \in Int
    BY <1>1
  <2> HIDE DEF zero
  <2>2. QED
    BY <1>2, <1>3, <1>6, <2>1 DEF AnySample
<1>8. QED
  BY <1>2, <1>4, <1>5, <1>7 DEF Sound, TypeFlagged, flags, p

\* The setters keep a sample sound, and so does the reading of its properties.
LEMMA SetterSound ==
    ASSUME NEW s, Sound(s), NEW start \in Int, NEW end \in Int, NEW t \in Int,
           NEW type \in Types \cup {Sample!Null}, NEW on \in BOOLEAN, NEW length \in Int
    PROVE  /\ Sound(Sample!SetTime(s, start, end)) /\ Sound(Sample!SetMediaTime(s, t))
           /\ Sound(Sample!SetMediaType(s, type)) /\ Sound(Sample!SetDiscontinuity(s, on))
           /\ Sound(Sample!GetProperties(s)) /\ Sound([s EXCEPT !.actual = length])
           /\ Sound([s EXCEPT !.stream = "other"])
<1> USE DEF Sound, AnySample, SampleFlags, TypeFlagged
<1>1. Sound(Sample!SetTime(s, start, end))
  BY DEF Sample!SetTime
<1>2. Sound(Sample!SetMediaTime(s, t))
  BY DEF Sample!SetMediaTime
<1>3. Sound(Sample!SetMediaType(s, type))
  BY DEF Sample!SetMediaType
<1>4. Sound(Sample!SetDiscontinuity(s, on))
  BY DEF Sample!SetDiscontinuity
<1>5. Sound(Sample!GetProperties(s))
  BY PropertiesRead
<1>6. Sound([s EXCEPT !.actual = length]) /\ Sound([s EXCEPT !.stream = "other"])
  OBVIOUS
<1>7. QED
  BY <1>1, <1>2, <1>3, <1>4, <1>5, <1>6

\* What SetProperties leaves of the sample s that it gives the properties p.
Carried(q, s, p, withType) ==
    /\ q.actual = p.actual /\ q.start = p.start /\ q.end = p.end
    /\ q.type = IF withType /\ "TypeChanged" \in p.flags THEN p.type ELSE s.type
    /\ \A f \in {"TimeValid", "StopValid", "Discontinuity"} : f \in q.flags <=> f \in p.flags
    /\ "MediaTimeValid" \in q.flags <=> "MediaTimeValid" \in p.flags \cup s.flags

\* It does so whether it sets the type or leaves it alone.
LEMMA SetPropertiesSound ==
    ASSUME NEW s, Sound(s), NEW p, Sound(p), NEW withType \in BOOLEAN
    PROVE  /\ Sound(Sample!SetProperties(s, p, withType))
           /\ Carried(Sample!SetProperties(s, p, withType), s, p, withType)
<1> DEFINE type == IF withType /\ "TypeChanged" \in p.flags THEN p.type ELSE s.type
           flags == ((p.flags \cup (s.flags \cap {"MediaTimeValid"})) \ {"TypeChanged"})
                        \cup (IF type = Sample!Null THEN {} ELSE {"TypeChanged"})
           stream == IF withType THEN p.stream ELSE s.stream
           q == Sample!SetProperties(s, p, withType)
<1>1. s \in AnySample /\ p \in AnySample
  BY DEF Sound
<1>2. q = [s EXCEPT !.flags = flags, !.actual = p.actual, !.start = p.start, !.end = p.end,
                    !.stream = stream, !.type = type]
  BY <1>1 DEF Sample!SetProperties, AnySample
<1>3. /\ flags \subseteq SampleFlags /\ type \in Types \cup {Sample!Null}
      /\ stream \in {"media", "other"}
  BY <1>1 DEF AnySample, SampleFlags
<1>4. "TypeChanged" \in flags <=> type # Sample!Null
  OBVIOUS
<1>5. /\ \A f \in {"TimeValid", "StopValid", "Discontinuity"} : f \in flags <=> f \in p.flags
      /\ "MediaTimeValid" \in flags <=> "MediaTimeValid" \in p.flags \cup s.flags
  OBVIOUS
<1> HIDE DEF flags, type, stream
<1>6. /\ q.flags = flags /\ q.actual = p.actual /\ q.start = p.start /\ q.end = p.end
      /\ q.stream = stream /\ q.type = type /\ q.media = s.media /\ q \in AnySample
  <2> DEFINE actual == p.actual
             first == p.start
             last == p.end
  <2>1. actual \in Int /\ first \in Int /\ last \in Int
    BY <1>1 DEF AnySample
  <2>2. q = [s EXCEPT !.flags = flags, !.actual = actual, !.start = first, !.end = last,
                      !.stream = stream, !.type = type]
    BY <1>2
  <2> HIDE DEF actual, first, last, q
  <2>3. q \in AnySample
    BY <1>1, <1>3, <2>1, <2>2 DEF AnySample
  <2>4. q.flags = flags /\ q.actual = actual /\ q.start = first
    BY <1>1, <2>2 DEF AnySample
  <2>5. q.end = last /\ q.stream = stream /\ q.type = type /\ q.media = s.media
    BY <1>1, <2>2 DEF AnySample
  <2>6. QED
    BY <2>3, <2>4, <2>5 DEF actual, first, last
<1>7. QED
  BY <1>4, <1>5, <1>6 DEF Sound, TypeFlagged, Carried, type

\* The filter upstream fills its sample in and does nothing else.
LEMMA FillKeeps ==
    Sample!Fill => /\ samplePc = "fill" /\ samplePc' = "filled"
                   /\ UNCHANGED <<Sample!filter, m_SampleProps, Sample!refs>>
  BY DEF Sample!Fill

\* References are counted.
LEMMA HoldingStep ==
    SampleTypes /\ Holding /\ [Sample!Next]_Samplevars => Holding'
<1> SUFFICES ASSUME SampleTypes, Holding, [Sample!Next]_Samplevars PROVE Holding'
  OBVIOUS
<1> USE DEF Holding, SampleTypes, Sample!Holders, Sample!Unset, Sample!refs, Sample!thread,
            Sample!filter
<1>1. CASE Sample!Fill \/ Sample!Receive \/ Sample!NextSample
  <2>1. /\ samplePc' \in {"filled", "received", "done", "fill"}
        /\ samplePc \in {"fill", "filled", "done"} /\ UNCHANGED Sample!refs
    <3>1. CASE Sample!Fill
      <4>1. samplePc = "fill" /\ samplePc' = "filled" /\ UNCHANGED Sample!refs
        BY <3>1, FillKeeps
      <4>2. QED
        BY <4>1
    <3>2. CASE Sample!Receive \/ Sample!NextSample
      BY <3>2 DEF Sample!Receive, Sample!NextSample
    <3>3. QED
      BY <1>1, <3>1, <3>2
  <2>2. QED
    BY <2>1
<1>2. ASSUME NEW type, Sample!GetBuffer(type) PROVE Holding'
  BY <1>2 DEF Sample!GetBuffer
<1>3. CASE Sample!Copy \/ Sample!InitializeOutputSample
  <2>1. /\ samplePc' \in {"copied", "delivered", "initialised"} /\ samplePc = "buffer"
        /\ UNCHANGED Sample!refs
    BY <1>3 DEF Sample!Copy, Sample!InitializeOutputSample
  <2>2. QED
    BY <2>1
<1>4. ASSUME NEW keeps \in BOOLEAN, Sample!Deliver(keeps) PROVE Holding'
  <2>1. /\ samplePc' = "delivered" /\ samplePc \in {"copied", "initialised"}
        /\ releasing' = releasing /\ freed' = freed /\ holds = {"filter"} /\ m_cRef = 1
    BY <1>4 DEF Sample!Deliver
  <2>2. \A h \in Sample!Holders : releasing[h] = Sample!Unset
    BY <2>1
  <2>3. CASE keeps
    <3>1. m_cRef' = 2 /\ holds' = {"filter", "renderer"}
      BY <1>4, <2>1, <2>3 DEF Sample!Deliver
    <3>2. QED
      BY <2>1, <2>2, <3>1
  <2>4. CASE ~keeps
    BY <1>4, <2>1, <2>2, <2>4 DEF Sample!Deliver
  <2>5. QED
    BY <2>3, <2>4
<1>5. ASSUME NEW h \in Sample!Holders, Sample!ReleaseBegins(h) PROVE Holding'
  BY <1>5 DEF Sample!ReleaseBegins
<1>6. ASSUME NEW h \in Sample!Holders, Sample!ReleaseEnds(h) PROVE Holding'
  <2>1. /\ releasing[h] # Sample!Unset /\ h \in holds /\ m_cRef' = m_cRef - 1
        /\ freed' = (IF m_cRef' = 0 THEN freed + 1 ELSE freed)
        /\ holds' = holds \ {h} /\ releasing' = [releasing EXCEPT ![h] = Sample!Unset]
        /\ samplePc' = IF h = "filter" THEN "done" ELSE samplePc
    BY <1>6 DEF Sample!ReleaseEnds, Sample!Recycle
  <2>2. QED
    BY <2>1
<1>7. CASE UNCHANGED Samplevars
  BY <1>7 DEF Samplevars
<1>8. QED
  BY <1>1, <1>2, <1>3, <1>4, <1>5, <1>6, <1>7 DEF Sample!Next

\* SampleTypes with the side of a sample that has become another.
LEMMA OneSide ==
    ASSUME SampleTypes, NEW side \in Sample!Sides, NEW q, Sound(q),
           sample' = [sample EXCEPT ![side] = q]
    PROVE  /\ DOMAIN sample' = Sample!Sides /\ sample' = [s \in Sample!Sides |-> sample'[s]]
           /\ \A s \in Sample!Sides : Sound(sample'[s])
           /\ sample'[side] = q /\ \A s \in Sample!Sides \ {side} : sample'[s] = sample[s]
<1>1. /\ DOMAIN sample' = Sample!Sides /\ sample' = [s \in Sample!Sides |-> sample'[s]]
      /\ sample'[side] = q /\ \A s \in Sample!Sides \ {side} : sample'[s] = sample[s]
  BY DEF SampleTypes
<1>2. QED
  BY <1>1 DEF SampleTypes

\* The input sample, as the filter upstream fills it.
LEMMA FillSound ==
    SampleTypes /\ Sample!Fill => \E q : Sound(q) /\ sample' = [sample EXCEPT !["in"] = q]
<1> SUFFICES ASSUME SampleTypes, Sample!Fill
             PROVE  \E q : Sound(q) /\ sample' = [sample EXCEPT !["in"] = q]
  OBVIOUS
<1>1. PICK start \in {Sample!Unset, 1}, end \in {Sample!Unset, 2}, media \in {Sample!Unset, 1},
           type \in Types \cup {Sample!Null}, on \in BOOLEAN, length \in 1..InSize,
           stream \in {"media", "other"} :
        LET timed == Sample!SetMediaTime(Sample!SetTime(sample["in"], start, end), media)
            told == Sample!SetDiscontinuity(Sample!SetMediaType(timed, type), on)
            long == [told EXCEPT !.actual = IF Sample!LengthAccepted("in", length) THEN length
                                            ELSE @]
        IN  sample' = [sample EXCEPT !["in"] =
                IF stream = "media" THEN long
                ELSE Sample!SetProperties(long, [Sample!GetProperties(long) EXCEPT
                                                    !.stream = stream], TRUE)]
  BY DEF Sample!Fill
<1> DEFINE given == Sample!SetTime(sample["in"], start, end)
           timed == Sample!SetMediaTime(given, media)
           typed == Sample!SetMediaType(timed, type)
           told == Sample!SetDiscontinuity(typed, on)
           actual == IF Sample!LengthAccepted("in", length) THEN length ELSE told.actual
           long == [told EXCEPT !.actual = actual]
           read == Sample!GetProperties(long)
           named == [read EXCEPT !.stream = "other"]
           whole == Sample!SetProperties(long, named, TRUE)
<1>2. Sound(sample["in"]) /\ start \in Int /\ end \in Int /\ media \in Int /\ length \in Int
  BY SampleAssumption DEF SampleTypes, Sample!Sides, Sample!Unset
<1>3. sample' = [sample EXCEPT !["in"] = IF stream = "media" THEN long ELSE whole]
  BY <1>1
<1> HIDE DEF whole
<1>4. Sound(given)
  BY <1>2, SetterSound
<1> HIDE DEF given
<1>5. Sound(timed)
  BY <1>2, <1>4, SetterSound
<1> HIDE DEF timed
<1>6. Sound(typed)
  BY <1>2, <1>5, SetterSound
<1> HIDE DEF typed
<1>7. Sound(told)
  BY <1>2, <1>6, SetterSound
<1>8. actual \in Int
  BY <1>2, <1>7 DEF Sound, AnySample
<1> HIDE DEF told, actual
<1>9. Sound(long)
  BY <1>7, <1>8, SetterSound
<1> HIDE DEF long
<1>10. Sound(read)
  BY <1>2, <1>9, SetterSound
<1> HIDE DEF read
<1>11. Sound(named)
  BY <1>2, <1>10, SetterSound
<1> HIDE DEF named
<1>12. Sound(whole)
  BY <1>9, <1>11, SetPropertiesSound DEF whole
<1>13. QED
  BY <1>3, <1>9, <1>12

\* A sample as its allocator makes it.
LEMMA BlankSound ==
    \A actual \in Int : Sound(Sample!Blank(actual))
  BY DEF Sound, AnySample, TypeFlagged, Sample!Blank, SampleFlags

\* What is said of the sample s is also said of q: by either transform, and in a copy.
Timed(q, s) ==
    /\ Sample!GetTime(q) = Sample!GetTime(s)
    /\ "Discontinuity" \in q.flags <=> "Discontinuity" \in s.flags

\* A copy in place says the rest as well.
Copied(q, s) ==
    /\ Timed(q, s) /\ Sample!GetMediaTime(q) = Sample!GetMediaTime(s)
    /\ q.actual = s.actual
    /\ s.type # Sample!Null => q.type = s.type

\* The output sample as Copy makes it.
LEMMA CopySound ==
    SampleTypes /\ Sample!Copy =>
        \E q : /\ Sound(q) /\ sample' = [sample EXCEPT !["out"] = q]
               /\ Saying => Copied(q, sample["in"])
<1> SUFFICES ASSUME SampleTypes, Sample!Copy
             PROVE  \E q : /\ Sound(q) /\ sample' = [sample EXCEPT !["out"] = q]
                           /\ Saying => Copied(q, sample["in"])
  OBVIOUS
<1> DEFINE in == sample["in"]
           out == sample["out"]
           props == Sample!SetProperties(out, m_SampleProps, TRUE)
           time == Sample!GetMediaTime(in)
           q == IF time = Sample!Unset THEN props ELSE Sample!SetMediaTime(props, time)
<1>1. sample' = [sample EXCEPT !["out"] = q] /\ samplePc = "buffer"
  BY DEF Sample!Copy
<1>2. Sound(in) /\ Sound(out) /\ Sound(m_SampleProps)
  BY DEF SampleTypes, Sample!Sides
<1>3. Saying => /\ m_SampleProps = Sample!GetProperties(in)
                /\ out.flags \subseteq {"TypeChanged"}
  BY <1>1 DEF Saying
<1> HIDE DEF in, out
<1>4. time \in Int
  BY <1>2 DEF Sample!GetMediaTime, Sound, AnySample, Sample!Unset
<1>5. Sound(props)
  BY <1>2, SetPropertiesSound
<1>6. /\ props.actual = m_SampleProps.actual /\ props.start = m_SampleProps.start
      /\ props.end = m_SampleProps.end
      /\ props.type = IF "TypeChanged" \in m_SampleProps.flags THEN m_SampleProps.type ELSE out.type
      /\ \A f \in {"TimeValid", "StopValid", "Discontinuity"} :
             f \in props.flags <=> f \in m_SampleProps.flags
      /\ "MediaTimeValid" \in props.flags <=>
             "MediaTimeValid" \in m_SampleProps.flags \cup out.flags
  <2>1. Carried(props, out, m_SampleProps, TRUE)
    BY <1>2, SetPropertiesSound
  <2>2. QED
    BY <2>1 DEF Carried
<1> HIDE DEF props, time
<1>7. Sound(q)
  <2>1. CASE time = Sample!Unset
    BY <1>5, <2>1
  <2>2. CASE time # Sample!Unset
    BY <1>4, <1>5, <2>2 DEF Sound, AnySample, TypeFlagged, SampleFlags, Sample!SetMediaTime
  <2>3. QED
    BY <2>1, <2>2
<1>8. /\ q.actual = props.actual /\ q.start = props.start /\ q.end = props.end
      /\ q.type = props.type
      /\ \A f \in {"TimeValid", "StopValid", "Discontinuity"} : f \in q.flags <=> f \in props.flags
      /\ time # Sample!Unset => "MediaTimeValid" \in q.flags /\ q.media = time
      /\ time = Sample!Unset => q = props
  BY <1>5 DEF Sound, AnySample, Sample!SetMediaTime
<1> HIDE DEF q
<1>9. ASSUME Saying PROVE Copied(q, in)
  <2> DEFINE p == m_SampleProps
  <2>1. /\ p.flags = in.flags \ {"MediaTimeValid"} /\ p.type = in.type
        /\ p.start = in.start /\ p.end = in.end /\ p.actual = in.actual
    BY <1>2, <1>3, <1>9, PropertiesRead
  <2>2. "MediaTimeValid" \notin m_SampleProps.flags \cup out.flags
    BY <1>3, <1>9, <2>1
  <2>3. "TypeChanged" \in in.flags <=> in.type # Sample!Null
    BY <1>2 DEF Sound, TypeFlagged
  <2>4. Sample!GetMediaTime(q) = time
    BY <1>6, <1>8, <2>2 DEF Sample!GetMediaTime
  <2>5. Sample!GetTime(q) = Sample!GetTime(in)
    BY <1>6, <1>8, <2>1 DEF Sample!GetTime
  <2>6. "Discontinuity" \in q.flags <=> "Discontinuity" \in in.flags
    BY <1>6, <1>8, <2>1
  <2>7. QED
    BY <1>6, <1>8, <2>1, <2>3, <2>4, <2>5, <2>6 DEF Copied, Timed, time
<1>10. QED
  BY <1>1, <1>7, <1>9 DEF in

\* The output sample as InitializeOutputSample makes it.
LEMMA OutputSound ==
    SampleTypes /\ Sample!InitializeOutputSample =>
        \E q : /\ Sound(q) /\ sample' = [sample EXCEPT !["out"] = q]
               /\ q.actual = sample["out"].actual
               /\ Saying => Timed(q, sample["in"])
<1> SUFFICES ASSUME SampleTypes, Sample!InitializeOutputSample
             PROVE  \E q : /\ Sound(q) /\ sample' = [sample EXCEPT !["out"] = q]
                           /\ q.actual = sample["out"].actual
                           /\ Saying => Timed(q, sample["in"])
  OBVIOUS
<1> DEFINE in == sample["in"]
           out == sample["out"]
           own == Sample!GetProperties(out)
           flags == (own.flags \cap {"TypeChanged"}) \cup (m_SampleProps.flags \ {"TypeChanged"})
           props == [own EXCEPT !.flags = flags, !.start = m_SampleProps.start,
                                !.end = m_SampleProps.end]
           q == Sample!SetProperties(out, props, FALSE)
<1>1. sample' = [sample EXCEPT !["out"] = q] /\ samplePc = "buffer"
  BY DEF Sample!InitializeOutputSample
<1>2. Sound(in) /\ Sound(out) /\ Sound(m_SampleProps)
  BY DEF SampleTypes, Sample!Sides
<1>3. Saying => m_SampleProps = Sample!GetProperties(in)
  BY <1>1 DEF Saying
<1> HIDE DEF in, out
<1>4. Sound(own) /\ own.actual = out.actual
  BY <1>2, PropertiesRead
<1> HIDE DEF own
<1>5. /\ m_SampleProps.start \in Int /\ m_SampleProps.end \in Int
      /\ m_SampleProps.flags \subseteq SampleFlags
  BY <1>2 DEF Sound, AnySample
<1>6. flags \subseteq SampleFlags /\ ("TypeChanged" \in flags <=> "TypeChanged" \in own.flags)
  BY <1>5 DEF SampleFlags
<1>7. \A f \in {"TimeValid", "StopValid", "Discontinuity"} :
          f \in flags <=> f \in m_SampleProps.flags
  OBVIOUS
<1> HIDE DEF flags
<1>8. Sound(props) /\ props.actual = own.actual /\ props.flags = flags
      /\ props.start = m_SampleProps.start /\ props.end = m_SampleProps.end
  BY <1>4, <1>5, <1>6 DEF Sound, AnySample, TypeFlagged
<1> HIDE DEF props
<1>9. /\ Sound(q) /\ q.actual = props.actual /\ q.start = props.start /\ q.end = props.end
      /\ \A f \in {"TimeValid", "StopValid", "Discontinuity"} : f \in q.flags <=> f \in props.flags
  <2>1. Carried(q, out, props, FALSE) /\ Sound(q)
    BY <1>2, <1>8, SetPropertiesSound
  <2>2. QED
    BY <2>1 DEF Carried
<1> HIDE DEF q
<1>10. ASSUME Saying PROVE Timed(q, in)
  <2> DEFINE p == m_SampleProps
  <2>1. /\ p.flags = in.flags \ {"MediaTimeValid"}
        /\ p.start = in.start /\ p.end = in.end
    BY <1>2, <1>3, <1>10, PropertiesRead
  <2>2. QED
    BY <1>7, <1>8, <1>9, <2>1 DEF Sample!GetTime, Timed
<1>11. QED
  BY <1>1, <1>4, <1>8, <1>9, <1>10 DEF in, out

\* The way the filter works and the size of its buffers are settled by the connection.
LEMMA FilterKept == [Sample!Next]_Samplevars => inPlace' = inPlace /\ m_cbBuffer' = m_cbBuffer
<1> SUFFICES ASSUME [Sample!Next]_Samplevars PROVE UNCHANGED Sample!filter
  BY DEF Sample!filter
<1>1. CASE Sample!Fill \/ Sample!Receive \/ Sample!NextSample
  BY <1>1, FillKeeps DEF Sample!Receive, Sample!NextSample
<1>2. ASSUME NEW type, Sample!GetBuffer(type) PROVE UNCHANGED Sample!filter
  BY <1>2 DEF Sample!GetBuffer
<1>3. CASE Sample!Copy
  BY <1>3 DEF Sample!Copy
<1>4. CASE Sample!InitializeOutputSample
  BY <1>4 DEF Sample!InitializeOutputSample
<1>5. ASSUME NEW keeps, Sample!Deliver(keeps) PROVE UNCHANGED Sample!filter
  BY <1>5 DEF Sample!Deliver
<1>6. ASSUME NEW h, Sample!ReleaseBegins(h) \/ Sample!ReleaseEnds(h)
      PROVE  UNCHANGED Sample!filter
  BY <1>6 DEF Sample!ReleaseBegins, Sample!ReleaseEnds, Sample!Recycle, Sample!filter
<1>7. CASE UNCHANGED Samplevars
  BY <1>7 DEF Samplevars, Sample!filter
<1>8. QED
  BY <1>1, <1>2, <1>3, <1>4, <1>5, <1>6, <1>7 DEF Sample!Next

\* Who has a reference, one by one.
LEMMA HoldersTyped ==
    SampleTypes /\ Holding /\ [Sample!Next]_Samplevars =>
        /\ holds' \subseteq Sample!Holders
        /\ releasing' \in [Sample!Holders -> {Sample!Unset, 1, 2}]
<1> SUFFICES ASSUME SampleTypes, Holding, [Sample!Next]_Samplevars
             PROVE  /\ holds' \subseteq Sample!Holders
                    /\ releasing' \in [Sample!Holders -> {Sample!Unset, 1, 2}]
  OBVIOUS
<1>1. holds \subseteq Sample!Holders /\ releasing \in [Sample!Holders -> {Sample!Unset, 1, 2}]
  BY DEF SampleTypes
<1>2. ASSUME holds' = holds, releasing' = releasing
      PROVE  /\ holds' \subseteq Sample!Holders
             /\ releasing' \in [Sample!Holders -> {Sample!Unset, 1, 2}]
  BY <1>1, <1>2
<1>3. CASE Sample!Fill \/ Sample!Receive \/ Sample!NextSample
  BY <1>2, <1>3, FillKeeps DEF Sample!Receive, Sample!NextSample, Sample!refs
<1>4. ASSUME NEW type, Sample!GetBuffer(type)
      PROVE  holds' \subseteq Sample!Holders /\ releasing' = releasing
  BY <1>4 DEF Sample!GetBuffer, SampleTypes, Sample!Holders
<1>5. CASE Sample!Copy
  BY <1>2, <1>5 DEF Sample!Copy, Sample!refs
<1>6. CASE Sample!InitializeOutputSample
  BY <1>2, <1>6 DEF Sample!InitializeOutputSample, Sample!refs
<1>7. ASSUME NEW keeps, Sample!Deliver(keeps)
      PROVE  holds' \subseteq Sample!Holders /\ releasing' = releasing
  BY <1>7 DEF Sample!Deliver, SampleTypes, Sample!Holders
<1>8. ASSUME NEW h \in Sample!Holders, Sample!ReleaseBegins(h)
      PROVE  /\ holds' \subseteq Sample!Holders
             /\ releasing' \in [Sample!Holders -> {Sample!Unset, 1, 2}]
  <2>1. m_cRef \in {1, 2}
    BY <1>8 DEF Holding, Sample!ReleaseBegins, Sample!Holders
  <2>2. QED
    BY <1>8, <2>1 DEF SampleTypes, Sample!ReleaseBegins
<1>9. ASSUME NEW h \in Sample!Holders, Sample!ReleaseEnds(h)
      PROVE  /\ holds' \subseteq Sample!Holders
             /\ releasing' \in [Sample!Holders -> {Sample!Unset, 1, 2}]
  BY <1>9 DEF SampleTypes, Sample!ReleaseEnds, Sample!Recycle
<1>10. CASE UNCHANGED Samplevars
  BY <1>2, <1>10 DEF Samplevars
<1>11. QED
  BY <1>3, <1>4, <1>5, <1>6, <1>7, <1>8, <1>9, <1>10, <1>1 DEF Sample!Next

\* Every step leaves at most one sample another, and that one sound.
LEMMA SampleTypesStep ==
    SampleTypes /\ Holding /\ [Sample!Next]_Samplevars => SampleTypes'
<1> SUFFICES ASSUME SampleTypes, Holding, [Sample!Next]_Samplevars PROVE SampleTypes'
  OBVIOUS
<1>1. Holding'
  BY HoldingStep
<1>2. /\ inPlace' \in BOOLEAN /\ m_cbBuffer' \in OutSizes
  BY FilterKept DEF SampleTypes
<1>3. holds' \subseteq Sample!Holders /\ m_cRef' \in Nat
  BY <1>1, HoldersTyped DEF Holding
<1>4. releasing' \in [Sample!Holders -> {Sample!Unset, 1, 2}]
  BY HoldersTyped
<1> DEFINE Samples == /\ DOMAIN sample = Sample!Sides /\ sample = [s \in Sample!Sides |-> sample[s]]
                      /\ \A s \in Sample!Sides : Sound(sample[s])
<1>5. ASSUME NEW side \in Sample!Sides, NEW q, Sound(q), sample' = [sample EXCEPT ![side] = q]
      PROVE  Samples'
  BY <1>5, OneSide
<1>6. ASSUME UNCHANGED sample PROVE Samples'
  BY <1>6 DEF SampleTypes
<1>7. \A s \in Sample!Sides : Sound(sample[s]) /\ sample[s].actual \in Int
  BY DEF SampleTypes, Sound, AnySample
<1> HIDE DEF Samples
<1> DEFINE Typed == Samples' /\ Sound(m_SampleProps')
<1>8. CASE Sample!Fill
  <2>1. Samples'
    BY <1>5, <1>8, FillSound DEF Sample!Sides
  <2>2. QED
    BY <1>1, <1>2, <1>3, <1>4, <1>8, <2>1, FillKeeps DEF SampleTypes, Samples
<1>9. CASE Sample!Receive
  <2>1. Sound(m_SampleProps')
    BY <1>7, <1>9, PropertiesRead DEF Sample!Receive, Sample!Sides
  <2>2. QED
    BY <1>1, <1>2, <1>3, <1>4, <1>6, <1>9, <2>1 DEF Sample!Receive, SampleTypes, Samples
<1>10. ASSUME NEW type \in Types \cup {Sample!Null}, Sample!GetBuffer(type) PROVE SampleTypes'
  <2> DEFINE q == IF type = Sample!Null THEN sample["out"]
                  ELSE Sample!SetMediaType(sample["out"], type)
  <2>1. sample' = [sample EXCEPT !["out"] = q]
    BY <1>10 DEF Sample!GetBuffer
  <2>2. Sound(q)
    BY <1>7 DEF Sound, AnySample, TypeFlagged, SampleFlags, Sample!SetMediaType, Sample!Sides
  <2> HIDE DEF q
  <2>3. Samples'
    BY <1>5, <2>1, <2>2 DEF Sample!Sides
  <2>4. QED
    BY <1>1, <1>2, <1>3, <1>4, <1>10, <2>3 DEF Sample!GetBuffer, SampleTypes, Samples
<1>11. CASE Sample!Copy
  <2>1. PICK q : Sound(q) /\ sample' = [sample EXCEPT !["out"] = q]
    BY <1>11, CopySound
  <2>2. Samples'
    BY <1>5, <2>1 DEF Sample!Sides
  <2>3. QED
    BY <1>1, <1>2, <1>3, <1>4, <1>11, <2>2 DEF Sample!Copy, SampleTypes, Samples
<1>12. CASE Sample!InitializeOutputSample
  <2>1. PICK q : Sound(q) /\ sample' = [sample EXCEPT !["out"] = q]
    BY <1>12, OutputSound
  <2>2. Samples'
    BY <1>5, <2>1 DEF Sample!Sides
  <2>3. QED
    BY <1>1, <1>2, <1>3, <1>4, <1>12, <2>2 DEF Sample!InitializeOutputSample, SampleTypes, Samples
<1>13. ASSUME NEW h \in Sample!Holders, Sample!ReleaseEnds(h) PROVE SampleTypes'
  <2> DEFINE q == Sample!Recycled(sample["out"])
  <2>1. sample' = [sample EXCEPT !["out"] = q] \/ UNCHANGED sample
    BY <1>13 DEF Sample!ReleaseEnds, Sample!Recycle
  <2>2. Sound(q)
    BY <1>7 DEF Sound, AnySample, TypeFlagged, SampleFlags, Sample!Sides, Sample!Recycled
  <2> HIDE DEF q
  <2>3. Samples'
    BY <1>5, <1>6, <2>1, <2>2 DEF Sample!Sides
  <2>4. QED
    BY <1>1, <1>2, <1>3, <1>4, <1>13, <2>3
       DEF Sample!ReleaseEnds, Sample!Recycle, SampleTypes, Samples
<1>14. CASE Sample!NextSample
  <2>1. Samples'
    BY <1>5, <1>7, <1>14, BlankSound DEF Sample!NextSample, Sample!Sides
  <2>2. Sound(m_SampleProps')
    BY <1>14, BlankSound DEF Sample!NextSample
  <2>3. QED
    BY <1>1, <1>2, <1>3, <1>4, <2>1, <2>2 DEF SampleTypes, Samples
<1>15. ASSUME UNCHANGED <<sample, m_SampleProps>> PROVE SampleTypes'
  BY <1>1, <1>2, <1>3, <1>4, <1>6, <1>15 DEF SampleTypes, Samples
<1>16. QED
  BY <1>8, <1>9, <1>10, <1>11, <1>12, <1>13, <1>14, <1>15
     DEF Sample!Next, Samplevars, Sample!Deliver, Sample!ReleaseBegins, Sample!thread

\* A buffer of the output is filled in from what is free, and freed again.
LEMMA SayingStep ==
    SampleInv /\ [Sample!Next]_Samplevars => Saying'
<1> SUFFICES ASSUME SampleInv, [Sample!Next]_Samplevars PROVE Saying'
  OBVIOUS
<1>1. SampleTypes /\ Holding /\ Saying /\ SampleTypes' /\ Holding'
  BY HoldingStep, SampleTypesStep DEF SampleInv
<1>2. Sound(sample["in"]) /\ Sound(sample["out"])
  BY <1>1 DEF SampleTypes, Sample!Sides
<1>3. inPlace' = inPlace /\ m_cbBuffer' = m_cbBuffer
  BY FilterKept
<1>4. ASSUME samplePc' \notin {"copied", "initialised"} PROVE Sample!OutputSaysTheSame'
  BY <1>4 DEF Sample!OutputSaysTheSame
<1>5. CASE Sample!Fill \/ Sample!NextSample
  <2>1. PICK q : Sound(q) /\ sample' = [sample EXCEPT !["in"] = q]
    <3>1. ASSUME Sample!NextSample PROVE Sound(Sample!Blank(sample["in"].actual))
      BY <1>2, BlankSound DEF Sound, AnySample
    <3>2. QED
      BY <1>1, <1>5, <3>1, FillSound DEF Sample!NextSample
  <2>2. sample'["out"] = sample["out"]
    BY <1>1, <2>1, OneSide DEF Sample!Sides
  <2>3. samplePc' \in {"filled", "fill"} /\ UNCHANGED freed
    BY <1>5, FillKeeps DEF Sample!NextSample, Sample!refs
  <2>4. QED
    BY <1>1, <1>3, <1>4, <2>2, <2>3 DEF Saying
<1>6. CASE Sample!Receive
  <2>1. /\ samplePc' \in {"received", "done"} /\ UNCHANGED <<sample, freed>>
        /\ m_SampleProps' = Sample!GetProperties(sample["in"])
    BY <1>6 DEF Sample!Receive, Sample!refs
  <2>2. m_SampleProps' = Sample!GetProperties(sample["in"])'
    BY <2>1 DEF Sample!GetProperties
  <2> HIDE DEF Sample!GetProperties
  <2>3. QED
    BY <1>1, <1>3, <1>4, <2>1, <2>2 DEF Saying
<1>7. ASSUME NEW type \in Types \cup {Sample!Null}, Sample!GetBuffer(type) PROVE Saying'
  <2> DEFINE q == IF type = Sample!Null THEN sample["out"]
                  ELSE Sample!SetMediaType(sample["out"], type)
  <2>1. /\ sample' = [sample EXCEPT !["out"] = q] /\ samplePc = "received"
        /\ samplePc' = "buffer" /\ freed = 1 /\ freed' = 0 /\ UNCHANGED m_SampleProps
    BY <1>7 DEF Sample!GetBuffer
  <2>2. q.flags \subseteq {"TypeChanged"} /\ q.actual = sample["out"].actual
    BY <1>1, <1>2, <2>1 DEF Saying, Sound, AnySample, Sample!SetMediaType
  <2> HIDE DEF q
  <2>3. sample'["out"] = q /\ sample'["in"] = sample["in"]
    BY <1>1, <2>1 DEF SampleTypes, Sample!Sides
  <2>4. m_SampleProps' = Sample!GetProperties(sample["in"])'
    BY <1>1, <2>1, <2>3 DEF Saying, Sample!GetProperties
  <2>5. QED
    BY <1>1, <1>3, <1>4, <2>1, <2>2, <2>3, <2>4 DEF Saying
<1>8. CASE Sample!Copy
  <2>1. PICK q : Sound(q) /\ sample' = [sample EXCEPT !["out"] = q] /\ Copied(q, sample["in"])
    BY <1>1, <1>8, CopySound
  <2>2. /\ samplePc' = IF Sample!LengthAccepted("out", sample["in"].actual) THEN "copied"
                       ELSE "delivered"
        /\ inPlace /\ samplePc = "buffer" /\ UNCHANGED freed
    BY <1>8 DEF Sample!Copy, Sample!refs
  <2>3. freed' # 1
    BY <1>1, <2>2 DEF Holding
  <2>4. sample'["out"] = q /\ sample'["in"] = sample["in"]
    BY <1>1, <2>1 DEF SampleTypes, Sample!Sides
  <2>5. Sample!OutputSaysTheSame'
    <3>1. CASE Sample!LengthAccepted("out", sample["in"].actual)
      <4>1. Sample!LengthAccepted("out", q.actual)'
        <5>1. q.actual = sample["in"].actual
          BY <2>1 DEF Copied
        <5>2. QED
          BY <1>3, <3>1, <5>1 DEF Sample!LengthAccepted, Sample!Size
      <4>2. Copied(sample["out"], sample["in"])'
        BY <2>1, <2>4 DEF Copied, Timed, Sample!GetTime, Sample!GetMediaTime
      <4>3. Sample!LengthAccepted("out", sample["out"].actual)'
        BY <2>4, <4>1 DEF Sample!LengthAccepted, Sample!Size
      <4>4. QED
        BY <4>2, <4>3 DEF Sample!OutputSaysTheSame, Copied, Timed
    <3>2. QED
      BY <1>4, <2>2, <3>1
  <2>6. QED
    BY <1>3, <2>2, <2>3, <2>5 DEF Saying
<1>9. CASE Sample!InitializeOutputSample
  <2>1. PICK q : /\ Sound(q) /\ sample' = [sample EXCEPT !["out"] = q]
                 /\ Timed(q, sample["in"]) /\ q.actual = sample["out"].actual
    BY <1>1, <1>9, OutputSound
  <2>2. samplePc' = "initialised" /\ ~inPlace /\ samplePc = "buffer" /\ UNCHANGED freed
    BY <1>9 DEF Sample!InitializeOutputSample, Sample!refs
  <2>3. freed' # 1
    BY <1>1, <2>2 DEF Holding
  <2>4. sample'["out"] = q /\ sample'["in"] = sample["in"]
    BY <1>1, <2>1 DEF SampleTypes, Sample!Sides
  <2>5. q.actual \in 0..m_cbBuffer
    BY <1>1, <2>1, <2>2 DEF Saying
  <2>6. Sample!LengthAccepted("out", q.actual)'
    BY <1>1, <1>3, <2>5, SampleAssumption DEF Sample!LengthAccepted, Sample!Size, SampleTypes
  <2>7. Sample!OutputSaysTheSame'
    BY <2>1, <2>2, <2>4, <2>6 DEF Sample!OutputSaysTheSame, Timed, Sample!GetTime
  <2>8. QED
    BY <1>3, <2>2, <2>3, <2>4, <2>5, <2>7 DEF Saying
<1>10. CASE UNCHANGED <<sample, m_SampleProps, freed>> /\ samplePc' \in {samplePc, "delivered"}
  <2>1. Sample!OutputSaysTheSame'
    BY <1>1, <1>3, <1>10 DEF Saying, Sample!OutputSaysTheSame, Sample!GetTime,
       Sample!GetMediaTime, Sample!LengthAccepted, Sample!Size
  <2>2. QED
    BY <1>1, <1>3, <1>10, <2>1 DEF Saying, Sample!GetProperties
<1>11. ASSUME NEW h \in Sample!Holders, Sample!ReleaseEnds(h) PROVE Saying'
  <2>1. /\ releasing[h] # Sample!Unset /\ UNCHANGED m_SampleProps
        /\ freed' = (IF m_cRef' = 0 THEN freed + 1 ELSE freed)
        /\ sample' = (IF m_cRef' = 0
                      THEN [sample EXCEPT !["out"] = Sample!Recycled(sample["out"])] ELSE sample)
        /\ samplePc' \in {"done", samplePc}
    BY <1>11 DEF Sample!ReleaseEnds, Sample!Recycle
  <2>2. samplePc \notin {"buffer", "copied", "initialised"}
    <3>1. Holding
      BY <1>1
    <3>2. QED
      BY <1>11, <2>1, <3>1 DEF Holding, Sample!Holders
  <2>6. sample'["in"] = sample["in"]
    BY <1>1, <2>1 DEF SampleTypes, Sample!Sides
  <2>7. samplePc' \in {"received", "buffer"} =>
            m_SampleProps' = Sample!GetProperties(sample["in"])'
    BY <1>1, <2>1, <2>2, <2>6 DEF Saying, Sample!GetProperties
  <2>3. CASE m_cRef' = 0
    <3>1. sample'["out"] = Sample!Recycled(sample["out"])
      BY <1>1, <2>1, <2>3 DEF SampleTypes, Sample!Sides
    <3>2. /\ sample'["out"].flags = {} /\ sample'["out"].stream = "media"
          /\ sample'["out"].type = Sample!Null /\ sample'["out"].actual = sample["out"].actual
      BY <1>2, <3>1 DEF Sample!Recycled, Sound, AnySample, TypeFlagged
    <3>3. QED
      BY <1>1, <1>3, <1>4, <2>1, <2>2, <2>7, <3>2 DEF Saying
  <2>4. CASE m_cRef' # 0
    <3>1. UNCHANGED <<sample, freed>>
      BY <2>1, <2>4
    <3>2. QED
      BY <1>1, <1>3, <1>4, <2>1, <2>2, <2>7, <3>1 DEF Saying
  <2>5. QED
    BY <2>3, <2>4
<1>12. QED
  BY <1>5, <1>6, <1>7, <1>8, <1>9, <1>10, <1>11
     DEF Sample!Next, Samplevars, Sample!Deliver, Sample!ReleaseBegins, Sample!thread, Sample!refs

\* A sample, in any step,
LEMMA SampleStep == SampleInv /\ [Sample!Next]_Samplevars => SampleInv'
  BY HoldingStep, SampleTypesStep, SayingStep DEF SampleInv

\* from the beginning on.
LEMMA SampleInit == Sample!Init => SampleInv
<1> SUFFICES ASSUME Sample!Init PROVE SampleInv
  OBVIOUS
<1>1. m_cbBuffer \in Nat /\ InSize \in Nat
  BY SampleAssumption DEF Sample!Init
<1>2. sample["in"] = Sample!Blank(InSize) /\ sample["out"] = Sample!Blank(m_cbBuffer)
  BY DEF Sample!Init, Sample!Sides, Sample!Size
<1>3. SampleTypes
  <2>1. \A s \in Sample!Sides : Sound(sample[s])
    BY <1>1, <1>2, BlankSound DEF Sample!Sides
  <2>2. Sound(m_SampleProps)
    BY BlankSound DEF Sample!Init
  <2>3. QED
    BY <2>1, <2>2 DEF SampleTypes, Sample!Init, Sample!Sides
<1>4. Holding
  BY DEF Holding, Sample!Init, Sample!Holders
<1>5. Saying
  <2>1. /\ sample["out"].flags = {} /\ sample["out"].type = Sample!Null
        /\ sample["out"].stream = "media" /\ sample["out"].actual = m_cbBuffer
    BY <1>2 DEF Sample!Blank
  <2>2. samplePc = "fill" /\ m_cbBuffer \in 0..m_cbBuffer
    BY <1>1 DEF Sample!Init
  <2>3. Sample!OutputSaysTheSame
    BY <2>2 DEF Sample!OutputSaysTheSame
  <2>4. QED
    BY <2>1, <2>2, <2>3 DEF Saying
<1>6. QED
  BY <1>3, <1>4, <1>5 DEF SampleInv

\* What the run asks of samples.
LEMMA SampleSafe ==
    SampleInv => Sample!ReleasedOnce /\ Sample!SamplesClean /\ Sample!OutputSaysTheSame
<1> SUFFICES ASSUME SampleInv
             PROVE  Sample!ReleasedOnce /\ Sample!SamplesClean /\ Sample!OutputSaysTheSame
  OBVIOUS
<1>1. Sample!ReleasedOnce
  BY DEF SampleInv, SampleTypes, Holding, Sample!ReleasedOnce, Sample!Holders
<1>2. Sample!SamplesClean
  BY DEF SampleInv, SampleTypes, Saying, Sound, TypeFlagged, Sample!SamplesClean
<1>3. Sample!OutputSaysTheSame
  BY DEF SampleInv, Saying
<1>4. QED
  BY <1>1, <1>2, <1>3
-----------------------------------------------------------------------------
\* Images.

\* Colours there may be, and rectangles.
Colours == {f.colours : f \in Formats} \cup {Image!Null}
ImageRects == Image!Rects \cup {Image!EmptyRect}

\* The format and the next one, the colours of the buffers, the rectangles.
ImageTypes ==
    /\ m_mtIn \in Formats \cup {Image!NoFormat} /\ new \in Formats \cup {Image!NoFormat}
    /\ imagePc \in {"idle", "removed", "made", "prepared"}
    /\ m_PaletteVersion \in Nat
    /\ DibData \in [Image!Samples -> [version : Nat, table : Colours]]
    /\ m_SourceRect \in ImageRects /\ m_TargetRect \in ImageRects

\* The window and its device context know no palette but the one there is, which is
\* that of the format: the new one from MakePalette on.
Palettes ==
    /\ m_hPalette \in Nat /\ made \in Nat
    /\ windowPalette = IF imagePc \in {"removed", "made"} THEN 0 ELSE m_hPalette
    /\ selected \in {0, windowPalette}
    /\ imagePc = "removed" => m_hPalette = 0 /\ Image!ContainsPalette(new)
    /\ imagePc = "made" => m_hPalette # 0 /\ Image!ContainsPalette(new)
    /\ imagePc = "prepared" => (m_hPalette # 0 <=> Image!ContainsPalette(new))
    /\ imagePc = "idle" => (m_hPalette # 0 <=> Image!ContainsPalette(m_mtIn))

\* Buffers that are drawn as they are have the colours of f.
Current(f) ==
    \A s \in 1..m_lAllocated :
        DibData[s].version >= m_PaletteVersion => DibData[s].table = f.colours

\* A palette was installed for a format with colours, and the version of it is not
\* the one that a new buffer gets.
Coloured ==
    /\ m_PaletteVersion >= 1
    /\ \A s \in Image!Samples : DibData[s].version <= m_PaletteVersion
    /\ imagePc = "idle" /\ Image!ContainsPalette(m_mtIn) =>
           m_PaletteVersion >= 2 /\ Current(m_mtIn)
    /\ imagePc = "prepared" /\ Image!ContainsPalette(new) =>
           m_PaletteVersion >= 2 /\ Current(new)

\* What is allocated is no more than the count, and what is made of the next sample is
\* the rest of the bitmaps and mappings.
Counts ==
    /\ m_lCount \in 0..MaxCount /\ m_lAllocated \in 0..MaxCount
    /\ m_lFree \subseteq 1..m_lAllocated
    /\ allocating \in {"idle", "mapping", "bitmap", "sample"}
    /\ allocating # "idle" => m_lAllocated < m_lCount
    /\ IF allocating = "sample" THEN bitmaps = m_lAllocated + 1 ELSE bitmaps = m_lAllocated
    /\ IF allocating \in {"bitmap", "sample"} THEN mappings = m_lAllocated + 1
       ELSE mappings = m_lAllocated

\* Buffers are made while they are committed, and stay when that fails.
Committing ==
    /\ allocating # "idle" => m_bCommitted /\ ~m_bDecommitInProgress
    /\ m_bDecommitInProgress => ~m_bCommitted
    /\ ~m_bCommitted /\ ~m_bDecommitInProgress => m_lAllocated = left

\* Drawing stretches exactly when the rectangles differ.
Stretched == m_bStretch <=> Image!Height(m_SourceRect) # Image!Height(m_TargetRect)

\* Together inductive: a buffer is current by the version it was drawn with, and no
\* version is ahead of the count.
ImageInv == ImageTypes /\ Palettes /\ Coloured /\ Counts /\ Committing /\ Stretched

\* A palette is deselected before it is deleted, and installed where it is made.
LEMMA PalettesStep == ImageTypes /\ Palettes /\ [Image!Next]_Imagevars => Palettes'
<1> SUFFICES ASSUME ImageTypes, Palettes, [Image!Next]_Imagevars PROVE Palettes'
  OBVIOUS
<1> USE DEF Palettes, Image!ContainsPalette, Image!NoFormat
<1>1. CASE UNCHANGED <<Image!palette, m_mtIn, new, imagePc>>
  BY <1>1 DEF Image!palette
<1>2. ASSUME NEW f \in Formats, Image!PreparePalette(f) PROVE Palettes'
  <2>1. CASE Image!ShouldUpdate(f, m_mtIn)
    BY <1>2, <2>1 DEF Image!PreparePalette, Image!RemovePalette
  <2>2. CASE ~Image!ShouldUpdate(f, m_mtIn)
    BY <1>2, <2>2 DEF Image!PreparePalette, Image!ShouldUpdate, Image!palette
  <2>3. QED
    BY <2>1, <2>2
<1>3. CASE Image!MakePalette
  BY <1>3 DEF Image!MakePalette
<1>4. CASE Image!InstallPalette
  BY <1>4 DEF Image!InstallPalette
<1>5. CASE Image!NotifyMediaType
  BY <1>5 DEF Image!NotifyMediaType, Image!palette
<1>6. CASE Image!BreakConnect
  BY <1>6 DEF Image!BreakConnect, Image!RemovePalette
<1>7. CASE Image!SelectPalette
  BY <1>7 DEF Image!SelectPalette, Image!format
<1>8. QED
  BY <1>1, <1>2, <1>3, <1>4, <1>5, <1>6, <1>7
     DEF Image!Next, Imagevars, Image!palette, Image!format, Image!SetProperties, Image!Commit,
         Image!Decommit, Image!CreateFileMapping, Image!CreateDIBSection,
         Image!CreateImageSample, Image!GetBuffer, Image!ReleaseBuffer, Image!FastRender,
         Image!SetSourceRect, Image!SetTargetRect

\* Whoever sets a rectangle compares the two.
LEMMA StretchedStep == Stretched /\ [Image!Next]_Imagevars => Stretched'
<1> SUFFICES ASSUME Stretched, [Image!Next]_Imagevars PROVE Stretched'
  OBVIOUS
<1> USE DEF Stretched, Image!Height
<1>1. ASSUME NEW r, Image!SetSourceRect(r) \/ Image!SetTargetRect(r) PROVE Stretched'
  BY <1>1 DEF Image!SetSourceRect, Image!SetTargetRect, Image!SetStretchMode
<1>2. CASE UNCHANGED Image!rects
  BY <1>2 DEF Image!rects
<1>3. QED
  BY <1>1, <1>2
     DEF Image!Next, Imagevars, Image!rects, Image!SetProperties, Image!Commit,
         Image!Decommit, Image!CreateFileMapping, Image!CreateDIBSection,
         Image!CreateImageSample, Image!GetBuffer, Image!ReleaseBuffer, Image!FastRender,
         Image!PreparePalette, Image!MakePalette, Image!InstallPalette, Image!NotifyMediaType,
         Image!BreakConnect, Image!SelectPalette

\* An instance counts as the module it is in does.
LEMMA ImageCardinality == \A S : Image!Cardinality(S) = Cardinality(S)
  BY DEF Cardinality, Image!Cardinality

\* What is free is no more than there is.
LEMMA FreeCounted ==
    ASSUME m_lAllocated \in Nat, m_lFree \subseteq 1..m_lAllocated
    PROVE  /\ Cardinality(m_lFree) \in Nat /\ Cardinality(m_lFree) <= m_lAllocated
           /\ \A s \in 1..m_lAllocated \ m_lFree :
                  Cardinality(m_lFree \cup {s}) = Cardinality(m_lFree) + 1
<1>1. IsFiniteSet(1..m_lAllocated) /\ Cardinality(1..m_lAllocated) = m_lAllocated
  BY FS_Interval
<1>2. IsFiniteSet(m_lFree) /\ Cardinality(m_lFree) <= m_lAllocated
  BY <1>1, FS_Subset
<1>3. Cardinality(m_lFree) \in Nat
  BY <1>2, FS_CardinalityType
<1>4. ASSUME NEW s \in 1..m_lAllocated \ m_lFree
      PROVE  Cardinality(m_lFree \cup {s}) = Cardinality(m_lFree) + 1
  BY <1>2, <1>4, FS_AddElement
<1>5. QED
  BY <1>2, <1>3, <1>4

\* Bitmaps and mappings are those of the samples, also where the allocation of one fails.
LEMMA CountsStep == ImageTypes /\ Counts /\ Committing /\ [Image!Next]_Imagevars => Counts'
<1> SUFFICES ASSUME ImageTypes, Counts, Committing, [Image!Next]_Imagevars PROVE Counts'
  OBVIOUS
<1> DEFINE n == Cardinality(m_lFree)
<1>0. /\ n \in Nat /\ n <= m_lAllocated
      /\ \A s \in 1..m_lAllocated \ m_lFree : Cardinality(m_lFree \cup {s}) = n + 1
  BY FreeCounted, ImageAssumption DEF Counts
<1> HIDE DEF n
<1> USE ImageAssumption DEF Counts
<1>1. CASE UNCHANGED <<m_lCount, m_lAllocated, m_lFree, allocating, bitmaps, mappings>>
  BY <1>1
<1>2. ASSUME NEW k \in 1..MaxCount, Image!SetProperties(k) PROVE Counts'
  BY <1>2 DEF Image!SetProperties, Image!buffers
<1>3. CASE Image!Commit
  <2>1. /\ allocating = "idle" /\ UNCHANGED <<m_lCount, m_lAllocated, m_lFree, bitmaps, mappings>>
        /\ allocating' = "idle" \/ (allocating' = "mapping" /\ ~(m_lAllocated >= m_lCount))
    BY <1>3 DEF Image!Commit
  <2>2. QED
    BY <2>1
<1>4. ASSUME NEW ok \in BOOLEAN, Image!CreateFileMapping(ok) PROVE Counts'
  <2>1. /\ allocating = "mapping" /\ UNCHANGED <<m_lCount, m_lAllocated, m_lFree, bitmaps>>
        /\ \/ allocating' = "bitmap" /\ mappings' = mappings + 1
           \/ allocating' = "idle" /\ mappings' = mappings
    BY <1>4 DEF Image!CreateFileMapping, Image!AllocFails
  <2>2. QED
    BY <2>1
<1>5. ASSUME NEW ok \in BOOLEAN, Image!CreateDIBSection(ok) PROVE Counts'
  <2>1. /\ allocating = "bitmap" /\ UNCHANGED <<m_lCount, m_lAllocated, m_lFree>>
        /\ \/ allocating' = "sample" /\ bitmaps' = bitmaps + 1 /\ mappings' = mappings
           \/ allocating' = "idle" /\ bitmaps' = bitmaps /\ mappings' = mappings - 1
    BY <1>5 DEF Image!CreateDIBSection, Image!AllocFails
  <2>2. QED
    BY <2>1
<1>6. ASSUME NEW ok \in BOOLEAN, Image!CreateImageSample(ok) PROVE Counts'
  <2>1. allocating = "sample" /\ m_lCount' = m_lCount
    BY <1>6 DEF Image!CreateImageSample
  <2>2. ASSUME ~ok PROVE Counts'
    <3>1. /\ allocating' = "idle" /\ bitmaps' = bitmaps - 1 /\ mappings' = mappings - 1
          /\ UNCHANGED <<m_lAllocated, m_lFree>>
      BY <1>6, <2>2 DEF Image!CreateImageSample, Image!AllocFails
    <3>2. bitmaps = m_lAllocated + 1 /\ mappings = m_lAllocated + 1 /\ m_lAllocated \in Nat
      BY <2>1
    <3>3. bitmaps' = m_lAllocated' /\ mappings' = m_lAllocated'
      BY <3>1, <3>2
    <3>4. QED
      BY <2>1, <3>1, <3>3
  <2>3. ASSUME ok PROVE Counts'
    <3>1. /\ m_lAllocated' = m_lAllocated + 1 /\ m_lFree' = m_lFree \cup {m_lAllocated + 1}
          /\ allocating' = IF m_lAllocated + 1 < m_lCount THEN "mapping" ELSE "idle"
          /\ UNCHANGED <<bitmaps, mappings>>
      BY <1>6, <2>3 DEF Image!CreateImageSample, Image!AddSample
    <3>2. /\ bitmaps = m_lAllocated + 1 /\ mappings = m_lAllocated + 1
          /\ m_lAllocated \in 0..MaxCount /\ m_lCount \in 0..MaxCount /\ m_lAllocated < m_lCount
      BY <2>1
    <3>3. m_lAllocated' \in 0..MaxCount /\ bitmaps' = m_lAllocated' /\ mappings' = m_lAllocated'
      BY <3>1, <3>2
    <3>4. m_lFree' \subseteq 1..m_lAllocated'
      <4>1. 1..m_lAllocated \cup {m_lAllocated + 1} \subseteq 1..m_lAllocated'
        BY <3>1, <3>2
      <4>2. QED
        BY <3>1, <4>1
    <3>5. /\ allocating' \in {"idle", "mapping"}
          /\ allocating' = "mapping" => m_lAllocated' < m_lCount'
      BY <2>1, <3>1
    <3>6. QED
      BY <2>1, <3>2, <3>3, <3>4, <3>5
  <2>4. QED
    BY <1>6, <2>2, <2>3
<1>7. ASSUME NEW free, Image!Free(free), allocating = "idle", Cardinality(free) = m_lAllocated,
             UNCHANGED <<m_lCount, allocating>>
      PROVE  Counts'
  <2>1. /\ m_lFree' = {} /\ m_lAllocated' = 0
        /\ bitmaps' = bitmaps - m_lAllocated /\ mappings' = mappings - m_lAllocated
    BY <1>7, ImageCardinality DEF Image!Free
  <2>2. QED
    BY <1>7, <2>1
<1>8. CASE Image!Decommit
  <2>1. CASE n < m_lAllocated
    BY <1>1, <1>8, <2>1, ImageCardinality DEF Image!Decommit, n
  <2>2. CASE ~(n < m_lAllocated)
    <3>1. Cardinality(m_lFree) = m_lAllocated
      BY <1>0, <2>2 DEF n
    <3>2. Image!Free(m_lFree) /\ allocating = "idle" /\ UNCHANGED <<m_lCount, allocating>>
      BY <1>8, <2>2, ImageCardinality DEF Image!Decommit, n
    <3>3. QED
      BY <1>7, <3>1, <3>2
  <2>3. QED
    BY <2>1, <2>2
<1>9. ASSUME NEW s \in Image!Samples, Image!GetBuffer(s) PROVE Counts'
  BY <1>9 DEF Image!GetBuffer, Image!state
<1>10. ASSUME NEW s \in Image!Samples, Image!ReleaseBuffer(s) PROVE Counts'
  <2>1. CASE m_bDecommitInProgress /\ n + 1 = m_lAllocated
    <3>1. Cardinality(m_lFree \cup {s}) = m_lAllocated
      BY <1>0, <1>10, <2>1 DEF Image!ReleaseBuffer
    <3>2. Image!Free(m_lFree \cup {s}) /\ UNCHANGED <<m_lCount, allocating>>
      BY <1>10, <2>1, ImageCardinality DEF Image!ReleaseBuffer, n
    <3>3. allocating = "idle"
      BY <2>1 DEF Committing
    <3>4. QED
      BY <1>7, <3>1, <3>2, <3>3
  <2>2. CASE ~(m_bDecommitInProgress /\ n + 1 = m_lAllocated)
    <3>1. /\ m_lFree' = m_lFree \cup {s} /\ s \in 1..m_lAllocated
          /\ UNCHANGED <<m_lCount, m_lAllocated, allocating, bitmaps, mappings>>
      BY <1>10, <2>2, ImageCardinality DEF Image!ReleaseBuffer, n
    <3>2. QED
      BY <3>1
  <2>3. QED
    BY <2>1, <2>2
<1>11. QED
  BY <1>1, <1>2, <1>3, <1>4, <1>5, <1>6, <1>8, <1>9, <1>10
     DEF Image!Next, Imagevars, Image!state, Image!buffers, Image!PreparePalette,
         Image!MakePalette, Image!InstallPalette, Image!NotifyMediaType, Image!BreakConnect,
         Image!SelectPalette, Image!FastRender, Image!SetSourceRect, Image!SetTargetRect

\* Buffers are freed when the last comes back.
LEMMA CommittingStep == Committing /\ [Image!Next]_Imagevars => Committing'
<1> SUFFICES ASSUME Committing, [Image!Next]_Imagevars PROVE Committing'
  OBVIOUS
<1> USE DEF Committing, Image!state
<1>1. CASE UNCHANGED <<m_bCommitted, m_bDecommitInProgress, m_lAllocated, allocating, left>>
  BY <1>1
<1>2. CASE Image!Commit
  BY <1>2 DEF Image!Commit
<1>3. ASSUME Image!AllocFails, UNCHANGED m_bDecommitInProgress, allocating # "idle"
      PROVE  Committing'
  BY <1>3 DEF Image!AllocFails
<1>4. ASSUME NEW ok \in BOOLEAN,
             Image!CreateFileMapping(ok) \/ Image!CreateDIBSection(ok)
      PROVE  Committing'
  BY <1>3, <1>4 DEF Image!CreateFileMapping, Image!CreateDIBSection
<1>5. ASSUME NEW ok \in BOOLEAN, Image!CreateImageSample(ok) PROVE Committing'
  <2>1. m_bDecommitInProgress' = m_bDecommitInProgress /\ allocating = "sample"
    BY <1>5 DEF Image!CreateImageSample
  <2>2. ASSUME Image!AddSample PROVE Committing'
    <3>1. m_bCommitted' = m_bCommitted
      BY <2>2 DEF Image!AddSample
    <3>2. QED
      BY <2>1, <3>1
  <2>3. QED
    BY <1>3, <1>5, <2>1, <2>2 DEF Image!CreateImageSample
<1>6. ASSUME NEW s, Image!ReleaseBuffer(s) PROVE Committing'
  <2>1. ASSUME Image!Free(m_lFree \cup {s}), m_bDecommitInProgress' = FALSE,
               m_bDecommitInProgress, UNCHANGED <<m_bCommitted, allocating>>
        PROVE  Committing'
    BY <2>1 DEF Image!Free
  <2>2. \/ UNCHANGED <<m_bCommitted, m_bDecommitInProgress, m_lAllocated, allocating, left>>
        \/ /\ Image!Free(m_lFree \cup {s}) /\ m_bDecommitInProgress' = FALSE
           /\ m_bDecommitInProgress /\ UNCHANGED <<m_bCommitted, allocating>>
    BY <1>6 DEF Image!ReleaseBuffer
  <2>3. QED
    BY <1>1, <2>1, <2>2
<1>7. CASE Image!Decommit
  <2>1. /\ allocating = "idle" /\ m_bCommitted /\ m_bCommitted' = FALSE
        /\ UNCHANGED allocating
        /\ \/ m_bDecommitInProgress' = TRUE
           \/ Image!Free(m_lFree) /\ UNCHANGED m_bDecommitInProgress
    BY <1>7 DEF Image!Decommit
  <2>2. CASE m_bDecommitInProgress' = TRUE
    BY <2>1, <2>2
  <2>3. CASE Image!Free(m_lFree)
    <3>1. m_lAllocated' = left'
      BY <2>3 DEF Image!Free
    <3>2. QED
      BY <2>1, <3>1
  <2>4. QED
    BY <2>1, <2>2, <2>3
<1>8. QED
  BY <1>1, <1>2, <1>4, <1>5, <1>6, <1>7
     DEF Image!Next, Imagevars, Image!buffers, Image!PreparePalette,
         Image!MakePalette, Image!InstallPalette, Image!NotifyMediaType, Image!BreakConnect,
         Image!SelectPalette, Image!FastRender, Image!SetSourceRect, Image!SetTargetRect,
         Image!SetProperties, Image!GetBuffer

\* The types.
LEMMA ImageTypesStep ==
    ImageTypes /\ Counts /\ [Image!Next]_Imagevars => ImageTypes'
<1> SUFFICES ASSUME ImageTypes, Counts, [Image!Next]_Imagevars PROVE ImageTypes'
  OBVIOUS
<1> USE ImageAssumption
<1> DEFINE Buffers == DibData \in [Image!Samples -> [version : Nat, table : Colours]]
           Format == /\ m_mtIn \in Formats \cup {Image!NoFormat}
                     /\ new \in Formats \cup {Image!NoFormat}
                     /\ imagePc \in {"idle", "removed", "made", "prepared"}
                     /\ m_PaletteVersion \in Nat
           Drawn == m_SourceRect \in ImageRects /\ m_TargetRect \in ImageRects
<1>1. Format /\ Drawn /\ Buffers
  BY DEF ImageTypes
<1>2. m_mtIn.colours \in Colours /\ Image!Null \in Colours
  BY <1>1 DEF Colours, Image!NoFormat
<1>3. Format'
  <2>1. CASE UNCHANGED Image!format
    BY <1>1, <2>1 DEF Image!format
  <2>2. ASSUME NEW f \in Formats, Image!PreparePalette(f) PROVE Format'
    BY <1>1, <2>2 DEF Image!PreparePalette
  <2>3. CASE Image!MakePalette
    BY <1>1, <2>3 DEF Image!MakePalette
  <2>4. CASE Image!InstallPalette
    BY <1>1, <2>4 DEF Image!InstallPalette
  <2>5. CASE Image!NotifyMediaType \/ Image!BreakConnect
    BY <1>1, <2>5 DEF Image!NotifyMediaType, Image!BreakConnect
  <2>6. QED
    BY <2>1, <2>2, <2>3, <2>4, <2>5 DEF Image!Next, Imagevars, Image!SelectPalette,
       Image!SetProperties, Image!Commit, Image!Decommit, Image!CreateFileMapping,
       Image!CreateDIBSection, Image!CreateImageSample, Image!GetBuffer,
       Image!ReleaseBuffer, Image!FastRender, Image!SetSourceRect, Image!SetTargetRect,
       Image!format
<1>4. Drawn'
  BY <1>1 DEF Image!Next, Imagevars, Image!rects, Image!SetProperties, Image!Commit,
     Image!Decommit, Image!CreateFileMapping, Image!CreateDIBSection,
     Image!CreateImageSample, Image!GetBuffer, Image!ReleaseBuffer, Image!FastRender,
     Image!PreparePalette, Image!MakePalette, Image!InstallPalette, Image!NotifyMediaType,
     Image!BreakConnect, Image!SelectPalette, Image!SetSourceRect, Image!SetTargetRect,
     ImageRects
<1>5. Buffers'
  <2>1. CASE UNCHANGED DibData
    BY <1>1, <2>1
  <2>2. ASSUME Image!AddSample PROVE Buffers'
    BY <1>1, <1>2, <2>2 DEF Image!AddSample, Image!PALETTE_VERSION, Image!Samples
  <2>3. ASSUME NEW free, Image!Free(free) PROVE Buffers'
    BY <1>2, <2>3 DEF Image!Free
  <2>4. ASSUME NEW s \in Image!Samples, Image!FastRender(s) PROVE Buffers'
    <3> DEFINE table == IF Image!ContainsPalette(m_mtIn) THEN m_mtIn.colours
                        ELSE DibData[s].table
    <3>1. UNCHANGED DibData \/ DibData' = [DibData EXCEPT ![s] =
              [version |-> m_PaletteVersion, table |-> table]]
      BY <1>1, <2>4 DEF Image!FastRender
    <3>2. table \in Colours
      BY <1>1, <1>2
    <3> HIDE DEF table
    <3>3. QED
      BY <1>1, <3>1, <3>2
  <2>5. QED
    BY <2>1, <2>2, <2>3, <2>4 DEF Image!Next, Imagevars, Image!buffers, Image!PreparePalette,
       Image!MakePalette, Image!InstallPalette, Image!NotifyMediaType, Image!BreakConnect,
       Image!SelectPalette, Image!SetProperties, Image!Commit, Image!Decommit,
       Image!CreateFileMapping, Image!CreateDIBSection, Image!CreateImageSample,
       Image!AllocFails, Image!GetBuffer, Image!ReleaseBuffer, Image!SetSourceRect,
       Image!SetTargetRect
<1>6. QED
  BY <1>3, <1>4, <1>5 DEF ImageTypes

\* Colours reach the buffers when they are drawn the first time after a new palette.
LEMMA ColouredStep ==
    ImageTypes /\ Coloured /\ Counts /\ [Image!Next]_Imagevars => Coloured'
<1> SUFFICES ASSUME ImageTypes, Coloured, Counts, [Image!Next]_Imagevars PROVE Coloured'
  OBVIOUS
<1> USE ImageAssumption
<1>1. /\ ImageTypes' /\ m_PaletteVersion \in Nat /\ m_lAllocated \in 0..MaxCount
      /\ \A s \in Image!Samples : DibData[s].version \in Nat
  BY ImageTypesStep DEF ImageTypes, Counts
<1>2. CASE UNCHANGED <<Image!format, m_lAllocated, DibData>>
  BY <1>2 DEF Coloured, Current, Image!format
<1>3. ASSUME NEW f \in Formats, Image!PreparePalette(f) PROVE Coloured'
  <2>1. /\ imagePc = "idle" /\ imagePc' \in {"removed", "prepared"}
        /\ UNCHANGED <<m_PaletteVersion, m_lAllocated, DibData>> /\ new' = f
    BY <1>3 DEF Image!PreparePalette, Image!buffers
  <2>2. ASSUME imagePc' = "prepared", Image!ContainsPalette(f)
        PROVE  Image!ContainsPalette(m_mtIn) /\ f.colours = m_mtIn.colours
    BY <1>3, <2>2 DEF Image!PreparePalette, Image!ShouldUpdate
  <2>3. QED
    BY <2>1, <2>2 DEF Coloured, Current, Image!ContainsPalette
<1>4. CASE Image!MakePalette
  BY <1>4 DEF Image!MakePalette, Image!buffers, Coloured
<1>5. CASE Image!InstallPalette
  <2>1. /\ m_PaletteVersion' = m_PaletteVersion + 1 /\ UNCHANGED <<DibData, m_lAllocated>>
        /\ imagePc' = "prepared"
    BY <1>5 DEF Image!InstallPalette, Image!buffers
  <2>2. \A s \in Image!Samples : DibData'[s].version < m_PaletteVersion'
    BY <1>1, <2>1 DEF Coloured
  <2>3. \A s \in 1..m_lAllocated' : s \in Image!Samples
    BY <1>1, <2>1 DEF Image!Samples
  <2>4. Current(new)'
    BY <1>1, <2>1, <2>2, <2>3 DEF Current
  <2>5. QED
    BY <1>1, <2>1, <2>2, <2>4 DEF Coloured
<1>6. CASE Image!NotifyMediaType
  BY <1>6 DEF Image!NotifyMediaType, Image!buffers, Coloured, Current
<1>7. CASE Image!BreakConnect
  BY <1>7 DEF Image!BreakConnect, Image!buffers, Coloured, Image!ContainsPalette, Image!NoFormat
<1>8. ASSUME Image!AddSample, UNCHANGED Image!format, allocating # "idle" PROVE Coloured'
  <2> DEFINE s == m_lAllocated + 1
  <2>1. /\ m_lAllocated' = s /\ s \in Image!Samples
        /\ DibData' = [DibData EXCEPT ![s] = [version |-> 1, table |-> m_mtIn.colours]]
    BY <1>1, <1>8 DEF Image!AddSample, Image!PALETTE_VERSION, Image!Samples, Counts
  <2>2. DibData'[s].version = 1 /\ \A t \in Image!Samples \ {s} : DibData'[t] = DibData[t]
    BY <2>1 DEF ImageTypes
  <2>3. \A t \in 1..s : t \in Image!Samples /\ (t = s \/ t \in 1..m_lAllocated)
    BY <1>1, <2>1 DEF Image!Samples
  <2> HIDE DEF s
  <2>4. ASSUME NEW f, m_PaletteVersion >= 2, Current(f) PROVE Current(f)'
    BY <1>1, <1>8, <2>1, <2>2, <2>3, <2>4 DEF Current, Image!format
  <2>5. QED
    BY <1>1, <1>8, <2>1, <2>2, <2>4 DEF Coloured, Image!format
<1>9. ASSUME NEW free, Image!Free(free), UNCHANGED Image!format PROVE Coloured'
  <2>1. m_lAllocated' = 0 /\ \A s \in Image!Samples : DibData'[s].version = 0
    BY <1>9 DEF Image!Free
  <2>2. Current(m_mtIn)' /\ Current(new)'
    BY <2>1 DEF Current
  <2>3. QED
    BY <1>1, <1>9, <2>1, <2>2 DEF Coloured, Image!format
<1>10. ASSUME NEW s \in Image!Samples, Image!FastRender(s) PROVE Coloured'
  <2> DEFINE table == IF Image!ContainsPalette(m_mtIn) THEN m_mtIn.colours
                      ELSE DibData[s].table
  <2>1. /\ UNCHANGED DibData \/ DibData' = [DibData EXCEPT ![s] =
              [version |-> m_PaletteVersion, table |-> table]]
        /\ UNCHANGED <<Image!format, m_lAllocated>> /\ imagePc = "idle"
    BY <1>10 DEF Image!FastRender, ImageTypes
  <2>2. Image!ContainsPalette(m_mtIn) => table = m_mtIn.colours
    OBVIOUS
  <2> HIDE DEF table
  <2>3. ASSUME DibData' = [DibData EXCEPT ![s] = [version |-> m_PaletteVersion, table |-> table]]
        PROVE  Coloured'
    <3>1. /\ DibData'[s].version = m_PaletteVersion /\ DibData'[s].table = table
          /\ \A t \in Image!Samples \ {s} : DibData'[t] = DibData[t]
      BY <2>3 DEF ImageTypes
    <3>2. \A t \in 1..m_lAllocated : t \in Image!Samples
      BY <1>1 DEF Image!Samples
    <3>3. ASSUME Current(m_mtIn), Image!ContainsPalette(m_mtIn) PROVE Current(m_mtIn)'
      BY <2>1, <2>2, <3>1, <3>2, <3>3 DEF Current, Image!format
    <3>4. QED
      BY <1>1, <2>1, <3>1, <3>3 DEF Coloured, Image!format
  <2>4. QED
    BY <1>2, <2>1, <2>3
<1>11. CASE Image!Decommit
  BY <1>2, <1>9, <1>11 DEF Image!Decommit
<1>12. ASSUME NEW s \in Image!Samples, Image!ReleaseBuffer(s) PROVE Coloured'
  BY <1>2, <1>9, <1>12 DEF Image!ReleaseBuffer
<1>13. ASSUME NEW ok \in BOOLEAN, Image!CreateImageSample(ok) PROVE Coloured'
  BY <1>2, <1>8, <1>13 DEF Image!CreateImageSample, Image!AllocFails
<1>14. ASSUME NEW ok \in BOOLEAN, Image!CreateFileMapping(ok) \/ Image!CreateDIBSection(ok)
       PROVE  Coloured'
  BY <1>2, <1>14 DEF Image!CreateFileMapping, Image!CreateDIBSection, Image!AllocFails
<1>15. CASE \/ Image!SelectPalette \/ \E n \in 1..MaxCount : Image!SetProperties(n)
            \/ Image!Commit \/ \E s \in Image!Samples : Image!GetBuffer(s)
            \/ \E r \in Image!Rects : Image!SetSourceRect(r) \/ Image!SetTargetRect(r)
  <2>1. UNCHANGED <<Image!format, m_lAllocated, DibData>>
    BY <1>15 DEF Image!SelectPalette, Image!SetProperties, Image!Commit, Image!GetBuffer,
       Image!SetSourceRect, Image!SetTargetRect, Image!buffers
  <2>2. QED
    BY <1>2, <2>1
<1>16. CASE UNCHANGED Imagevars
  BY <1>2, <1>16 DEF Imagevars, Image!format
<1>17. QED
  BY <1>3, <1>4, <1>5, <1>6, <1>7, <1>10, <1>11, <1>12, <1>13, <1>14, <1>15, <1>16
     DEF Image!Next

\* Images, in any step,
LEMMA ImageStep == ImageInv /\ [Image!Next]_Imagevars => ImageInv'
  BY ImageTypesStep, PalettesStep, ColouredStep, CountsStep, CommittingStep, StretchedStep
     DEF ImageInv

\* from the beginning on.
LEMMA ImageInit == Image!Init => ImageInv
<1> SUFFICES ASSUME Image!Init PROVE ImageInv
  OBVIOUS
<1> USE ImageAssumption DEF Image!Init, Image!NoFormat
<1>1. ImageTypes
  <2>1. DibData \in [Image!Samples -> [version : Nat, table : Colours]]
    BY DEF Colours
  <2>2. m_PaletteVersion \in Nat
    BY DEF Image!PALETTE_VERSION
  <2>3. QED
    BY <2>1, <2>2 DEF ImageTypes, ImageRects
<1>2. Palettes
  BY DEF Palettes, Image!ContainsPalette
<1>3. Coloured
  BY DEF Coloured, Image!ContainsPalette, Image!PALETTE_VERSION
<1>4. Counts /\ Committing
  BY DEF Counts, Committing
<1>5. Stretched
  BY DEF Stretched, Image!Height, Image!EmptyRect
<1>6. QED
  BY <1>1, <1>2, <1>3, <1>4, <1>5 DEF ImageInv

\* Turned over and counted from the other end, the lines are those of the rectangle.
LEMMA LinesAlike ==
    ASSUME NEW r, r.top \in Int, r.bottom \in Int, NEW h \in Int
    PROVE  Image!LinesOfDIB(Image!AdjustedSourceTop(r, h), r, h) = Image!LinesOfDC(r)
<1> DEFINE top == r.top
           bottom == r.bottom
<1>1. CASE h > 0
  <2> DEFINE turned == {h - 1 - l : l \in (h - bottom)..((h - bottom) + (bottom - top) - 1)}
  <2>1. Image!LinesOfDIB(Image!AdjustedSourceTop(r, h), r, h) = turned
    BY <1>1 DEF Image!LinesOfDIB, Image!AdjustedSourceTop, Image!Height
  <2> HIDE DEF top, bottom
  <2>2. ASSUME NEW k \in turned PROVE k \in top..(bottom - 1)
    BY <2>2 DEF top, bottom
  <2>3. ASSUME NEW k \in top..(bottom - 1) PROVE k \in turned
    <3>1. h - 1 - k \in (h - bottom)..((h - bottom) + (bottom - top) - 1)
      BY <2>3 DEF top, bottom
    <3>2. k = h - 1 - (h - 1 - k)
      BY <2>3 DEF top, bottom
    <3>3. QED
      BY <3>1, <3>2
  <2>4. QED
    BY <2>1, <2>2, <2>3 DEF Image!LinesOfDC, top, bottom
<1>2. CASE ~(h > 0)
  <2>1. top + (bottom - top) - 1 = bottom - 1
    OBVIOUS
  <2>2. QED
    BY <1>2, <2>1 DEF Image!LinesOfDIB, Image!AdjustedSourceTop, Image!Height, Image!LinesOfDC
<1>3. QED
  BY <1>1, <1>2

\* What the run asks of images.
LEMMA ImageSafe ==
    ImageInv => /\ Image!DIBsAccounted /\ Image!PaletteInUse
                /\ Image!ColoursCurrent /\ Image!DrawnAlike
<1> SUFFICES ASSUME ImageInv
             PROVE  /\ Image!DIBsAccounted /\ Image!PaletteInUse
                    /\ Image!ColoursCurrent /\ Image!DrawnAlike
  OBVIOUS
<1>1. Image!DIBsAccounted
  BY ImageAssumption DEF ImageInv, Counts, Committing, Image!DIBsAccounted
<1>2. Image!PaletteInUse
  BY DEF ImageInv, Palettes, Image!PaletteInUse
<1>3. Image!ColoursCurrent
  BY DEF ImageInv, Coloured, Current, Image!ColoursCurrent
<1>4. Image!DrawnAlike
  <2>1. m_SourceRect.top \in Int /\ m_SourceRect.bottom \in Int
    BY DEF ImageInv, ImageTypes, ImageRects, Image!Rects, Image!EmptyRect
  <2>2. \A h \in {f.height : f \in Formats} : h \in Int
    BY ImageAssumption
  <2>3. QED
    BY <2>1, <2>2, LinesAlike DEF ImageInv, Stretched, Image!DrawnAlike
<1>5. QED
  BY <1>1, <1>2, <1>3, <1>4
-----------------------------------------------------------------------------
\* The window.

\* Places, the steps a caller of the window can be at, and what can change.
Rects == [at : [Axes -> Int], size : [Axes -> Int]]
WindowSteps == {"idle", "edge", "setEdge", "style", "rect", "styled", "aside", "shown",
                "hidden", "moveBack", "activate", "activateAt", "align", "alignAt"}
Aspects == {"place", "visible"}

WindowTypes ==
    /\ place \in Rects /\ asked \in Rects /\ rect \in [Window!Movers -> Rects]
    /\ wanted.value \in Int
    /\ windowPc \in [Window!Movers -> WindowSteps]
    /\ overtaken \in [Window!Movers -> SUBSET Aspects] /\ windowLost \in SUBSET Aspects

\* What the application goes by is where the window is, or, while the window is moved
\* aside, where it should be.
ApplicationSees ==
    "place" \in overtaken["application"]
    \/ /\ windowPc["application"] \in {"edge", "styled"} =>
              rect["application"] = Window!OnScreen(place)
       /\ windowPc["application"] = "setEdge" => rect["application"] = place
       /\ windowPc["application"] \in {"aside", "shown", "hidden"} =>
              "place" \in windowLost \/ rect["application"] = Window!OnScreen(asked)
       /\ windowPc["application"] = "moveBack" =>
              "place" \in windowLost \/ rect["application"] = asked

\* The filter goes by where the window is, and moves none that has a parent.
FilterSees ==
    "place" \in overtaken["filter"]
    \/ /\ windowPc["filter"] = "align" => rect["filter"] = Window!OnScreen(place)
       /\ windowPc["filter"] \in {"activate", "activateAt", "alignAt"} => ~m_hwndOwner
       /\ windowPc["filter"] \in {"activateAt", "alignAt"} => rect["filter"] = place

\* While its style is set, a window is shown again if it was, and was not to be shown if
\* it was not.
VisibleSeen ==
    /\ windowPc["application"] \in {"rect", "styled"} =>
           IF bVisible THEN shown \/ "visible" \in windowLost \cup overtaken["application"]
           ELSE ~shown
    /\ windowPc["application"] \in {"aside", "shown", "hidden", "moveBack"} => ~shown

\* Together inductive.
WindowInv ==
    WindowTypes /\ ApplicationSees /\ FilterSees /\ VisibleSeen /\ Window!WindowAsAsked

\* What GetWindowRect gets is mapped back to where the window is.
LEMMA PlaceMapped ==
    ASSUME NEW r \in Rects
    PROVE  /\ Window!OnScreen(r) \in Rects
           /\ Window!MapWindowPoints(r) \in Rects
           /\ Window!MapWindowPoints(Window!OnScreen(r)) = r
           /\ ~m_hwndOwner => Window!OnScreen(r) = r
<1>1. /\ \A p \in [Axes -> Int] : /\ Window!Plus(p, Origin) \in [Axes -> Int]
                                  /\ Window!Minus(p, Origin) \in [Axes -> Int]
      /\ \A p \in [Axes -> Int] : Window!Minus(Window!Plus(p, Origin), Origin) = p
  BY WindowAssumption DEF Window!Plus, Window!Minus
<1>2. r.at \in [Axes -> Int] /\ r.size \in [Axes -> Int] /\ r = [at |-> r.at, size |-> r.size]
  BY DEF Rects
<1> DEFINE p == Window!Plus(r.at, Origin)
<1>3. p \in [Axes -> Int] /\ Window!Minus(p, Origin) = r.at
  BY <1>1, <1>2
<1>4. CASE m_hwndOwner
  <2>1. Window!OnScreen(r) = [at |-> p, size |-> r.size]
    BY <1>2, <1>4 DEF Window!OnScreen
  <2> HIDE DEF p
  <2>2. Window!MapWindowPoints(Window!OnScreen(r)) = r
    BY <1>2, <1>3, <1>4, <2>1 DEF Window!MapWindowPoints
  <2>3. Window!MapWindowPoints(r) = [at |-> Window!Minus(r.at, Origin), size |-> r.size]
    BY <1>2, <1>4 DEF Window!MapWindowPoints
  <2>4. Window!Minus(r.at, Origin) \in [Axes -> Int]
    BY <1>1, <1>2
  <2>5. QED
    BY <1>2, <1>3, <1>4, <2>1, <2>2, <2>3, <2>4 DEF Rects
<1>5. CASE ~m_hwndOwner
  <2>1. Window!OnScreen(r) = r /\ Window!MapWindowPoints(r) = r
    BY <1>2, <1>5 DEF Window!OnScreen, Window!MapWindowPoints
  <2>2. QED
    BY <1>5, <2>1
<1>6. QED
  BY <1>4, <1>5

\* What a caller's step leaves of the steps, the rectangles and the looks.
LEMMA CallerGoes ==
    ASSUME WindowTypes, NEW c \in Window!Movers, NEW from, NEW to \in WindowSteps,
           Window!Goes(c, from, to)
    PROVE  /\ windowPc' \in [Window!Movers -> WindowSteps]
           /\ windowPc[c] = from /\ windowPc'[c] = to
           /\ \A d \in Window!Movers \ {c} : windowPc'[d] = windowPc[d]
  BY DEF Window!Goes, WindowTypes

LEMMA CallerHolds ==
    ASSUME WindowTypes, NEW c \in Window!Movers, NEW r \in Rects,
           rect' = [rect EXCEPT ![c] = r]
    PROVE  /\ rect' \in [Window!Movers -> Rects] /\ rect'[c] = r
           /\ \A d \in Window!Movers \ {c} : rect'[d] = rect[d]
  BY DEF WindowTypes

LEMMA CallerLooks ==
    ASSUME WindowTypes, NEW c \in Window!Movers, NEW seen \in SUBSET Aspects,
           overtaken' = [overtaken EXCEPT ![c] = seen]
    PROVE  /\ overtaken' \in [Window!Movers -> SUBSET Aspects] /\ overtaken'[c] = seen
           /\ \A d \in Window!Movers \ {c} : overtaken'[d] = overtaken[d]
  BY DEF WindowTypes

LEMMA CallerOvertakes ==
    ASSUME WindowTypes, NEW c, NEW what \in Aspects, Window!Overtakes(c, what)
    PROVE  /\ overtaken' \in [Window!Movers -> SUBSET Aspects]
           /\ \A d \in Window!Movers : d # c => overtaken'[d] = overtaken[d] \cup {what}
           /\ c \in Window!Movers => overtaken'[c] = overtaken[c]
  BY DEF WindowTypes, Window!Overtakes

\* The window, in any step,
LEMMA WindowStep == WindowInv /\ [Window!Next]_Windowvars => WindowInv'
<1> SUFFICES ASSUME WindowInv, [Window!Next]_Windowvars PROVE WindowInv'
  OBVIOUS
<1> USE DEF WindowInv, WindowTypes, ApplicationSees, FilterSees, VisibleSeen,
            Window!WindowAsAsked, Window!settled, Window!call
<1>t. WindowTypes
  OBVIOUS
<1>0. \A r \in Rects : /\ Window!OnScreen(r) \in Rects
                       /\ Window!MapWindowPoints(r) \in Rects
                       /\ Window!MapWindowPoints(Window!OnScreen(r)) = r
                       /\ ~m_hwndOwner => Window!OnScreen(r) = r
  BY PlaceMapped
<1>c. "application" \in Window!Movers /\ "filter" \in Window!Movers
      /\ "application" # "filter" /\ "user" # "application" /\ "user" # "filter"
  BY DEF Window!Movers
<1>s. \A x \in {"idle", "edge", "setEdge", "style", "rect", "styled", "aside", "shown",
                "hidden", "moveBack", "activate", "activateAt", "align", "alignAt"} :
          x \in WindowSteps
  BY DEF WindowSteps
<1>a. "place" \in Aspects /\ "visible" \in Aspects
  BY DEF Aspects
<1>r. Window!NoRect \in Rects
  BY DEF Window!NoRect, Window!Each, Rects
<1>e. \A r \in Rects : Window!Edge(r) \in Rects
  BY DEF Window!Edge, Rects
<1>g. /\ \A r \in Rects : Window!Aligned(r.at) \in [Axes -> Int]
      /\ Window!DefaultSize \in [Axes -> Int]
  BY WindowAssumption DEF Window!Aligned, Rects, Window!DefaultSize, Window!Each
<1>1. CASE UNCHANGED Windowvars
  BY <1>1 DEF Windowvars, Window!OnScreen
<1>2. ASSUME NEW what, NEW i, NEW value \in Int, Window!PutEdge(what, i, value) PROVE WindowInv'
  <2>1. /\ windowPc' \in [Window!Movers -> WindowSteps]
        /\ windowPc'["application"] = "edge" /\ windowPc'["filter"] = windowPc["filter"]
        /\ windowPc["application"] = "idle"
    BY <1>2, <1>t, <1>c, <1>s, CallerGoes DEF Window!PutEdge, Window!Looks
  <2>2. /\ overtaken' \in [Window!Movers -> SUBSET Aspects]
        /\ overtaken'["application"] = {} /\ overtaken'["filter"] = overtaken["filter"]
    BY <1>2, <1>t, <1>c, CallerLooks DEF Window!PutEdge, Window!Looks
  <2>3. /\ rect' \in [Window!Movers -> Rects]
        /\ rect'["application"] = Window!OnScreen(place) /\ rect'["filter"] = rect["filter"]
    BY <1>2, <1>t, <1>c, <1>0, CallerHolds DEF Window!PutEdge, Window!Reads, Window!GetWindowRect
  <2>4. /\ UNCHANGED <<place, visible, asked, shown, windowLost, m_hwndOwner, bVisible>>
        /\ wanted'.value \in Int /\ Window!OnScreen(place)' = Window!OnScreen(place)
    BY <1>2 DEF Window!PutEdge, Window!OnScreen
  <2>5. QED
    BY <2>1, <2>2, <2>3, <2>4
<1>3. CASE Window!MapRect
  <2>1. /\ rect' \in [Window!Movers -> Rects]
        /\ rect'["application"] = Window!MapWindowPoints(rect["application"])
        /\ rect'["filter"] = rect["filter"]
    BY <1>3, <1>t, <1>c, <1>0, CallerHolds DEF Window!MapRect
  <2>2. UNCHANGED <<place, visible, asked, shown, windowLost, m_hwndOwner, bVisible, wanted,
                    overtaken, Window!OnScreen(place)>>
    BY <1>3 DEF Window!MapRect, Window!OnScreen
  <2>3. ASSUME Window!Goes("application", "edge", "setEdge") PROVE WindowInv'
    <3>1. /\ windowPc' \in [Window!Movers -> WindowSteps]
          /\ windowPc["application"] = "edge" /\ windowPc'["application"] = "setEdge"
          /\ windowPc'["filter"] = windowPc["filter"]
      BY <2>3, <1>t, <1>c, <1>s, CallerGoes
    <3>2. QED
      BY <1>0, <2>1, <2>2, <3>1
  <2>4. ASSUME Window!Goes("application", "hidden", "moveBack") PROVE WindowInv'
    <3>1. /\ windowPc' \in [Window!Movers -> WindowSteps]
          /\ windowPc["application"] = "hidden" /\ windowPc'["application"] = "moveBack"
          /\ windowPc'["filter"] = windowPc["filter"]
      BY <2>4, <1>t, <1>c, <1>s, CallerGoes
    <3>2. QED
      BY <1>0, <2>1, <2>2, <3>1
  <2>5. QED
    BY <1>3, <2>3, <2>4 DEF Window!MapRect
<1>4. CASE Window!SetEdge
  <2>1. /\ windowPc' \in [Window!Movers -> WindowSteps]
        /\ windowPc["application"] = "setEdge" /\ windowPc'["application"] = "idle"
        /\ windowPc'["filter"] = windowPc["filter"]
    BY <1>4, <1>t, <1>c, <1>s, CallerGoes DEF Window!SetEdge, Window!Returns
  <2>2. /\ rect' \in [Window!Movers -> Rects]
        /\ rect'["filter"] = rect["filter"]
    BY <1>4, <1>t, <1>c, <1>r, CallerHolds DEF Window!SetEdge, Window!Returns
  <2>3. /\ overtaken' \in [Window!Movers -> SUBSET Aspects]
        /\ overtaken'["application"] = overtaken["application"]
        /\ overtaken'["filter"] = overtaken["filter"] \cup {"place"}
    BY <1>4, <1>t, <1>c, <1>a, CallerOvertakes DEF Window!SetEdge
  <2>4. /\ place' = Window!Edge(rect["application"]) /\ asked' = Window!Edge(asked)
        /\ wanted'.value \in Int
        /\ UNCHANGED <<visible, shown, m_hwndOwner, bVisible>>
        /\ windowLost' = windowLost \cup (overtaken["application"] \cap {"place"})
    BY <1>4, <1>t, <1>0, <1>c, <1>a DEF Window!SetEdge, Window!Depends, Window!NoEdge
  <2>5. place' \in Rects /\ asked' \in Rects
    BY <1>4, <1>c, <1>e, <2>4
  <2>6. windowLost' \in SUBSET Aspects
    BY <1>4, <2>4, <1>a
  <2>7. QED
    BY <2>1, <2>2, <2>3, <2>4, <2>5, <2>6
<1>5. ASSUME NEW r \in Rects, Window!SetWindowPosition(r) PROVE WindowInv'
  <2>1. /\ overtaken' \in [Window!Movers -> SUBSET Aspects]
        /\ overtaken'["application"] = overtaken["application"]
        /\ overtaken'["filter"] = overtaken["filter"] \cup {"place"}
    BY <1>5, <1>t, <1>c, <1>a, CallerOvertakes DEF Window!SetWindowPosition
  <2>2. /\ place' = r /\ asked' = r /\ windowLost' = windowLost \ {"place"}
        /\ windowPc["application"] = "idle"
        /\ UNCHANGED <<visible, shown, m_hwndOwner, bVisible, wanted, windowPc, rect>>
    BY <1>5, <1>t, <1>0, <1>c, <1>a DEF Window!SetWindowPosition
  <2>3. QED
    BY <2>1, <2>2
<1>6. ASSUME NEW owner, Window!PutOwner(owner) PROVE WindowInv'
  <2>1. /\ overtaken' \in [Window!Movers -> SUBSET Aspects]
        /\ overtaken'["application"] = overtaken["application"]
        /\ overtaken'["filter"] = overtaken["filter"] \cup {"place"}
    BY <1>6, <1>t, <1>c, <1>a, CallerOvertakes DEF Window!PutOwner
  <2>2. /\ windowPc["application"] = "idle"
        /\ UNCHANGED <<place, asked, visible, shown, windowLost, bVisible, wanted, windowPc, rect>>
    BY <1>6, <1>t, <1>0, <1>c, <1>a DEF Window!PutOwner
  <2>3. QED
    BY <2>1, <2>2
<1>7. CASE Window!PutWindowStyle
  <2>1. /\ windowPc' \in [Window!Movers -> WindowSteps]
        /\ windowPc["application"] = "idle" /\ windowPc'["application"] = "style"
        /\ windowPc'["filter"] = windowPc["filter"]
    BY <1>7, <1>t, <1>c, <1>s, CallerGoes DEF Window!PutWindowStyle
  <2>2. UNCHANGED <<place, asked, visible, shown, windowLost, m_hwndOwner, bVisible, wanted,
                    rect, overtaken, Window!OnScreen(place)>>
    BY <1>7, <1>t, <1>0, <1>c, <1>a DEF Window!PutWindowStyle, Window!OnScreen
  <2>3. QED
    BY <2>1, <2>2
<1>8. ASSUME NEW top \in BOOLEAN, Window!PutWindowStyleEx(top) PROVE WindowInv'
  <2>1. /\ windowPc' \in [Window!Movers -> WindowSteps]
        /\ windowPc["application"] = "idle" /\ windowPc'["application"] \in {"idle", "style"}
        /\ windowPc'["filter"] = windowPc["filter"]
    <3>1. CASE Window!Goes("application", "idle", "style")
      BY <3>1, <1>t, <1>c, <1>s, CallerGoes
    <3>2. QED
      BY <1>8, <3>1, <1>t DEF Window!PutWindowStyleEx
  <2>2. /\ UNCHANGED <<place, asked, m_hwndOwner, bVisible, wanted, rect, overtaken>>
        /\ Window!OnScreen(place)' = Window!OnScreen(place)
    BY <1>8 DEF Window!PutWindowStyleEx, Window!OnScreen
  <2>3. \/ visible' = TRUE /\ shown' = TRUE /\ windowLost' = windowLost \ {"visible"}
        \/ UNCHANGED <<visible, shown, windowLost>>
    BY <1>8 DEF Window!PutWindowStyleEx, Window!ShowWindow
  <2>4. QED
    BY <2>1, <2>2, <2>3
<1>9. CASE Window!SeeVisible
  <2>1. /\ windowPc' \in [Window!Movers -> WindowSteps]
        /\ windowPc["application"] = "style" /\ windowPc'["application"] = "rect"
        /\ windowPc'["filter"] = windowPc["filter"]
    BY <1>9, <1>t, <1>c, <1>s, CallerGoes DEF Window!SeeVisible, Window!Looks
  <2>2. /\ overtaken' \in [Window!Movers -> SUBSET Aspects]
        /\ overtaken'["application"] = {} /\ overtaken'["filter"] = overtaken["filter"]
    BY <1>9, <1>t, <1>c, CallerLooks DEF Window!SeeVisible, Window!Looks
  <2>3. /\ UNCHANGED <<place, asked, visible, shown, windowLost, m_hwndOwner, wanted, rect>>
        /\ bVisible' = visible /\ Window!OnScreen(place)' = Window!OnScreen(place)
    BY <1>9, <1>t, <1>0, <1>c, <1>a DEF Window!SeeVisible, Window!OnScreen
  <2>4. QED
    BY <2>1, <2>2, <2>3
<1>10. CASE Window!SeeRect
  <2>1. /\ windowPc' \in [Window!Movers -> WindowSteps]
        /\ windowPc["application"] = "rect" /\ windowPc'["application"] = "styled"
        /\ windowPc'["filter"] = windowPc["filter"]
    BY <1>10, <1>t, <1>c, <1>s, CallerGoes DEF Window!SeeRect
  <2>2. /\ rect' \in [Window!Movers -> Rects]
        /\ rect'["application"] = Window!OnScreen(place) /\ rect'["filter"] = rect["filter"]
    BY <1>10, <1>t, <1>c, <1>0, CallerHolds DEF Window!SeeRect, Window!Reads, Window!GetWindowRect
  <2>3. /\ overtaken' \in [Window!Movers -> SUBSET Aspects]
        /\ overtaken'["application"] = overtaken["application"] \ {"place"} /\ overtaken'["filter"] = overtaken["filter"]
    BY <1>10, <1>t, <1>c, CallerLooks DEF Window!SeeRect
  <2>4. UNCHANGED <<place, asked, visible, shown, windowLost, m_hwndOwner, wanted, bVisible,
                    Window!OnScreen(place)>>
    BY <1>10, <1>t, <1>0, <1>c, <1>a DEF Window!SeeRect, Window!OnScreen
  <2>5. QED
    BY <2>1, <2>2, <2>3, <2>4
<1>11. CASE Window!ShowStyled
  <2>1. /\ windowPc' \in [Window!Movers -> WindowSteps]
        /\ windowPc["application"] = "styled" /\ windowPc'["application"] = "idle"
        /\ windowPc'["filter"] = windowPc["filter"]
    BY <1>11, <1>t, <1>c, <1>s, CallerGoes DEF Window!ShowStyled, Window!Returns
  <2>2. /\ rect' \in [Window!Movers -> Rects]
        /\ rect'["filter"] = rect["filter"]
    BY <1>11, <1>t, <1>c, <1>r, CallerHolds DEF Window!ShowStyled, Window!Returns
  <2>3. /\ UNCHANGED <<place, asked, shown, m_hwndOwner, wanted, overtaken>>
        /\ bVisible /\ visible' = TRUE /\ Window!OnScreen(place)' = Window!OnScreen(place)
        /\ windowLost' = windowLost \cup (overtaken["application"] \cap {"visible"})
    BY <1>11, <1>t, <1>0, <1>c, <1>a DEF Window!ShowStyled, Window!Depends, Window!OnScreen
  <2>4. windowLost' \in SUBSET Aspects
    BY <1>11, <2>3, <1>a
  <2>5. QED
    BY <2>1, <2>2, <2>3, <2>4
<1>12. CASE Window!MoveAside
  <2>1. /\ windowPc' \in [Window!Movers -> WindowSteps]
        /\ windowPc["application"] = "styled" /\ windowPc'["application"] = "aside"
        /\ windowPc'["filter"] = windowPc["filter"]
    BY <1>12, <1>t, <1>c, <1>s, CallerGoes DEF Window!MoveAside
  <2>2. /\ overtaken' \in [Window!Movers -> SUBSET Aspects]
        /\ overtaken'["application"] = overtaken["application"]
        /\ overtaken'["filter"] = overtaken["filter"] \cup {"place"}
    BY <1>12, <1>t, <1>c, <1>a, CallerOvertakes DEF Window!MoveAside
  <2>3. /\ UNCHANGED <<asked, visible, shown, windowLost, m_hwndOwner, wanted, rect, bVisible>>
        /\ ~bVisible /\ place' = [rect["application"] EXCEPT !.at = Window!OffScreen]
        /\ Window!OnScreen(asked)' = Window!OnScreen(asked)
    BY <1>12 DEF Window!MoveAside, Window!OnScreen
  <2>4. place' \in Rects
    <3>1. rect["application"] \in Rects /\ Window!OffScreen \in [Axes -> Int]
      BY <1>c, WindowAssumption DEF Window!OffScreen, Window!Each
    <3>2. QED
      BY <2>3, <3>1 DEF Rects
  <2>5. QED
    BY <2>1, <2>2, <2>3, <2>4
<1>13. CASE Window!ShowAside
  <2>1. UNCHANGED <<place, asked, shown, windowLost, m_hwndOwner, wanted, rect, bVisible,
                    overtaken, Window!OnScreen(place), Window!OnScreen(asked)>>
    BY <1>13 DEF Window!ShowAside, Window!OnScreen
  <2>2. ASSUME Window!Goes("application", "aside", "shown"), visible' = TRUE PROVE WindowInv'
    <3>1. /\ windowPc' \in [Window!Movers -> WindowSteps]
          /\ windowPc["application"] = "aside" /\ windowPc'["application"] = "shown"
          /\ windowPc'["filter"] = windowPc["filter"]
      BY <2>2, <1>t, <1>c, <1>s, CallerGoes
    <3>2. QED
      BY <2>1, <2>2, <3>1
  <2>3. ASSUME Window!Goes("application", "shown", "hidden"), visible' = FALSE PROVE WindowInv'
    <3>1. /\ windowPc' \in [Window!Movers -> WindowSteps]
          /\ windowPc["application"] = "shown" /\ windowPc'["application"] = "hidden"
          /\ windowPc'["filter"] = windowPc["filter"]
      BY <2>3, <1>t, <1>c, <1>s, CallerGoes
    <3>2. QED
      BY <2>1, <2>3, <3>1
  <2>4. QED
    BY <1>13, <2>2, <2>3 DEF Window!ShowAside
<1>14. CASE Window!MoveBack
  <2>1. /\ windowPc' \in [Window!Movers -> WindowSteps]
        /\ windowPc["application"] = "moveBack" /\ windowPc'["application"] = "idle"
        /\ windowPc'["filter"] = windowPc["filter"]
    BY <1>14, <1>t, <1>c, <1>s, CallerGoes DEF Window!MoveBack, Window!Returns
  <2>2. /\ rect' \in [Window!Movers -> Rects]
        /\ rect'["filter"] = rect["filter"]
    BY <1>14, <1>t, <1>c, <1>r, CallerHolds DEF Window!MoveBack, Window!Returns
  <2>3. /\ overtaken' \in [Window!Movers -> SUBSET Aspects]
        /\ overtaken'["application"] = overtaken["application"]
        /\ overtaken'["filter"] = overtaken["filter"] \cup {"place"}
    BY <1>14, <1>t, <1>c, <1>a, CallerOvertakes DEF Window!MoveBack
  <2>4. /\ UNCHANGED <<asked, visible, shown, m_hwndOwner, wanted, bVisible>>
        /\ place' = rect["application"]
        /\ windowLost' = windowLost \cup (overtaken["application"] \cap {"place"})
    BY <1>14, <1>t, <1>0, <1>c, <1>a DEF Window!MoveBack, Window!Depends
  <2>5. place' \in Rects
    BY <1>14, <2>4, <1>c
  <2>6. windowLost' \in SUBSET Aspects
    BY <1>14, <2>4, <1>a
  <2>7. QED
    BY <2>1, <2>2, <2>3, <2>4, <2>5, <2>6
<1>15. ASSUME NEW show \in BOOLEAN, Window!PutVisible(show) PROVE WindowInv'
  <2>1. /\ UNCHANGED <<place, asked, m_hwndOwner, bVisible, wanted, windowPc, rect, overtaken>>
        /\ Window!OnScreen(place)' = Window!OnScreen(place)
        /\ windowPc["application"] = "idle"
        /\ visible' = show /\ shown' = show /\ windowLost' = windowLost \ {"visible"}
    BY <1>15 DEF Window!PutVisible, Window!ShowWindow, Window!OnScreen
  <2>2. QED
    BY <2>1
<1>16. CASE Window!OnClose \/ Window!InactivateWindow
  <2>1. PICK c \in {"user", "filter"} : Window!Overtakes(c, "visible")
    BY <1>16 DEF Window!OnClose, Window!InactivateWindow
  <2>2. /\ overtaken' \in [Window!Movers -> SUBSET Aspects]
        /\ overtaken'["application"] = overtaken["application"] \cup {"visible"}
        /\ "place" \in overtaken'["filter"] <=> "place" \in overtaken["filter"]
    BY <2>1, <1>t, <1>c, <1>a, CallerOvertakes
  <2>3. /\ UNCHANGED <<place, asked, m_hwndOwner, bVisible, wanted, windowPc, rect>>
        /\ Window!OnScreen(place)' = Window!OnScreen(place)
        /\ Window!OnScreen(asked)' = Window!OnScreen(asked)
        /\ visible' = FALSE /\ shown' = FALSE /\ windowLost' = windowLost \ {"visible"}
    BY <1>16 DEF Window!OnClose, Window!InactivateWindow, Window!ShowWindow, Window!OnScreen
  <2>4. QED
    BY <2>2, <2>3
<1>17. CASE Window!CompleteConnect \/ Window!Disconnect
  <2>1. /\ UNCHANGED <<place, asked, m_hwndOwner, bVisible, wanted, windowPc, rect, visible,
                       shown, windowLost, overtaken>>
        /\ Window!OnScreen(place)' = Window!OnScreen(place)
        /\ Window!OnScreen(asked)' = Window!OnScreen(asked)
    BY <1>17 DEF Window!CompleteConnect, Window!Disconnect, Window!OnScreen
  <2>2. QED
    BY <2>1
<1>18. CASE Window!ActivateWindow
  <2>1. /\ UNCHANGED <<place, asked, m_hwndOwner, bVisible, wanted, rect, visible, shown,
                       windowLost>>
        /\ Window!OnScreen(place)' = Window!OnScreen(place)
        /\ Window!OnScreen(asked)' = Window!OnScreen(asked)
    BY <1>18 DEF Window!ActivateWindow, Window!OnScreen
  <2>2. CASE m_bActivated \/ m_hwndOwner
    BY <1>18, <2>1, <2>2 DEF Window!ActivateWindow
  <2>3. CASE ~(m_bActivated \/ m_hwndOwner)
    <3>1. Window!Looks("filter", "idle", "activate")
      BY <1>18, <2>3 DEF Window!ActivateWindow
    <3>2. /\ windowPc' \in [Window!Movers -> WindowSteps]
          /\ windowPc'["filter"] = "activate"
          /\ windowPc'["application"] = windowPc["application"]
      BY <3>1, <1>t, <1>c, <1>s, CallerGoes DEF Window!Looks
    <3>3. /\ overtaken' \in [Window!Movers -> SUBSET Aspects]
          /\ overtaken'["filter"] = {}
          /\ overtaken'["application"] = overtaken["application"]
      BY <3>1, <1>t, <1>c, CallerLooks DEF Window!Looks
    <3>4. QED
      BY <2>1, <2>3, <3>2, <3>3
  <2>4. QED
    BY <2>2, <2>3
<1>19. CASE Window!ActivateRect
  <2>1. /\ windowPc' \in [Window!Movers -> WindowSteps]
        /\ windowPc["filter"] = "activate" /\ windowPc'["filter"] = "activateAt"
        /\ windowPc'["application"] = windowPc["application"]
    BY <1>19, <1>t, <1>c, <1>s, CallerGoes DEF Window!ActivateRect
  <2>2. /\ rect' \in [Window!Movers -> Rects]
        /\ rect'["filter"] = Window!OnScreen(place) /\ rect'["application"] = rect["application"]
    BY <1>19, <1>t, <1>c, <1>0, CallerHolds DEF Window!ActivateRect, Window!Reads, Window!GetWindowRect
  <2>3. UNCHANGED <<place, asked, visible, shown, windowLost, m_hwndOwner, wanted, bVisible,
                    overtaken, Window!OnScreen(place), Window!OnScreen(asked)>>
    BY <1>19, <1>t, <1>0, <1>c, <1>a DEF Window!ActivateRect, Window!OnScreen
  <2>4. QED
    BY <2>1, <2>2, <2>3, <1>0
<1>20. CASE Window!ActivateAt
  <2>1. /\ windowPc' \in [Window!Movers -> WindowSteps]
        /\ windowPc["filter"] = "activateAt" /\ windowPc'["filter"] = "idle"
        /\ windowPc'["application"] = windowPc["application"]
    BY <1>20, <1>t, <1>c, <1>s, CallerGoes DEF Window!ActivateAt, Window!Returns
  <2>2. /\ rect' \in [Window!Movers -> Rects]
        /\ rect'["application"] = rect["application"]
    BY <1>20, <1>t, <1>c, <1>r, CallerHolds DEF Window!ActivateAt, Window!Returns
  <2>3. /\ overtaken' \in [Window!Movers -> SUBSET Aspects]
        /\ overtaken'["filter"] = overtaken["filter"]
        /\ overtaken'["application"] = overtaken["application"] \cup {"place"}
    BY <1>20, <1>t, <1>c, <1>a, CallerOvertakes DEF Window!ActivateAt
  <2>4. /\ UNCHANGED <<visible, shown, m_hwndOwner, wanted, bVisible>>
        /\ place' = [at |-> Window!Aligned(rect["filter"].at), size |-> Window!DefaultSize]
        /\ asked' = [at |-> Window!Aligned(asked.at), size |-> Window!DefaultSize]
        /\ windowLost' = windowLost \cup (overtaken["filter"] \cap {"place"})
    BY <1>20, <1>t, <1>0, <1>c, <1>a DEF Window!ActivateAt, Window!Depends
  <2>5. place' \in Rects /\ asked' \in Rects
    BY <1>20, <2>4, <1>g, <1>c DEF Rects
  <2>6. windowLost' \in SUBSET Aspects
    BY <1>20, <2>4, <1>a
  <2>7. QED
    BY <2>1, <2>2, <2>3, <2>4, <2>5, <2>6
<1>21. CASE Window!PerformanceAlignWindow
  <2>1. /\ windowPc' \in [Window!Movers -> WindowSteps]
        /\ windowPc["filter"] = "idle" /\ windowPc'["filter"] = "align"
        /\ windowPc'["application"] = windowPc["application"]
    BY <1>21, <1>t, <1>c, <1>s, CallerGoes DEF Window!PerformanceAlignWindow, Window!Looks
  <2>2. /\ overtaken' \in [Window!Movers -> SUBSET Aspects]
        /\ overtaken'["filter"] = {} /\ overtaken'["application"] = overtaken["application"]
    BY <1>21, <1>t, <1>c, CallerLooks DEF Window!PerformanceAlignWindow, Window!Looks
  <2>3. /\ rect' \in [Window!Movers -> Rects]
        /\ rect'["filter"] = Window!OnScreen(place) /\ rect'["application"] = rect["application"]
    BY <1>21, <1>t, <1>c, <1>0, CallerHolds DEF Window!PerformanceAlignWindow, Window!Reads, Window!GetWindowRect
  <2>4. UNCHANGED <<place, asked, visible, shown, windowLost, m_hwndOwner, wanted, bVisible,
                    Window!OnScreen(place), Window!OnScreen(asked)>>
    BY <1>21, <1>t, <1>0, <1>c, <1>a DEF Window!PerformanceAlignWindow, Window!OnScreen
  <2>5. QED
    BY <2>1, <2>2, <2>3, <2>4
<1>22. CASE Window!AlignOwner
  <2>1. UNCHANGED <<place, asked, m_hwndOwner, bVisible, wanted, visible, shown, windowLost,
                    overtaken, Window!OnScreen(place), Window!OnScreen(asked)>>
    BY <1>22 DEF Window!AlignOwner, Window!OnScreen
  <2>2. CASE m_hwndOwner
    <3>1. Window!Returns("filter", "align")
      BY <1>22, <2>2 DEF Window!AlignOwner
    <3>2. /\ windowPc' \in [Window!Movers -> WindowSteps]
          /\ windowPc'["filter"] = "idle"
          /\ windowPc'["application"] = windowPc["application"]
      BY <3>1, <1>t, <1>c, <1>s, CallerGoes DEF Window!Returns
    <3>3. /\ rect' \in [Window!Movers -> Rects]
          /\ rect'["application"] = rect["application"]
      BY <3>1, <1>t, <1>c, <1>r, CallerHolds DEF Window!Returns
    <3>4. QED
      BY <2>1, <3>2, <3>3
  <2>3. CASE ~m_hwndOwner
    <3>1. Window!Goes("filter", "align", "alignAt") /\ UNCHANGED rect
      BY <1>22, <2>3 DEF Window!AlignOwner
    <3>2. /\ windowPc' \in [Window!Movers -> WindowSteps]
          /\ windowPc["filter"] = "align" /\ windowPc'["filter"] = "alignAt"
          /\ windowPc'["application"] = windowPc["application"]
      BY <3>1, <1>t, <1>c, <1>s, CallerGoes
    <3>3. QED
      BY <1>0, <2>1, <2>3, <3>1, <3>2
  <2>4. QED
    BY <2>2, <2>3
<1>23. CASE Window!AlignAt
  <2>1. /\ windowPc' \in [Window!Movers -> WindowSteps]
        /\ windowPc["filter"] = "alignAt" /\ windowPc'["filter"] = "idle"
        /\ windowPc'["application"] = windowPc["application"]
    BY <1>23, <1>t, <1>c, <1>s, CallerGoes DEF Window!AlignAt, Window!Returns
  <2>2. /\ rect' \in [Window!Movers -> Rects]
        /\ rect'["application"] = rect["application"]
    BY <1>23, <1>t, <1>c, <1>r, CallerHolds DEF Window!AlignAt, Window!Returns
  <2>3. /\ overtaken' \in [Window!Movers -> SUBSET Aspects]
        /\ overtaken'["filter"] = overtaken["filter"]
        /\ overtaken'["application"] = overtaken["application"] \cup {"place"}
    BY <1>23, <1>t, <1>c, <1>a, CallerOvertakes DEF Window!AlignAt
  <2>4. /\ UNCHANGED <<visible, shown, m_hwndOwner, wanted, bVisible>>
        /\ place' = [place EXCEPT !.at = Window!Aligned(rect["filter"].at)]
        /\ asked' = [asked EXCEPT !.at = Window!Aligned(asked.at)]
        /\ windowLost' = windowLost \cup (overtaken["filter"] \cap {"place"})
    BY <1>23, <1>t, <1>0, <1>c, <1>a DEF Window!AlignAt, Window!Depends
  <2>5. place' \in Rects /\ asked' \in Rects
    BY <1>23, <2>4, <1>g, <1>c DEF Rects
  <2>6. windowLost' \in SUBSET Aspects
    BY <1>23, <2>4, <1>a
  <2>7. QED
    BY <2>1, <2>2, <2>3, <2>4, <2>5, <2>6
<1>24. QED
  <2>1. Window!Coordinates \subseteq Int /\ Window!Sizes \subseteq Int
    BY WindowAssumption DEF Window!Coordinates, Window!Sizes
  <2>s. ASSUME NEW r \in Window!Places, Window!SetWindowPosition(r) PROVE WindowInv'
    <3>1. r \in Rects
      BY <2>1 DEF Window!Places, Rects
    <3>2. QED
      BY <1>5, <2>s, <3>1
  <2>2. QED
    BY <1>1, <1>2, <1>3, <1>4, <1>5, <1>6, <1>7, <1>8, <1>9, <1>10, <1>11, <1>12, <1>13, <1>14,
       <1>15, <1>16, <1>17, <1>18, <1>19, <1>20, <1>21, <1>22, <1>23, <2>1, <2>s DEF Window!Next

\* from the beginning on.
LEMMA WindowInit == Window!Init => WindowInv
<1> SUFFICES ASSUME Window!Init PROVE WindowInv
  OBVIOUS
<1>1. [at |-> Window!Each(1), size |-> Window!Each(1)] \in Rects /\ Window!NoRect \in Rects
  BY DEF Rects, Window!Each, Window!NoRect
<1>2. "application" \in Window!Movers /\ "filter" \in Window!Movers /\ "idle" \in WindowSteps
  BY DEF Window!Movers, WindowSteps
<1>3. /\ place \in Rects /\ asked = place /\ visible = FALSE /\ shown = FALSE
      /\ bVisible = FALSE /\ windowLost = {}
      /\ rect = [c \in Window!Movers |-> Window!NoRect]
      /\ windowPc = [c \in Window!Movers |-> "idle"]
      /\ overtaken = [c \in Window!Movers |-> {}]
  BY <1>1 DEF Window!Init
<1>4. wanted.value = 0
  BY DEF Window!Init, Window!NoEdge
<1>5. /\ rect \in [Window!Movers -> Rects] /\ windowPc \in [Window!Movers -> WindowSteps]
      /\ overtaken \in [Window!Movers -> SUBSET Aspects]
      /\ windowPc["application"] = "idle" /\ windowPc["filter"] = "idle"
  BY <1>1, <1>2, <1>3
<1>6. WindowTypes
  BY <1>3, <1>4, <1>5 DEF WindowTypes
<1>7. QED
  BY <1>3, <1>5, <1>6 DEF WindowInv, ApplicationSees, FilterSees, VisibleSeen,
     Window!WindowAsAsked
-----------------------------------------------------------------------------
\* Quality.

\* What is measured are integers, a frame is not too long, what is answered has its range.
QualityTypes ==
    /\ {sinceLastDraw, m_trFrameAvg, m_trDuration, m_trWaitAvg, m_trEarliness} \subseteq Int
    /\ {m_trLate, m_trFrame} \subseteq Int /\ 1000 * m_trFrameAvg <= LongMax
    /\ m_trThrottle \in 0..200 /\ proportion \in 500..2000

\* A count n that is not less than that of the numbers, not further than 1000 from 0,
\* whose squares have the sum sumSq and that have the sum total.
Sums(n, sumSq, total) ==
    /\ n \in Nat /\ sumSq \in Int /\ total \in Int
    /\ total * total <= n * sumSq
    /\ total <= 1000 * n /\ -(1000 * n) <= total

\* The sums begin when the count of frames is past those that are left out.
Summed ==
    /\ m_cFramesDrawn \in Nat
    /\ m_cFramesDrawn <= 1 => m_iSumSqAcc = 0 /\ m_iTotAcc = 0
    /\ m_cFramesDrawn >= 1 => Sums(m_cFramesDrawn - 1, m_iSumSqAcc, m_iTotAcc)
    /\ m_cFramesDrawn <= 2 => m_iSumSqFrameTime = 0 /\ m_iSumFrameTime = 0
    /\ m_cFramesDrawn >= 2 => Sums(m_cFramesDrawn - 2, m_iSumSqFrameTime, m_iSumFrameTime)

\* Together inductive.
QualityInv == QualityTypes /\ Summed

\* Quotients.
LEMMA Quotients ==
    ASSUME NEW a \in Int, NEW b \in Nat \ {0}
    PROVE  /\ Quality!Quot(a, b) \in Int
           /\ a >= 0 => Quality!Quot(a, b) >= 0
           /\ a >= b => Quality!Quot(a, b) >= 1 /\ Quality!Quot(a, b) <= a
<1>1. a \div b \in Int /\ (-a) \div b \in Int
  OBVIOUS
<1>2. Quality!Quot(a, b) \in Int
  BY <1>1 DEF Quality!Quot
<1>3. a >= 0 => a \div b >= 0
  OBVIOUS
<1>4. a >= b => a \div b >= 1
  OBVIOUS
<1>5. ASSUME a >= 0 PROVE a \div b <= a
  <2> DEFINE k == a \div b
  <2>1. k \in Int /\ k >= 0 /\ b * k <= a
    BY <1>5
  <2> HIDE DEF k
  <2>2. k <= b * k
    BY <2>1
  <2>3. k <= a
    BY <2>1, <2>2
  <2>4. QED
    BY <2>3 DEF k
<1>6. QED
  BY <1>2, <1>3, <1>4, <1>5 DEF Quality!Quot

\* For the squares and the sum of one number more (the inequality of Cauchy and
\* Schwarz).
LEMMA OneMoreSquare ==
    ASSUME NEW n \in Nat, NEW s \in Int, NEW t \in Int, NEW x \in Int,
           n >= 1 \/ (s = 0 /\ t = 0), t * t <= n * s
    PROVE  (t + x) * (t + x) <= (n + 1) * (s + x * x)
<1>1. CASE n = 0
  <2>1. s = 0 /\ t = 0
    BY <1>1
  <2>2. QED
    BY <1>1, <2>1
<1>2. CASE n >= 1
  <2> DEFINE y == n * x
             d == s + n * (x * x) - 2 * (t * x)
  <2>1. y \in Int /\ d \in Int /\ t * x \in Int /\ x * x \in Int /\ n * s \in Int
    OBVIOUS
  <2>2. (t - y) * (t - y) >= 0
    BY <2>1
  <2>3. (t - y) * (t - y) = t * t - 2 * (t * y) + y * y
    BY <2>1
  <2>4. y * y = n * (n * (x * x)) /\ t * y = n * (t * x)
    BY <2>1
  <2>5. n * d = n * s + n * (n * (x * x)) - 2 * (n * (t * x))
    BY <2>1
  <2>6. n * d >= 0
    BY <2>1, <2>2, <2>3, <2>4, <2>5
  <2>7. d >= 0
    BY <1>2, <2>1, <2>6
  <2>8. (t + x) * (t + x) = t * t + 2 * (t * x) + x * x
    BY <2>1
  <2>9. (n + 1) * (s + x * x) = n * s + n * (x * x) + s + x * x
    BY <2>1
  <2>10. QED
    BY <2>1, <2>7, <2>8, <2>9
<1>3. QED
  BY <1>1, <1>2

\* What the property page asks for can be computed.
LEMMA VarianceSound ==
    ASSUME NEW n \in Int, NEW s \in Int, NEW t \in Int, n >= 1 => t * t <= n * s
    PROVE  Quality!Variance(n, s, t) >= 0
<1>1. CASE n <= 1
  BY <1>1 DEF Quality!Variance
<1>2. CASE n > 1
  <2> DEFINE q == (t * t) \div n
  <2>1. t * t \in Int /\ n \in Nat \ {0} /\ n * s \in Int
    BY <1>2
  <2>2. q \in Int /\ n * q <= t * t
    BY <2>1
  <2> HIDE DEF q
  <2>3. n * q <= n * s
    BY <1>2, <2>1, <2>2
  <2>4. q <= s
    BY <1>2, <2>2, <2>3
  <2>5. s - q \in Int /\ s - q >= 0 /\ n - 1 \in Nat \ {0}
    BY <1>2, <2>2, <2>4
  <2>6. Quality!Quot(s - q, n - 1) >= 0
    BY <2>5, Quotients
  <2>7. QED
    BY <1>2, <2>6 DEF Quality!Variance, q
<1>3. QED
  BY <1>1, <1>2

\* The average of numbers not further than 1000 from 0 is not, either.
LEMMA AverageSound ==
    ASSUME NEW n \in Nat \ {0}, NEW t \in Int, t <= 1000 * n, -(1000 * n) <= t
    PROVE  Quality!Quot(t, n) \in Int /\ -1000 <= Quality!Quot(t, n) /\ Quality!Quot(t, n) <= 1000
<1>1. ASSUME NEW u \in Nat, u <= 1000 * n PROVE u \div n \in 0..1000
  <2> DEFINE q == u \div n
  <2>1. q \in Int /\ n * q <= u
    BY <1>1
  <2>2. q >= 0
    BY <1>1
  <2> HIDE DEF q
  <2>3. n * q <= n * 1000
    BY <1>1, <2>1
  <2>4. q <= 1000
    BY <2>1, <2>3
  <2>5. QED
    BY <2>1, <2>2, <2>4 DEF q
<1>2. CASE t >= 0
  BY <1>1, <1>2 DEF Quality!Quot
<1>3. CASE t < 0
  <2>1. (-t) \in Nat /\ (-t) <= 1000 * n
    BY <1>3
  <2>2. (-t) \div n \in 0..1000
    BY <1>1, <2>1
  <2>3. QED
    BY <1>3, <2>2 DEF Quality!Quot
<1>4. QED
  BY <1>2, <1>3

\* Half the frames at the least, twice as many at the most.
LEMMA ProportionInRange ==
    ASSUME m_trFrameAvg \in Int, m_trWaitAvg \in Int, NEW late \in Int, late <= LongMax,
           1000 * m_trFrameAvg <= LongMax
    PROVE  /\ Quality!Proportion(late) \in Int
           /\ 500 <= Quality!Proportion(late) /\ Quality!Proportion(late) <= 2000
<1> DEFINE d == m_trFrameAvg + 2 - m_trWaitAvg
           q == Quality!Quot(m_trFrameAvg, d)
<1>1. ASSUME m_trFrameAvg >= 0, m_trWaitAvg > 2, m_trFrameAvg + 2 > m_trWaitAvg
      PROVE  q \in Int /\ q >= 1 /\ 1000 * q <= LongMax
  <2>1. d \in Nat \ {0} /\ m_trFrameAvg >= d
    BY <1>1
  <2>2. q \in Int /\ q >= 1 /\ q <= m_trFrameAvg
    BY <2>1, Quotients
  <2>3. QED
    BY <2>2, QualityAssumption
<1> HIDE DEF q
<1>2. ASSUME q \in Int, q >= 1, 1000 * q <= LongMax
      PROVE  Quality!Least(2000, Quality!Long(1000 * q)) \in 500..2000
  BY <1>2 DEF Quality!Least, Quality!Long
<1>3. Quality!Long(late) = late
  BY DEF Quality!Long
<1>4. QED
  BY <1>1, <1>2, <1>3 DEF Quality!Proportion, q

\* The quality that is passed on gives a wait of at most 200.
LEMMA ThrottleInRange ==
    ASSUME NEW p \in Nat
    PROVE  Quality!Throttle(p) \in 0..200
<1>1. CASE p >= 1000
  BY <1>1 DEF Quality!Throttle
<1>2. CASE p < 1000
  <2> DEFINE k == p + 167
             q == 388880000 \div k
             m == q - 330000
  <2>1. k \in 167..1166
    BY <1>2
  <2> HIDE DEF k
  <2>2. q \in Int /\ k * q <= 388880000 /\ 388880000 < k * q + k /\ q >= 0
    BY <2>1
  <2> HIDE DEF q
  <2>3. 167 * q <= k * q /\ k * q <= 1166 * q
    BY <2>1, <2>2
  <2>4. q <= 2328622 /\ q >= 333000
    BY <2>1, <2>2, <2>3
  <2>5. m \in Int /\ 0 <= m /\ m <= 1999999
    BY <2>2, <2>4
  <2> HIDE DEF m
  <2>6. m \div 10000 \in 0..200
    BY <2>5
  <2>7. -330000 + q = m
    BY <2>2 DEF m
  <2>8. Quality!Throttle(p) = (-330000 + q) \div 10000
    BY <1>2 DEF Quality!Throttle, q, k
  <2>9. QED
    BY <2>6, <2>7, <2>8
<1>3. QED
  BY <1>1, <1>2

\* A moving average is an integer,
LEMMA AverageTyped ==
    ASSUME NEW avg \in Int, NEW obs \in Int
    PROVE  Quality!DO_MOVING_AVG(avg, obs) \in Int
<1>1. obs + (Quality!AVGPERIOD - 1) * avg \in Int /\ Quality!AVGPERIOD \in Nat \ {0}
  BY DEF Quality!AVGPERIOD
<1>2. QED
  BY <1>1, Quotients DEF Quality!DO_MOVING_AVG

\* that is not past what is averaged.
LEMMA AverageBounded ==
    ASSUME NEW avg \in Int, NEW obs \in Int, 1000 * avg <= LongMax, 1000 * obs <= LongMax
    PROVE  1000 * Quality!DO_MOVING_AVG(avg, obs) <= LongMax
<1> DEFINE a == obs + 3 * avg
           k == a \div 4
<1>1. a \in Int /\ 1000 * a <= 4 * LongMax
  BY QualityAssumption
<1> HIDE DEF a
<1>2. k \in Int /\ 4 * k <= a
  BY <1>1
<1>3. (-a) \div 4 \in Int /\ (a < 0 => (-a) \div 4 >= 0)
  BY <1>1
<1> HIDE DEF k
<1>4. 1000 * k <= LongMax
  BY <1>1, <1>2, QualityAssumption
<1>5. 1000 * Quality!Quot(a, 4) <= LongMax
  BY <1>1, <1>3, <1>4, QualityAssumption DEF k, Quality!Quot
<1>6. QED
  BY <1>5 DEF a, Quality!DO_MOVING_AVG, Quality!AVGPERIOD

\* The next frame counts in the sums of either kind.
LEMMA SummedStep ==
    ASSUME QualityTypes, Summed, Quality!RecordFrameLateness PROVE Summed'
<1> DEFINE n == m_cFramesDrawn
           late == Quality!Clipped(m_trLate)
           frame == IF m_trFrame > 1000 \/ m_trFrame < 0 THEN 1000 ELSE m_trFrame
<1>1. n \in Nat /\ late \in Int /\ -1000 <= late /\ late <= 1000
  BY DEF Summed, QualityTypes, Quality!Clipped
<1>2. frame \in Int /\ 0 <= frame /\ frame <= 1000
  BY DEF QualityTypes
<1>3. /\ m_iTotAcc' = m_iTotAcc + IF n > 1 THEN late ELSE 0
      /\ m_iSumSqAcc' = m_iSumSqAcc + IF n > 1 THEN late * late ELSE 0
      /\ m_iSumFrameTime' = m_iSumFrameTime + IF n > 2 THEN frame ELSE 0
      /\ m_iSumSqFrameTime' = m_iSumSqFrameTime + IF n > 2 THEN frame * frame ELSE 0
      /\ m_cFramesDrawn' = n + 1
  BY DEF Quality!RecordFrameLateness
<1> HIDE DEF late, frame
<1>4. ASSUME NEW k \in Nat, NEW sumSq, NEW total, NEW x \in Int, Sums(k, sumSq, total),
             k >= 1 \/ (sumSq = 0 /\ total = 0), -1000 <= x, x <= 1000
      PROVE  Sums(k + 1, sumSq + x * x, total + x)
  <2>1. sumSq \in Int /\ total \in Int /\ x * x \in Int /\ total * total <= k * sumSq
    BY <1>4 DEF Sums
  <2>2. (total + x) * (total + x) <= (k + 1) * (sumSq + x * x)
    BY <1>4, <2>1, OneMoreSquare
  <2>3. total + x <= 1000 * (k + 1) /\ -(1000 * (k + 1)) <= total + x
    BY <1>4, <2>1 DEF Sums
  <2>4. k + 1 \in Nat /\ sumSq + x * x \in Int /\ total + x \in Int
    BY <2>1
  <2>5. QED
    BY <2>2, <2>3, <2>4 DEF Sums
<1>5. ASSUME NEW k \in Nat PROVE Sums(k, 0, 0)
  BY <1>5 DEF Sums
<1>6. /\ n + 1 <= 1 => m_iSumSqAcc' = 0 /\ m_iTotAcc' = 0
      /\ n + 1 >= 1 => Sums(n + 1 - 1, m_iSumSqAcc', m_iTotAcc')
  <2>1. CASE n > 1
    <3>1. Sums(n - 1, m_iSumSqAcc, m_iTotAcc) /\ n - 1 \in Nat /\ n - 1 >= 1
      BY <2>1 DEF Summed
    <3>2. Sums(n - 1 + 1, m_iSumSqAcc + late * late, m_iTotAcc + late)
      BY <1>1, <1>4, <3>1
    <3>3. n - 1 + 1 = n + 1 - 1
      BY <1>1
    <3>4. QED
      BY <1>1, <1>3, <2>1, <3>2, <3>3
  <2>2. CASE n <= 1
    <3>1. m_iSumSqAcc' = 0 /\ m_iTotAcc' = 0
      BY <1>1, <1>3, <2>2 DEF Summed
    <3>2. n + 1 - 1 \in Nat
      BY <1>1
    <3>3. QED
      BY <1>5, <3>1, <3>2
  <2>3. QED
    BY <1>1, <2>1, <2>2
<1>7. /\ n + 1 <= 2 => m_iSumSqFrameTime' = 0 /\ m_iSumFrameTime' = 0
      /\ n + 1 >= 2 => Sums(n + 1 - 2, m_iSumSqFrameTime', m_iSumFrameTime')
  <2>1. CASE n > 2
    <3>1. Sums(n - 2, m_iSumSqFrameTime, m_iSumFrameTime) /\ n - 2 \in Nat /\ n - 2 >= 1
      BY <1>1, <2>1 DEF Summed
    <3>2. Sums(n - 2 + 1, m_iSumSqFrameTime + frame * frame, m_iSumFrameTime + frame)
      BY <1>2, <1>4, <3>1
    <3>3. n - 2 + 1 = n + 1 - 2
      BY <1>1
    <3>4. QED
      BY <1>1, <1>3, <2>1, <3>2, <3>3
  <2>2. CASE n <= 2
    <3>1. m_iSumSqFrameTime' = 0 /\ m_iSumFrameTime' = 0
      BY <1>1, <1>3, <2>2 DEF Summed
    <3>2. n + 1 >= 2 => n + 1 - 2 \in Nat
      BY <1>1
    <3>3. QED
      BY <1>5, <3>1, <3>2
  <2>3. QED
    BY <1>1, <2>1, <2>2
<1>8. n + 1 \in Nat
  BY <1>1
<1>9. QED
  BY <1>3, <1>6, <1>7, <1>8 DEF Summed

\* What is decided of a frame are integers.
LEMMA ScheduleTyped ==
    ASSUME QualityTypes, Quality!ScheduleSample PROVE QualityTypes'
<1>1. PICK e \in Elapsed, late \in Lateness, duration \in Durations, handled \in BOOLEAN,
           gap \in BOOLEAN :
          LET since == sinceLastDraw + e
              paced == Quality!Paced(duration)
              justDropped == (handled /\ gap) \/ m_nNormal = -1
              earliness == Quality!Earliness(late, justDropped)
              frame == Quality!Least(since, 1000)
          IN  /\ proportion' = Quality!Proportion(late) /\ m_trDuration' = paced.duration
              /\ IF Quality!DrawFrame(late, duration, paced.avg, handled, since)
                 THEN IF Quality!PlayASAP(late, duration, paced.avg, justDropped)
                      THEN Quality!DrawNow(late, paced, earliness, frame)
                      ELSE Quality!DrawWhenDue(late, [paced EXCEPT !.duration = duration],
                                               earliness, since, frame)
                 ELSE Quality!Drop(late, paced, earliness, since)
  BY DEF Quality!ScheduleSample
<1> DEFINE since == sinceLastDraw + e
           paced == Quality!Paced(duration)
           due == [paced EXCEPT !.duration = duration]
           justDropped == (handled /\ gap) \/ m_nNormal = -1
           earliness == Quality!Earliness(late, justDropped)
           frame == Quality!Least(since, 1000)
<1>2. \/ Quality!DrawNow(late, paced, earliness, frame)
      \/ Quality!DrawWhenDue(late, due, earliness, since, frame)
      \/ Quality!Drop(late, paced, earliness, since)
  BY <1>1
<1>3. proportion' = Quality!Proportion(late) /\ m_trDuration' = paced.duration
  BY <1>1
<1>4. UNCHANGED m_trThrottle
  BY DEF Quality!ScheduleSample
<1>5. e \in Int /\ late \in Int /\ duration \in Int /\ sinceLastDraw \in Int
      /\ m_trFrameAvg \in Int /\ m_trDuration \in Int /\ m_trWaitAvg \in Int
      /\ m_trEarliness \in Int /\ m_trLate \in Int /\ m_trFrame \in Int
  BY QualityAssumption DEF QualityTypes
<1>6. /\ paced.avg \in Int /\ paced.duration \in Int /\ due.duration \in Int
      /\ 1000 * paced.avg <= LongMax /\ 1000 * due.duration <= LongMax
  <2>1. 1000 * m_trFrameAvg <= LongMax /\ 1000 * duration <= LongMax
    BY QualityAssumption DEF QualityTypes
  <2>2. paced \in [avg : Int, duration : Int] /\ 1000 * paced.avg <= LongMax
    BY <1>5, <2>1 DEF Quality!Paced
  <2> HIDE DEF paced
  <2>3. QED
    BY <1>5, <2>1, <2>2
<1>7. since \in Int
  BY <1>5
<1>8. frame \in Int /\ 1000 * frame <= LongMax
  BY <1>7, QualityAssumption DEF Quality!Least
<1>9. Quality!Quot(m_trEarliness, 8) \in Int
  BY <1>5, Quotients
<1>10. earliness \in Int
  BY <1>5, <1>9 DEF Quality!Earliness
<1> HIDE DEF paced, due, since, frame, earliness, justDropped
<1>11. /\ \A obs \in Int : Quality!DO_MOVING_AVG(m_trWaitAvg, obs) \in Int
       /\ Quality!WaitAvg(late) \in Int
       /\ Quality!DO_MOVING_AVG(paced.avg, frame) \in Int
       /\ 1000 * Quality!DO_MOVING_AVG(paced.avg, frame) <= LongMax
  <2>1. \A obs \in Int : Quality!DO_MOVING_AVG(m_trWaitAvg, obs) \in Int
    BY <1>5, AverageTyped
  <2>2. (IF late < 0 THEN -late ELSE 0) \in Int
    BY <1>5
  <2>3. Quality!WaitAvg(late) \in Int
    BY <2>1, <2>2 DEF Quality!WaitAvg
  <2>4. /\ Quality!DO_MOVING_AVG(paced.avg, frame) \in Int
        /\ 1000 * Quality!DO_MOVING_AVG(paced.avg, frame) <= LongMax
    <3> DEFINE p == paced.avg
    <3>1. p \in Int /\ 1000 * p <= LongMax
      BY <1>6
    <3> HIDE DEF p
    <3>2. Quality!DO_MOVING_AVG(p, frame) \in Int
      BY <1>8, <3>1, AverageTyped
    <3>3. frame \in Int /\ p \in Int
      BY <1>8, <3>1
    <3>4. 1000 * p <= LongMax
      BY <3>1
    <3>5. 1000 * frame <= LongMax
      BY <1>8
    <3>6. 1000 * Quality!DO_MOVING_AVG(p, frame) <= LongMax
      BY <3>3, <3>4, <3>5, AverageBounded
    <3>7. QED
      BY <3>2, <3>6 DEF p
  <2>5. QED
    BY <2>1, <2>3, <2>4
<1>12. proportion' \in 500..2000
  <2> DEFINE p == Quality!Proportion(late)
  <2>1. p \in Int /\ 500 <= p /\ p <= 2000
    BY <1>5, QualityAssumption, ProportionInRange DEF QualityTypes
  <2>2. proportion' = p
    BY <1>3
  <2> HIDE DEF p
  <2>3. QED
    BY <2>1, <2>2
<1>13. m_trDuration' \in Int
  BY <1>3, <1>6
<1>14. CASE Quality!DrawNow(late, paced, earliness, frame)
  <2>1. {sinceLastDraw', m_trFrameAvg', m_trWaitAvg', m_trEarliness'} \subseteq Int
    BY <1>5, <1>10, <1>11, <1>14 DEF Quality!DrawNow, Quality!Least
  <2>2. {m_trLate', m_trFrame'} \subseteq Int /\ 1000 * m_trFrameAvg' <= LongMax
    BY <1>5, <1>8, <1>11, <1>14 DEF Quality!DrawNow
  <2>3. QED
    BY <1>4, <1>12, <1>13, <2>1, <2>2 DEF QualityTypes
<1>15. CASE Quality!DrawWhenDue(late, due, earliness, since, frame)
  <2> DEFINE early == IF earliness < -due.duration THEN -due.duration ELSE earliness
  <2>1. early \in Int
    BY <1>6, <1>10
  <2>2. /\ m_trFrameAvg' = due.duration /\ m_trWaitAvg' = Quality!WaitAvg(late)
        /\ m_trEarliness' = earliness
        /\ sinceLastDraw' = IF late < 0 THEN late - early ELSE 0
        /\ m_trFrame' = IF late < 0 THEN since - late + early ELSE frame
        /\ m_trLate' = IF late < 0 THEN early ELSE late
    BY <1>15 DEF Quality!DrawWhenDue
  <2> HIDE DEF early
  <2>3. {sinceLastDraw', m_trFrameAvg', m_trWaitAvg', m_trEarliness'} \subseteq Int
    BY <1>5, <1>6, <1>10, <1>11, <2>1, <2>2
  <2>4. {m_trLate', m_trFrame'} \subseteq Int /\ 1000 * m_trFrameAvg' <= LongMax
    BY <1>5, <1>6, <1>7, <1>8, <2>1, <2>2
  <2>5. QED
    BY <1>4, <1>12, <1>13, <2>3, <2>4 DEF QualityTypes
<1>16. CASE Quality!Drop(late, paced, earliness, since)
  <2>1. {sinceLastDraw', m_trFrameAvg', m_trWaitAvg', m_trEarliness'} \subseteq Int
    BY <1>6, <1>7, <1>10, <1>11, <1>16 DEF Quality!Drop
  <2>2. {m_trLate', m_trFrame'} \subseteq Int /\ 1000 * m_trFrameAvg' <= LongMax
    BY <1>5, <1>6, <1>16 DEF Quality!Drop, Quality!perf
  <2>3. QED
    BY <1>4, <1>12, <1>13, <2>1, <2>2 DEF QualityTypes
<1>17. QED
  BY <1>2, <1>14, <1>15, <1>16

\* Quality, in any step,
LEMMA QualityStep == QualityInv /\ [Quality!Next]_Qualityvars => QualityInv'
<1> SUFFICES ASSUME QualityTypes, Summed, [Quality!Next]_Qualityvars
             PROVE  QualityTypes' /\ Summed'
  BY DEF QualityInv
<1>1. CASE Quality!ResetStreamingTimes
  <2>1. QualityTypes'
    BY <1>1, QualityAssumption DEF Quality!ResetStreamingTimes, QualityTypes
  <2>2. Summed'
    BY <1>1 DEF Quality!ResetStreamingTimes, Summed
  <2>3. QED
    BY <2>1, <2>2
<1>2. CASE Quality!OnStopStreaming
  BY <1>2 DEF Quality!OnStopStreaming, Quality!pace, Quality!perf, Quality!stats, QualityTypes,
     Summed
<1>3. CASE Quality!Notify
  <2>1. m_trThrottle' \in 0..200
    BY <1>3, QualityAssumption, ThrottleInRange DEF Quality!Notify
  <2>2. QED
    BY <1>3, <2>1 DEF Quality!Notify, Quality!pace, Quality!perf, Quality!stats, QualityTypes,
       Summed
<1>4. CASE Quality!ScheduleSample
  <2>1. UNCHANGED Quality!stats
    BY <1>4 DEF Quality!ScheduleSample
  <2>2. QED
    BY <1>4, <2>1, ScheduleTyped DEF Quality!stats, Summed
<1>5. CASE Quality!Render \/ Quality!OnDirectRender
  <2>1. Summed'
    BY <1>5, SummedStep DEF Quality!Render, Quality!OnDirectRender
  <2>2. sinceLastDraw' \in Int
    BY <1>5, QualityAssumption DEF Quality!Render, Quality!OnDirectRender, QualityTypes
  <2>3. UNCHANGED <<m_trFrameAvg, m_trDuration, m_trWaitAvg, m_trEarliness, m_trLate, m_trFrame,
                    m_trThrottle, proportion>>
    BY <1>5 DEF Quality!Render, Quality!OnDirectRender, Quality!pace, Quality!perf
  <2>4. QED
    BY <2>1, <2>2, <2>3 DEF QualityTypes
<1>6. CASE UNCHANGED Qualityvars
  BY <1>6 DEF Qualityvars, QualityTypes, Summed
<1>7. QED
  BY <1>1, <1>2, <1>3, <1>4, <1>5, <1>6 DEF Quality!Next

\* from the beginning on.
LEMMA QualityInit == Quality!Init => QualityInv
<1> SUFFICES ASSUME Quality!Init PROVE QualityInv
  OBVIOUS
<1>1. QualityTypes
  BY QualityAssumption DEF Quality!Init, QualityTypes
<1>2. Summed
  BY DEF Quality!Init, Summed
<1>3. QED
  BY <1>1, <1>2 DEF QualityInv

\* What the run asks of quality.
LEMMA QualitySafe == QualityInv => Quality!QualityInRange
<1> SUFFICES ASSUME QualityTypes, Summed PROVE Quality!QualityInRange
  BY DEF QualityInv
<1> DEFINE n == m_cFramesDrawn
<1>1. n \in Nat
  BY DEF Summed
<1>2. Quality!get_DevSyncOffset >= 0
  <2>1. ASSUME n >= 1
        PROVE  Sums(n - 1, m_iSumSqAcc, m_iTotAcc)
    BY <2>1 DEF Summed
  <2>2. CASE n >= 1
    BY <1>1, <2>1, <2>2, VarianceSound DEF Quality!get_DevSyncOffset, Sums
  <2>3. CASE n < 1
    BY <1>1, <2>3 DEF Quality!get_DevSyncOffset, Quality!Variance
  <2>4. QED
    BY <1>1, <2>2, <2>3
<1>3. Quality!get_Jitter >= 0
  <2>1. ASSUME n >= 2
        PROVE  Sums(n - 2, m_iSumSqFrameTime, m_iSumFrameTime)
    BY <2>1 DEF Summed
  <2>2. CASE n >= 2
    BY <1>1, <2>1, <2>2, VarianceSound DEF Quality!get_Jitter, Sums
  <2>3. CASE n < 2
    BY <1>1, <2>3 DEF Quality!get_Jitter, Quality!Variance
  <2>4. QED
    BY <1>1, <2>2, <2>3
<1>4. Quality!get_AvgSyncOffset \in -1000..1000
  <2>1. CASE n > 1
    <3>1. Sums(n - 1, m_iSumSqAcc, m_iTotAcc) /\ n - 1 \in Nat \ {0}
      BY <1>1, <2>1 DEF Summed
    <3> DEFINE k == n - 1
    <3>2. k \in Nat \ {0} /\ m_iTotAcc \in Int /\ m_iTotAcc <= 1000 * k
          /\ -(1000 * k) <= m_iTotAcc
      BY <3>1 DEF Sums
    <3>3. Quality!get_AvgSyncOffset = Quality!Quot(m_iTotAcc, k)
      BY <1>1, <2>1 DEF Quality!get_AvgSyncOffset
    <3> HIDE DEF k
    <3> DEFINE q == Quality!Quot(m_iTotAcc, k)
    <3>4. q \in Int /\ -1000 <= q /\ q <= 1000
      BY <3>2, AverageSound
    <3>5. Quality!get_AvgSyncOffset = q
      BY <3>3
    <3> HIDE DEF q
    <3>6. QED
      BY <3>4, <3>5
  <2>2. CASE n <= 1
    BY <2>2 DEF Quality!get_AvgSyncOffset
  <2>3. QED
    BY <1>1, <2>1, <2>2
<1>5. QED
  BY <1>2, <1>3, <1>4 DEF Quality!QualityInRange, QualityTypes
-----------------------------------------------------------------------------
\* The video and the image of it.

\* The source rectangle is within the video, whichever video is connected.
VideoInv ==
    /\ video \in Videos
    /\ source \in [left : Int, top : Int, right : Int, bottom : Int]
    /\ Video!CheckSourceRect(source)

\* The line and the byte in it of a place in a bitmap.
LEMMA PlaceInBitmap ==
    ASSUME NEW line \in Nat, NEW out \in Nat \ {0}, NEW b \in Nat, b < out
    PROVE  (line * out + b) \div out = line /\ (line * out + b) % out = b
<1> DEFINE o == line * out + b
           q == o \div out
<1>1. o \in Nat /\ line * out \in Nat
  OBVIOUS
<1>2. q \in Int /\ out * q <= o /\ o < out * q + out /\ o % out = o - out * q
  BY <1>1
<1> HIDE DEF q
<1>3. ~(q > line)
  <2>1. ASSUME q >= line + 1 PROVE out * q >= out * line + out
    BY <1>2, <2>1
  <2>2. QED
    BY <1>1, <1>2, <2>1
<1>4. ~(q < line)
  <2>1. ASSUME q + 1 <= line PROVE out * q + out <= out * line
    BY <1>2, <2>1
  <2>2. QED
    BY <1>1, <1>2, <2>1
<1>5. q = line
  BY <1>2, <1>3, <1>4
<1>6. o % out = b
  BY <1>1, <1>2, <1>5
<1>7. QED
  BY <1>5, <1>6 DEF q

\* A scan line has room for its pixels.
LEMMA ScanLineFits ==
    ASSUME NEW width \in Nat \ {0}, NEW bits \in {1, 4, 8, 16, 24, 32}
    PROVE  /\ Video!Stride(width, bits) \in Nat \ {0}
           /\ bits \div 8 \in 0..4 /\ (bits >= 8 => bits \div 8 >= 1)
           /\ (bits < 8 => bits \div 8 = 0)
           /\ width * (bits \div 8) <= Video!Stride(width, bits)
<1> DEFINE q == (width * bits + 31) \div 32
           bytes == bits \div 8
<1>1. bytes \in 0..4 /\ 8 * bytes <= bits /\ (bits >= 8 => bytes >= 1) /\ (bits < 8 => bytes = 0)
  OBVIOUS
<1>2. width * bits + 31 \in Nat /\ width * bits + 31 >= 32
  OBVIOUS
<1>3. q \in Int /\ width * bits + 31 < 32 * q + 32
  BY <1>2
<1> HIDE DEF q, bytes
<1>4. 8 * (width * bytes) <= width * bits /\ width * bytes \in Nat
  BY <1>1
<1>5. width * bytes <= q * 4 /\ q >= 1
  BY <1>2, <1>3, <1>4
<1>6. Video!Stride(width, bits) = q * 4
  BY DEF Video!Stride, q
<1>7. QED
  BY <1>1, <1>3, <1>4, <1>5, <1>6 DEF bytes

\* The bytes of an image come from where its pixels are in the video; of pixels smaller
\* than a byte there are none.
LEMMA ImageCopied ==
    ASSUME NEW v \in Videos, NEW r \in [left : Int, top : Int, right : Int, bottom : Int],
           0 <= r.left, r.left < r.right, r.right <= v.width,
           0 <= r.top, r.top < r.bottom, r.bottom <= v.height
    PROVE  LET image == Video!CopyImage(v, r)
           IN  /\ IF v.bits < 8 THEN DOMAIN image.from = {}
                  ELSE \A x \in 0..Video!WIDTH(r) - 1, y \in 0..Video!HEIGHT(r) - 1 :
                     image.from[Video!ByteOf(x, y, image.width, image.height, v.bits)]
                        = Video!ByteOf(r.left + x, r.top + y, v.width, v.height, v.bits)
               /\ \A o \in DOMAIN image.from :
                     /\ o \in 0..Video!GetImageSize(v, r) - 1
                     /\ image.from[o] \in 0..Video!Stride(v.width, v.bits) * v.height - 1
<1> DEFINE W == r.right - r.left
           H == r.bottom - r.top
           bytes == v.bits \div 8
           out == Video!Stride(W, v.bits)
           in == Video!Stride(v.width, v.bits)
           skip == v.height - (r.top + H)
           left0 == r.left
           vh == v.height
           start == skip * in + left0 * bytes
           written == {line * out + b : line \in 0..H - 1, b \in 0..bytes * W - 1}
           from == [o \in written |-> start + (o \div out) * in + (o % out)]
<1>1. /\ W \in Nat \ {0} /\ H \in Nat \ {0} /\ left0 \in Nat /\ skip \in Nat /\ vh \in Nat \ {0}
      /\ v.bits \in {1, 4, 8, 16, 24, 32} /\ v.width \in Nat \ {0} /\ r.top \in Nat
      /\ left0 + W <= v.width /\ skip + H <= vh /\ skip = vh - r.top - H
  BY VideoAssumption
<1>2. bytes \in 0..4 /\ out \in Nat \ {0} /\ in \in Nat \ {0} /\ W * bytes <= out
      /\ v.width * bytes <= in /\ (v.bits >= 8 => bytes >= 1) /\ (v.bits < 8 => bytes = 0)
  BY <1>1, ScanLineFits
<1>3. Video!CopyImage(v, r) = [width |-> W, height |-> H, from |-> from]
  BY DEF Video!CopyImage, Video!WIDTH, Video!HEIGHT, Video!LinesToSkip
<1>4. Video!GetImageSize(v, r) = out * H /\ Video!WIDTH(r) = W /\ Video!HEIGHT(r) = H
  BY DEF Video!GetImageSize, Video!WIDTH, Video!HEIGHT
<1>5. /\ \A x, y : Video!ByteOf(x, y, W, H, v.bits) = (H - 1 - y) * out + x * bytes
      /\ \A x, y : Video!ByteOf(x, y, v.width, v.height, v.bits) = (vh - 1 - y) * in + x * bytes
  BY DEF Video!ByteOf
<1> DEFINE vw == v.width
           top0 == r.top
<1>6. left0 + W <= vw /\ vw \in Nat \ {0} /\ top0 \in Nat /\ skip = vh - top0 - H
  BY <1>1
<1> HIDE DEF W, H, bytes, out, in, skip, left0, vh, vw, top0
<1>7. start \in Nat
  BY <1>1, <1>2
<1>8. ASSUME NEW line \in 0..H - 1, NEW b \in 0..bytes * W - 1
      PROVE  /\ line * out + b \in written
             /\ from[line * out + b] = start + line * in + b
             /\ line * out + b \in 0..out * H - 1
             /\ start + line * in + b \in 0..in * vh - 1
  <2>1. line \in Nat /\ b \in Nat /\ b < out /\ line + 1 <= H /\ b < bytes * W
    BY <1>1, <1>2
  <2>2. line * out + b \in written
    OBVIOUS
  <2>3. (line * out + b) \div out = line /\ (line * out + b) % out = b
    BY <1>2, <2>1, PlaceInBitmap
  <2>4. from[line * out + b] = start + line * in + b
    BY <2>2, <2>3
  <2>5. line * out + b \in 0..out * H - 1
    <3>1. line * out \in Nat /\ out * H \in Nat
      BY <1>1, <1>2, <2>1
    <3>2. line * out + out <= out * H
      BY <1>1, <1>2, <2>1
    <3>3. QED
      BY <1>2, <2>1, <3>1, <3>2
  <2>6. start + line * in + b \in 0..in * vh - 1
    <3>1. skip + line + 1 <= vh
      BY <1>1, <2>1
    <3>2. (skip + line) * in + in <= in * vh
      BY <1>1, <1>2, <2>1, <3>1
    <3>3. left0 * bytes + b < in
      <4>1. (left0 + W) * bytes <= vw * bytes
        BY <1>1, <1>2, <1>6
      <4>2. v.width * bytes = vw * bytes
        BY DEF vw
      <4>3. left0 * bytes + b < left0 * bytes + W * bytes
        BY <1>1, <1>2, <2>1
      <4>4. QED
        BY <1>1, <1>2, <1>6, <2>1, <4>1, <4>2, <4>3
    <3>4. start + line * in + b = (skip + line) * in + (left0 * bytes + b)
      BY <1>1, <1>2, <2>1
    <3>5. start + line * in + b \in Nat
      BY <1>2, <1>7, <2>1
    <3>6. (skip + line) * in \in Nat /\ in * vh \in Nat /\ left0 * bytes + b \in Nat
      BY <1>1, <1>2, <2>1
    <3> DEFINE sum == start + line * in + b
               lines == (skip + line) * in
               rest == left0 * bytes + b
               all == in * vh
    <3> HIDE DEF sum, lines, rest, all
    <3>7. sum \in Nat /\ lines \in Nat /\ rest \in Nat /\ all \in Nat /\ lines + in <= all
          /\ rest < in /\ sum = lines + rest
      BY <3>2, <3>3, <3>4, <3>5, <3>6 DEF sum, lines, rest, all
    <3>8. sum \in 0..all - 1
      BY <1>2, <3>7
    <3>9. QED
      BY <3>8 DEF sum, all
  <2>7. QED
    BY <2>2, <2>4, <2>5, <2>6
<1>9. DOMAIN from = written
  OBVIOUS
<1>10. ASSUME NEW o \in written
       PROVE  \E line \in 0..H - 1, b \in 0..bytes * W - 1 : o = line * out + b
  OBVIOUS
<1> HIDE DEF from, written
<1>11. ASSUME v.bits >= 8, NEW x \in 0..W - 1, NEW y \in 0..H - 1
      PROVE  from[(H - 1 - y) * out + x * bytes] = (vh - 1 - (top0 + y)) * in + (left0 + x) * bytes
  <2> DEFINE line == H - 1 - y
             b == x * bytes
  <2>1. x \in Nat /\ y \in Nat /\ x + 1 <= W /\ y + 1 <= H
    BY <1>1
  <2>2. line \in 0..H - 1 /\ line \in Nat
    BY <1>1, <2>1
  <2>3. b \in 0..bytes * W - 1
    <3>1. x * bytes + bytes <= bytes * W
      BY <1>1, <1>2, <2>1
    <3>2. x * bytes \in Nat /\ bytes * W \in Nat
      BY <1>1, <1>2, <2>1
    <3>3. QED
      BY <1>2, <1>11, <3>1, <3>2
  <2> HIDE DEF b, line
  <2>4. from[line * out + b] = start + line * in + b
    BY <1>8, <2>2, <2>3
  <2>5. skip + line = vh - 1 - (top0 + y)
    <3>1. skip \in Int /\ H \in Int /\ vh \in Int /\ top0 \in Int
      BY <1>1, <1>6
    <3>2. line = H - 1 - y
      BY DEF line
    <3>3. QED
      BY <1>6, <2>1, <3>1, <3>2
  <2>6. start + line * in + b = (skip + line) * in + (left0 + x) * bytes
    BY <1>1, <1>2, <2>1, <2>2 DEF b
  <2>7. QED
    BY <2>4, <2>5, <2>6 DEF b, line
<1>12. ASSUME NEW o \in written
       PROVE  o \in 0..out * H - 1 /\ from[o] \in 0..in * vh - 1
  <2>1. PICK line \in 0..H - 1, b \in 0..bytes * W - 1 : o = line * out + b
    BY <1>10
  <2>2. QED
    BY <1>8, <2>1
<1>13. v.bits >= 8 => \A x \in 0..W - 1, y \in 0..H - 1 :
          from[Video!ByteOf(x, y, W, H, v.bits)]
             = Video!ByteOf(left0 + x, top0 + y, v.width, v.height, v.bits)
  BY <1>5, <1>11
<1>14. \A o \in DOMAIN from : /\ o \in 0..Video!GetImageSize(v, r) - 1
                              /\ from[o] \in 0..in * vh - 1
  BY <1>4, <1>12, <1>9
<1>15. v.bits < 8 => DOMAIN from = {}
  <2>1. ASSUME bytes = 0 PROVE written = {}
    <3>1. 0..bytes * W - 1 = {}
      BY <1>1, <2>1
    <3>2. QED
      BY <1>10, <3>1
  <2>2. QED
    BY <1>2, <1>9, <2>1
<1>16. v.bits < 8 \/ v.bits >= 8
  BY <1>1
<1>17. QED
  BY <1>3, <1>4, <1>13, <1>14, <1>15, <1>16 DEF in, vh, left0, top0

\* Palette entries.
LEMMA EntriesSound == Video!EntriesOfPalette
<1> SUFFICES ASSUME NEW used \in 0..3, NEW start \in -1..4, NEW entries \in -1..4
             PROVE  LET n == Video!Retrieved(used, start, entries)
                        meant == {i \in 0..used - 1 : start <= i /\ i < start + entries}
                    IN  IF n < 0 THEN start \notin 0..used - 1
                        ELSE {start + k : k \in 0..n - 1} = meant
  BY DEF Video!EntriesOfPalette
<1> DEFINE n == Video!Retrieved(used, start, entries)
           meant == {i \in 0..used - 1 : start <= i /\ i < start + entries}
<1>1. CASE start >= used \/ start < 0
  BY <1>1 DEF Video!Retrieved
<1>2. CASE ~(start >= used \/ start < 0)
  <2> DEFINE least == IF used - start < entries THEN used - start ELSE entries
  <2>1. n = IF least < 0 THEN 0 ELSE least
    BY <1>2 DEF Video!Retrieved, Video!Least
  <2>2. n \in Nat /\ (\A k \in Int : 0 <= k => (k < n <=> start + k < used /\ k < entries))
    BY <1>2, <2>1
  <2> HIDE DEF n
  <2>3. ASSUME NEW i \in {start + k : k \in 0..n - 1} PROVE i \in meant
    BY <1>2, <2>2
  <2>4. ASSUME NEW i \in meant PROVE i \in {start + k : k \in 0..n - 1}
    <3>1. i - start \in 0..n - 1 /\ i = start + (i - start)
      BY <1>2, <2>2
    <3>2. QED
      BY <3>1
  <2>5. {start + k : k \in 0..n - 1} = meant
    <3> DEFINE handed == {start + k : k \in 0..n - 1}
    <3>1. (\A i \in handed : i \in meant) /\ (\A i \in meant : i \in handed)
      BY <2>3, <2>4
    <3> HIDE DEF meant, handed
    <3>2. handed = meant
      BY <3>1
    <3>3. QED
      BY <3>2 DEF handed
  <2>6. QED
    BY <2>2, <2>5 DEF n
<1>3. QED
  BY <1>1, <1>2

\* The rectangle, in any step,
LEMMA VideoStep == VideoInv /\ [Video!Next]_Videovars => VideoInv'
<1> SUFFICES ASSUME VideoInv, [Video!Next]_Videovars PROVE VideoInv'
  OBVIOUS
<1> USE DEF VideoInv
<1>1. CASE Video!PutSource
  <2>1. source' \in [left : Int, top : Int, right : Int, bottom : Int]
    <3>1. CASE \E l, t, w, h \in VideoCoordinates : source' = Video!Rect(l, t, l + w, t + h)
      <4>1. PICK l \in VideoCoordinates, t \in VideoCoordinates, w \in VideoCoordinates, h \in VideoCoordinates :
                source' = Video!Rect(l, t, l + w, t + h)
        BY <3>1
      <4>2. l \in Int /\ t \in Int /\ l + w \in Int /\ t + h \in Int
        BY VideoAssumption
      <4>3. QED
        BY <4>1, <4>2 DEF Video!Rect
    <3>2. CASE source' \in Video!Requests(source)
      <4>1. PICK value \in VideoCoordinates : source' \in Video!Properties(source, value)
        BY <3>2 DEF Video!Requests
      <4>2. value \in Int /\ source.left \in Int /\ source.right \in Int /\ source.top \in Int
            /\ source.bottom \in Int
        BY VideoAssumption
      <4> DEFINE right == value + (source.right - source.left)
                 bottom == value + (source.bottom - source.top)
                 wide == source.left + value
                 high == source.top + value
      <4>3. right \in Int /\ bottom \in Int /\ wide \in Int /\ high \in Int
        BY <4>2
      <4>4. \/ source' = [source EXCEPT !.left = value, !.right = right]
            \/ source' = [source EXCEPT !.right = wide]
            \/ source' = [source EXCEPT !.top = value, !.bottom = bottom]
            \/ source' = [source EXCEPT !.bottom = high]
        BY <4>1 DEF Video!Properties, Video!WIDTH, Video!HEIGHT
      <4> HIDE DEF right, bottom, wide, high
      <4>5. QED
        BY <4>2, <4>3, <4>4
    <3>3. QED
      BY <1>1, <3>1, <3>2 DEF Video!PutSource
  <2>2. Video!CheckSourceRect(source') /\ video' = video
    BY <1>1 DEF Video!PutSource
  <2>3. QED
    BY <2>1, <2>2 DEF Video!CheckSourceRect
<1>2. CASE Video!PutDestination \/ Video!SetDefaultDestinationPosition \/ Video!Disconnect
           \/ UNCHANGED Videovars
  <2>1. UNCHANGED <<video, source>>
    BY <1>2 DEF Video!PutDestination, Video!SetDefaultDestinationPosition, Video!Disconnect,
       Videovars
  <2>2. QED
    BY <2>1 DEF Video!CheckSourceRect
<1>3. CASE Video!SetDefaultSourcePosition \/ Video!Connect
  <2>1. video' \in Videos /\ source' = Video!DefaultRect(video')
    BY <1>3 DEF Video!SetDefaultSourcePosition, Video!Connect
  <2>2. video'.width \in Nat \ {0} /\ video'.height \in Nat \ {0}
    BY <2>1, VideoAssumption
  <2>3. QED
    BY <2>1, <2>2 DEF Video!DefaultRect, Video!Rect, Video!CheckSourceRect
<1>4. QED
  BY <1>1, <1>2, <1>3 DEF Video!Next

\* from the beginning on.
LEMMA VideoInit == Video!Init => VideoInv
<1> SUFFICES ASSUME Video!Init PROVE VideoInv
  OBVIOUS
<1>1. video.width \in Nat \ {0} /\ video.height \in Nat \ {0}
  BY VideoAssumption DEF Video!Init
<1>2. QED
  BY <1>1 DEF Video!Init, VideoInv, Video!DefaultRect, Video!Rect, Video!CheckSourceRect

\* What the run asks of the image: the rectangle is all it rests on.
LEMMA VideoSafe == VideoInv => Video!ImageOfSource /\ Video!EntriesOfPalette
<1> SUFFICES ASSUME VideoInv PROVE Video!ImageOfSource
  BY EntriesSound
<1>1. /\ 0 <= source.left /\ source.left < source.right /\ source.right <= video.width
      /\ 0 <= source.top /\ source.top < source.bottom /\ source.bottom <= video.height
  BY DEF VideoInv, Video!CheckSourceRect
<1>2. video \in Videos /\ source \in [left : Int, top : Int, right : Int, bottom : Int]
  BY DEF VideoInv
<1>3. QED
  BY <1>1, <1>2, ImageCopied DEF Video!ImageOfSource
-----------------------------------------------------------------------------
\* Formats and the display.

\* An instance counts as the module it is in does.
LEMMA DisplayCardinality == \A S : Display!Cardinality(S) = Cardinality(S)
  BY DEF Display!Cardinality, Cardinality

\* A run of bits, from the m-th on.
Contiguous(f) == \E m \in Nat, n \in 1..8 : m + n <= 32 /\ f = m..m + n - 1

\* A run of bits is one wherever it begins and however long it is.
LEMMA RunIsContiguous ==
    ASSUME NEW m \in Nat, NEW n \in 1..8, m + n <= 32, NEW f, f = m..m + n - 1
    PROVE  Contiguous(f)
  BY DEF Contiguous

\* A bit field has a lowest bit.
LEMMA LowestBit ==
    ASSUME NEW f, f \subseteq 0..31, f # {}
    PROVE  Display!CountPrefixBits(f) \in f /\ \A c \in f : Display!CountPrefixBits(f) <= c
<1> DEFINE R == OpToRel(<, Nat)
<1>1. IsWellFoundedOn(R, Nat)
  BY NatLessThanWellFounded, Zenon
<1>2. f \subseteq Nat
  OBVIOUS
<1> HIDE DEF R
<1>3. PICK b \in f : \A c \in f : ~(<<c, b>> \in R)
  BY <1>1, <1>2, WFMin
<1>4. \A c \in f : ~(c < b)
  BY <1>2, <1>3 DEF R, OpToRel
<1>5. \A c \in f : b <= c
  BY <1>2, <1>4
<1>6. QED
  BY <1>5 DEF Display!CountPrefixBits

\* What CheckBitFields lets pass is contiguous.
LEMMA ValidIsContiguous ==
    ASSUME NEW f, f \subseteq 0..31, Display!CheckBitField(f)
    PROVE  Contiguous(f)
<1> DEFINE n == Cardinality(f)
           m == Display!CountPrefixBits(f)
<1>1. n \in 1..8 /\ Display!ShiftRight(f, m) \cap (n..31) = {}
  BY DisplayCardinality DEF Display!CheckBitField, Display!CountSetBits, Display!MaxBits,
     Display!Width
<1>2. f # {}
  BY <1>1, FS_EmptySet
<1>3. m \in f /\ \A c \in f : m <= c
  BY <1>2, LowestBit
<1>4. m \in 0..31 /\ n \in 1..8
  BY <1>1, <1>3
<1> HIDE DEF m, n
<1>5. f \subseteq m..m + n - 1
  <2> SUFFICES ASSUME NEW c \in f PROVE c \in m..m + n - 1
    OBVIOUS
  <2>1. c \in 0..31 /\ m <= c
    BY <1>3
  <2>2. c - m \in Display!ShiftRight(f, m)
    BY <2>1 DEF Display!ShiftRight
  <2>3. c - m \notin n..31
    BY <1>1, <2>2
  <2>4. QED
    BY <1>4, <2>1, <2>3
<1>6. IsFiniteSet(m..m + n - 1) /\ Cardinality(m..m + n - 1) = n
  BY <1>4, FS_Interval
<1>7. f = m..m + n - 1
  BY <1>5, <1>6, FS_Subset DEF n
<1>8. m + n - 1 \in f
  BY <1>4, <1>7
<1>9. m + n <= 32
  BY <1>4, <1>8
<1>10. m \in Nat /\ n \in 1..8
  BY <1>4
<1>11. QED
  BY <1>7, <1>9, <1>10, RunIsContiguous

\* The mask of a contiguous bit field.
LEMMA ContiguousMask ==
    ASSUME NEW m \in Nat, NEW n \in 1..8, m + n <= 32
    PROVE  LET f == m..m + n - 1
           IN  /\ Cardinality(f) = n
               /\ Display!ShiftLeft(Display!ShiftRight(f, Display!CountPrefixBits(f)),
                                    Display!MaxBits - Display!CountSetBits(f)) = (8 - n)..7
<1> DEFINE f == m..m + n - 1
<1>1. Cardinality(f) = n /\ Display!CountSetBits(f) = n
  BY FS_Interval, DisplayCardinality DEF Display!CountSetBits
<1>2. f \subseteq 0..31 /\ m \in f
  OBVIOUS
<1>3. Display!CountPrefixBits(f) = m
  <2> DEFINE p == Display!CountPrefixBits(f)
  <2>1. p \in f /\ p <= m
    BY <1>2, LowestBit
  <2> HIDE DEF p
  <2>2. p = m
    BY <2>1
  <2>3. QED
    BY <2>2 DEF p
<1>4. Display!ShiftRight(f, m) = 0..n - 1
  <2>1. ASSUME NEW b \in 0..n - 1 PROVE b \in Display!ShiftRight(f, m)
    <3>1. b + m \in {c \in f : c >= m} /\ b = (b + m) - m
      OBVIOUS
    <3>2. QED
      BY <3>1 DEF Display!ShiftRight
  <2>2. ASSUME NEW b \in Display!ShiftRight(f, m) PROVE b \in 0..n - 1
    BY DEF Display!ShiftRight
  <2>3. QED
    BY <2>1, <2>2
<1>5. Display!ShiftLeft(0..n - 1, 8 - n) = (8 - n)..7
  <2>1. ASSUME NEW b \in (8 - n)..7 PROVE b \in Display!ShiftLeft(0..n - 1, 8 - n)
    <3>1. b - (8 - n) \in {c \in 0..n - 1 : c + (8 - n) < 32} /\ b = (b - (8 - n)) + (8 - n)
      OBVIOUS
    <3>2. QED
      BY <3>1 DEF Display!ShiftLeft, Display!Width
  <2>2. ASSUME NEW b \in Display!ShiftLeft(0..n - 1, 8 - n) PROVE b \in (8 - n)..7
    BY DEF Display!ShiftLeft, Display!Width
  <2>3. QED
    BY <2>1, <2>2
<1>6. QED
  BY <1>1, <1>3, <1>4, <1>5 DEF Display!MaxBits

\* What the display's format says of the mode while it is being filled in.
LEMMA FormatOfMode ==
    ASSUME NEW d \in Headers
    PROVE  /\ Display!UpdateFormat(d).bits = d.bits
           /\ Display!GetBitMasks(Display!UpdateFormat(d)) = Display!GetBitMasks(d)
           /\ [d EXCEPT !.fields = Display!None].bits = d.bits
           /\ Display!GetBitMasks([d EXCEPT !.fields = Display!None])
                 \in {Display!None, Display!GetBitMasks(d)}
<1> DEFINE u == Display!UpdateFormat(d)
           f == [d EXCEPT !.fields = Display!None]
<1>1. u.bits = d.bits /\ u.compression = d.compression /\ u.fields = d.fields
  BY DEF Headers, Display!UpdateFormat
<1>2. f.bits = d.bits /\ f.compression = d.compression /\ f.fields = Display!None
  BY DEF Headers
<1> HIDE DEF u, f
<1>3. Display!GetBitMasks(u) = Display!GetBitMasks(d)
  BY <1>1 DEF Display!GetBitMasks
<1>4. Display!GetBitMasks(f) \in {Display!None, Display!GetBitMasks(d)}
  BY <1>2 DEF Display!GetBitMasks
<1>5. QED
  BY <1>1, <1>2, <1>3, <1>4 DEF u, f

\* The display's format, as the window's thread fills it in.
DisplayWindow ==
    /\ mode \in Displays
    /\ \/ pcWindow = "idle" /\ m_Display = Display!UpdateFormat(mode)
       \/ pcWindow = "zeroed" /\ m_Display = Display!Zero
       \/ pcWindow = "header" /\ m_Display = [mode EXCEPT !.fields = Display!None]

\* What the check knows of the type, and of the modes there were since it began.
DisplayCheck ==
    /\ displayPc \in {"idle", "same", "deeper", "shallower", "masks", "accepted", "rejected"}
    /\ displayPc # "idle" => mode \in modes /\ modes \subseteq Displays /\ input \in Inputs
    /\ displayPc \notin {"idle", "rejected"} => Display!CheckHeaderValidity(input)
    /\ displayPc = "masks" => \E d \in modes : d.bits >= input.bits
    /\ displayPc = "accepted" => \E d \in modes : Display!Shows(d, input)

\* Together inductive.
DisplayInv == DisplayWindow /\ DisplayCheck

\* A look at the display's format finds it zeroed, or that of the mode, whose bit fields
\* may be missing.
LEMMA LookAtDisplay ==
    ASSUME DisplayWindow
    PROVE  /\ mode \in Displays /\ mode \in Headers /\ m_Display.bits \in {0, mode.bits}
           /\ Display!GetBitMasks(m_Display) \in {Display!None, Display!GetBitMasks(mode)}
<1>1. mode \in Displays /\ mode \in Headers
  BY DisplayAssumption DEF DisplayWindow
<1>2. Display!Zero.bits = 0 /\ Display!GetBitMasks(Display!Zero) = Display!None
  BY DEF Display!Zero, Display!GetBitMasks
<1>3. CASE m_Display = Display!Zero
  BY <1>1, <1>2, <1>3
<1>4. CASE m_Display = Display!UpdateFormat(mode)
  BY <1>1, <1>4, FormatOfMode
<1>5. CASE m_Display = [mode EXCEPT !.fields = Display!None]
  BY <1>1, <1>5, FormatOfMode
<1>6. QED
  BY <1>3, <1>4, <1>5 DEF DisplayWindow

\* A valid format of 16 bits or more has masks, and they are its layout.
LEMMA MasksOfValid ==
    ASSUME NEW h \in Headers, h.bits \in {16, 24, 32}
    PROVE  /\ Display!Layout(h) = Display!GetBitMasks(h)
           /\ Display!CheckHeaderValidity(h) => Display!GetBitMasks(h) # Display!None
<1>1. Display!Layout(h) = Display!GetBitMasks(h)
  BY DEF Display!Layout, Display!GetBitMasks, Display!bits555, Display!bits888
<1>2. Display!None[1] = {}
  BY DEF Display!None
<1>3. ASSUME Display!CheckHeaderValidity(h) PROVE Display!GetBitMasks(h)[1] # {}
  <2>1. CASE h.compression = "bitfields"
    <3>1. Display!CheckBitField(h.fields[1]) /\ Display!GetBitMasks(h) = h.fields
      BY <1>3, <2>1 DEF Display!CheckHeaderValidity, Display!Colours, Display!GetBitMasks
    <3>2. Cardinality({}) \notin 1..8
      BY FS_EmptySet
    <3>3. QED
      BY <3>1, <3>2, DisplayCardinality DEF Display!CheckBitField, Display!CountSetBits,
         Display!MaxBits
  <2>2. CASE h.compression # "bitfields"
    <3>1. Display!GetBitMasks(h) \in {Display!bits555, Display!bits888}
      BY <2>2 DEF Display!GetBitMasks
    <3>2. 10 \in Display!bits555[1] /\ 16 \in Display!bits888[1]
      BY DEF Display!bits555, Display!bits888
    <3>3. QED
      BY <3>1, <3>2
  <2>3. QED
    BY <2>1, <2>2
<1>4. QED
  BY <1>1, <1>2, <1>3

\* Who has the depth, or who has the masks, shows the image.
LEMMA ShownByMasks ==
    ASSUME NEW d \in Displays, NEW e \in Displays, NEW h \in Inputs,
           Display!CheckHeaderValidity(h), d.bits >= h.bits,
           Display!GetBitMasks(h) \in {Display!None, Display!GetBitMasks(e)}
    PROVE  Display!Shows(d, h) \/ Display!Shows(e, h)
<1>1. d \in Headers /\ e \in Headers /\ h \in Headers
  BY DisplayAssumption
<1>2. {d.bits, e.bits, h.bits} \subseteq {1, 4, 8, 16, 24, 32}
  BY <1>1 DEF Headers
<1>3. CASE d.bits > h.bits
  BY <1>2, <1>3 DEF Display!Shows
<1>4. CASE d.bits = h.bits /\ h.bits <= 8
  BY <1>4 DEF Display!Shows, Display!PALETTISED
<1>5. CASE d.bits = h.bits /\ h.bits > 8
  <2>1. h.bits \in {16, 24, 32}
    BY <1>2, <1>5
  <2>2. Display!GetBitMasks(h) = Display!GetBitMasks(e)
        /\ Display!Layout(h) = Display!GetBitMasks(h)
        /\ Display!Layout(d) = Display!GetBitMasks(d)
    BY <1>1, <1>5, <2>1, MasksOfValid
  <2>3. CASE e.bits > h.bits
    BY <1>2, <2>3 DEF Display!Shows
  <2>4. CASE e.bits = h.bits
    <3>1. Display!Layout(e) = Display!GetBitMasks(e)
      BY <1>1, <2>1, <2>4, MasksOfValid
    <3>2. QED
      BY <2>2, <2>4, <3>1 DEF Display!Shows
  <2>5. CASE e.bits < h.bits
    <3>1. Display!GetBitMasks(d) = Display!GetBitMasks(h)
      BY <1>5, <2>2, <2>5, DisplayAssumption
    <3>2. QED
      BY <1>5, <2>2, <3>1 DEF Display!Shows
  <2>6. QED
    BY <1>2, <2>3, <2>4, <2>5
<1>6. QED
  BY <1>2, <1>3, <1>4, <1>5

\* A look at the display's format, and what it decides.
LEMMA DecideStep ==
    ASSUME DisplayInv, NEW here, NEW next, Display!Decide(here, next),
           here \in {"same", "deeper", "shallower", "masks"},
           next \in {"deeper", "shallower", "masks", "accepted", "rejected"},
           next = "masks" => \E d \in modes : d.bits >= input.bits,
           next = "accepted" => \E d \in modes : Display!Shows(d, input)
    PROVE  DisplayInv'
<1>1. displayPc = here /\ displayPc' = next /\ UNCHANGED <<m_Display, mode, pcWindow, input, modes>>
  BY DEF Display!Decide
<1>2. DisplayWindow'
  BY <1>1 DEF DisplayInv, DisplayWindow
<1>3. mode \in modes /\ modes \subseteq Displays /\ input \in Inputs
      /\ Display!CheckHeaderValidity(input)
  BY <1>1 DEF DisplayInv, DisplayCheck
<1>4. DisplayCheck'
  BY <1>1, <1>3 DEF DisplayCheck
<1>5. QED
  BY <1>2, <1>4 DEF DisplayInv

\* The check and the refresh, in any step of either,
LEMMA DisplayStep == DisplayInv /\ [Display!Next]_Displayvars => DisplayInv'
<1> SUFFICES ASSUME DisplayInv, [Display!Next]_Displayvars PROVE DisplayInv'
  OBVIOUS
<1>1. DisplayWindow /\ DisplayCheck
  BY DEF DisplayInv
<1>2. ASSUME NEW d \in Displays, Display!RefreshDisplayType(d) PROVE DisplayInv'
  <2>1. DisplayWindow'
    BY <1>2 DEF Display!RefreshDisplayType, DisplayWindow
  <2>2. UNCHANGED <<input, displayPc>> /\ mode' = d
        /\ (displayPc # "idle" => modes' = modes \cup {d})
    BY <1>2 DEF Display!RefreshDisplayType
  <2>3. DisplayCheck'
    BY <1>1, <2>2 DEF DisplayCheck
  <2>4. QED
    BY <2>1, <2>3 DEF DisplayInv
<1>3. CASE Display!FillHeader \/ Display!FillColours
  <2>1. DisplayWindow'
    BY <1>1, <1>3 DEF Display!FillHeader, Display!FillColours, DisplayWindow
  <2>2. UNCHANGED <<mode, input, displayPc, modes>>
    BY <1>3 DEF Display!FillHeader, Display!FillColours
  <2>3. DisplayCheck'
    BY <1>1, <2>2 DEF DisplayCheck
  <2>4. QED
    BY <2>1, <2>3 DEF DisplayInv
<1>4. ASSUME NEW h \in Inputs, Display!CheckVideoType(h) PROVE DisplayInv'
  <2>1. DisplayWindow'
    BY <1>1, <1>4 DEF Display!CheckVideoType, DisplayWindow
  <2>2. /\ input' = h /\ modes' = {mode} /\ mode' = mode
        /\ displayPc' = IF Display!CheckHeaderValidity(h) THEN "same" ELSE "rejected"
    BY <1>4 DEF Display!CheckVideoType
  <2>3. mode \in Displays
    BY <1>1 DEF DisplayWindow
  <2>4. DisplayCheck'
    BY <2>2, <2>3 DEF DisplayCheck
  <2>5. QED
    BY <2>1, <2>4 DEF DisplayInv
<1>5. /\ mode \in Headers /\ m_Display.bits \in {0, mode.bits}
      /\ Display!GetBitMasks(m_Display) \in {Display!None, Display!GetBitMasks(mode)}
      /\ mode.bits \in 1..32
  BY <1>1, LookAtDisplay DEF Headers
<1>6. ASSUME displayPc # "idle"
      PROVE  mode \in modes /\ modes \subseteq Displays /\ input \in Inputs /\ input.bits \in 1..32
  BY <1>1, <1>6, DisplayAssumption DEF DisplayCheck, Headers
<1>7. CASE Display!CheckPalettised
  <2> DEFINE next == IF m_Display.bits = input.bits /\ Display!PALETTISED(input) THEN "accepted"
                     ELSE "deeper"
  <2>1. Display!Decide("same", next) /\ displayPc = "same"
    BY <1>7 DEF Display!CheckPalettised, Display!Decide
  <2>2. next = "accepted" => Display!Shows(mode, input)
    BY <1>5, <1>6, <2>1 DEF Display!Shows
  <2>3. next \in {"deeper", "accepted"}
    OBVIOUS
  <2> HIDE DEF next
  <2>4. next = "accepted" => \E d \in modes : Display!Shows(d, input)
    BY <1>6, <2>1, <2>2
  <2>5. QED
    BY <2>1, <2>3, <2>4, DecideStep
<1>8. CASE Display!CheckDeeper
  <2> DEFINE next == IF m_Display.bits > input.bits THEN "accepted" ELSE "shallower"
  <2>1. Display!Decide("deeper", next) /\ displayPc = "deeper"
    BY <1>8 DEF Display!CheckDeeper, Display!Decide
  <2>2. next = "accepted" => Display!Shows(mode, input)
    BY <1>5, <1>6, <2>1 DEF Display!Shows
  <2>3. next \in {"shallower", "accepted"}
    OBVIOUS
  <2> HIDE DEF next
  <2>4. next = "accepted" => \E d \in modes : Display!Shows(d, input)
    BY <1>6, <2>1, <2>2
  <2>5. QED
    BY <2>1, <2>3, <2>4, DecideStep
<1>9. CASE Display!CheckShallower
  <2> DEFINE next == IF m_Display.bits < input.bits THEN "rejected" ELSE "masks"
  <2>1. Display!Decide("shallower", next) /\ displayPc = "shallower"
    BY <1>9 DEF Display!CheckShallower, Display!Decide
  <2>2. next = "masks" => mode.bits >= input.bits
    BY <1>5, <1>6, <2>1
  <2>3. next \in {"rejected", "masks"}
    OBVIOUS
  <2> HIDE DEF next
  <2>4. next = "masks" => \E d \in modes : d.bits >= input.bits
    BY <1>6, <2>1, <2>2
  <2>5. QED
    BY <2>1, <2>3, <2>4, DecideStep
<1>10. CASE Display!CheckMasks
  <2> DEFINE next == IF Display!GetBitMasks(input) = Display!GetBitMasks(m_Display)
                     THEN "accepted" ELSE "rejected"
  <2>1. Display!Decide("masks", next) /\ displayPc = "masks"
    BY <1>10 DEF Display!CheckMasks, Display!Decide
  <2>2. ASSUME next = "accepted" PROVE \E d \in modes : Display!Shows(d, input)
    <3>1. Display!GetBitMasks(input) \in {Display!None, Display!GetBitMasks(mode)}
      BY <1>5, <2>2
    <3>2. PICK d \in modes : d.bits >= input.bits
      BY <1>1, <2>1 DEF DisplayCheck
    <3>3. Display!CheckHeaderValidity(input)
      BY <1>1, <2>1 DEF DisplayCheck
    <3>4. d \in Displays /\ mode \in Displays /\ mode \in modes /\ input \in Inputs
      BY <1>6, <2>1
    <3>5. Display!Shows(d, input) \/ Display!Shows(mode, input)
      BY <3>1, <3>2, <3>3, <3>4, ShownByMasks
    <3>6. QED
      BY <3>4, <3>5
  <2>3. next \in {"rejected", "accepted"}
    OBVIOUS
  <2> HIDE DEF next
  <2>4. QED
    BY <2>1, <2>2, <2>3, DecideStep
<1>11. CASE Display!CheckReturns
  <2>1. DisplayWindow'
    BY <1>1, <1>11 DEF Display!CheckReturns, DisplayWindow
  <2>2. DisplayCheck'
    BY <1>11 DEF Display!CheckReturns, DisplayCheck
  <2>3. QED
    BY <2>1, <2>2 DEF DisplayInv
<1>12. CASE UNCHANGED Displayvars
  <2>1. DisplayWindow'
    BY <1>1, <1>12 DEF Displayvars, DisplayWindow
  <2>2. DisplayCheck'
    BY <1>1, <1>12 DEF Displayvars, DisplayCheck
  <2>3. QED
    BY <2>1, <2>2 DEF DisplayInv
<1>13. QED
  BY <1>2, <1>3, <1>4, <1>7, <1>8, <1>9, <1>10, <1>11, <1>12 DEF Display!Next

\* from the beginning on.
LEMMA DisplayInit == Display!Init => DisplayInv
  BY DEF Display!Init, DisplayInv, DisplayWindow, DisplayCheck

\* A valid format can be made explicit.
LEMMA ExplicitValid ==
    ASSUME NEW h \in Headers, Display!CheckHeaderValidity(h)
    PROVE  LET u == Display!UpdateFormat(h)
           IN  /\ Display!CheckHeaderValidity(u) /\ u.size = u.bits
               /\ Display!PALETTISED(u) => u.used > 0 /\ u.important <= u.used
<1> DEFINE entries == Display!PALETTE_ENTRIES(h)
           used == IF Display!PALETTISED(h) /\ h.used = 0 THEN entries ELSE h.used
           important == IF h.important > used THEN entries ELSE h.important
           explicit == IF h.size = 0 THEN h.bits ELSE h.size
           u == Display!UpdateFormat(h)
<1>1. h.bits <= 8 => entries \in Nat \ {0}
  <2>1. ASSUME h.bits <= 8 PROVE h.bits \in {1, 4, 8} /\ h.bits % 32 = h.bits
    BY <2>1 DEF Headers
  <2>2. QED
    BY <2>1, PaletteSizes DEF Display!PALETTE_ENTRIES, Display!Width
<1>2. u = [h EXCEPT !.used = used, !.important = important, !.size = explicit]
  BY DEF Display!UpdateFormat
<1> HIDE DEF used, important, explicit, u
<1>3. /\ u.used = used /\ u.important = important /\ u.size = explicit /\ u.bits = h.bits
      /\ u.compression = h.compression /\ u.fields = h.fields /\ u.whole = h.whole
  BY <1>2 DEF Headers
<1>4. /\ h.whole /\ h.compression \in {"rgb", "bitfields"}
      /\ h.compression = "bitfields" =>
             h.bits \in {16, 32} /\ \A c \in Display!Colours : Display!CheckBitField(h.fields[c])
      /\ h.size \in {0, h.bits}
      /\ Display!CheckPaletteHeader(h)
  BY DEF Display!CheckHeaderValidity
<1>5. Display!PALETTE_ENTRIES(u) = entries
  BY <1>3 DEF Display!PALETTE_ENTRIES
<1>6. h.used \in Nat /\ h.important \in Nat /\ h.bits \in 1..32
  BY DEF Headers
<1>7. explicit = h.bits
  BY <1>4 DEF explicit
<1> HIDE DEF entries
<1>8. CASE h.bits <= 8
  <2>1. h.compression = "rgb" /\ h.used <= entries /\ h.important <= h.used
    BY <1>4, <1>8 DEF Display!CheckPaletteHeader, Display!PALETTISED, entries
  <2>2. used = IF h.used = 0 THEN entries ELSE h.used
    BY <1>8 DEF used, Display!PALETTISED
  <2>3. used \in Nat /\ used > 0 /\ used <= entries /\ h.important <= used
    BY <1>1, <1>6, <1>8, <2>1, <2>2
  <2>4. important = h.important
    BY <1>6, <2>3 DEF important
  <2>5. Display!CheckPaletteHeader(u)
    BY <1>3, <1>5, <1>8, <2>1, <2>3, <2>4 DEF Display!CheckPaletteHeader, Display!PALETTISED
  <2>6. QED
    BY <1>3, <1>4, <1>7, <2>3, <2>4, <2>5 DEF Display!CheckHeaderValidity, u
<1>9. CASE h.bits > 8
  <2>1. h.used = 0 /\ used = h.used
    BY <1>4, <1>6, <1>9 DEF Display!CheckPaletteHeader, Display!PALETTISED, used
  <2>2. ~Display!PALETTISED(u) /\ Display!CheckPaletteHeader(u)
    BY <1>3, <1>6, <1>9, <2>1 DEF Display!CheckPaletteHeader, Display!PALETTISED
  <2>3. QED
    BY <1>3, <1>4, <1>7, <2>2 DEF Display!CheckHeaderValidity, u
<1>10. QED
  BY <1>6, <1>8, <1>9

\* A valid format of 16 bits or more has leading masks.
LEMMA MasksLead ==
    ASSUME NEW h \in Headers, Display!CheckHeaderValidity(h), h.bits >= 16,
           NEW c \in Display!Colours
    PROVE  Display!ColourMask(h, c) = (8 - Cardinality(Display!Layout(h)[c]))..7
<1>1. h.bits \in {16, 24, 32} /\ c \in 1..3
  BY DEF Headers, Display!Colours
<1>2. Display!Layout(h) = Display!GetBitMasks(h)
  BY <1>1, MasksOfValid
<1>3. Contiguous(Display!GetBitMasks(h)[c])
  <2>1. CASE h.compression = "bitfields"
    <3>1. Display!GetBitMasks(h) = h.fields /\ Display!CheckBitField(h.fields[c])
      BY <2>1 DEF Display!GetBitMasks, Display!CheckHeaderValidity
    <3>2. h.fields[c] \subseteq 0..31
      BY <1>1 DEF Headers
    <3>3. QED
      BY <3>1, <3>2, ValidIsContiguous
  <2>2. CASE h.compression # "bitfields" /\ h.bits = 16
    <3>1. \E m \in {0, 5, 10} : Display!GetBitMasks(h)[c] = m..m + 4
      BY <1>1, <2>2 DEF Display!GetBitMasks, Display!bits555
    <3>2. PICK m \in {0, 5, 10} : Display!GetBitMasks(h)[c] = m..m + 4
      BY <3>1
    <3> DEFINE n == 5
    <3>3. n \in 1..8 /\ m \in Nat /\ m + n <= 32 /\ m + n - 1 = m + 4
      OBVIOUS
    <3> HIDE DEF n
    <3>4. QED
      BY <3>2, <3>3, RunIsContiguous
  <2>3. CASE h.compression # "bitfields" /\ h.bits # 16
    <3>1. \E m \in {0, 8, 16} : Display!GetBitMasks(h)[c] = m..m + 7
      BY <1>1, <2>3 DEF Display!GetBitMasks, Display!bits888
    <3>2. PICK m \in {0, 8, 16} : Display!GetBitMasks(h)[c] = m..m + 7
      BY <3>1
    <3> DEFINE n == 8
    <3>3. n \in 1..8 /\ m \in Nat /\ m + n <= 32 /\ m + n - 1 = m + 7
      OBVIOUS
    <3> HIDE DEF n
    <3>4. QED
      BY <3>2, <3>3, RunIsContiguous
  <2>4. QED
    BY <2>1, <2>2, <2>3
<1>4. PICK m \in Nat, n \in 1..8 : m + n <= 32 /\ Display!GetBitMasks(h)[c] = m..m + n - 1
  BY <1>3 DEF Contiguous
<1> DEFINE f == m..m + n - 1
<1>5. /\ Cardinality(f) = n
      /\ Display!ShiftLeft(Display!ShiftRight(f, Display!CountPrefixBits(f)),
                           Display!MaxBits - Display!CountSetBits(f)) = (8 - n)..7
  BY <1>4, ContiguousMask
<1> HIDE DEF f
<1>6. Display!GetBitMasks(h)[c] = f
  BY <1>4 DEF f
<1>7. CASE h.bits = 24
  <2>1. h.compression # "bitfields"
    BY <1>7 DEF Display!CheckHeaderValidity
  <2>2. \E a \in {0, 8, 16} : Display!GetBitMasks(h)[c] = a..a + 7
    BY <1>1, <1>7, <2>1 DEF Display!GetBitMasks, Display!bits888
  <2>3. PICK a \in {0, 8, 16} : f = a..a + 7
    BY <1>6, <2>2
  <2>4. Cardinality(f) = 8
    <3>1. a + 7 \in Int /\ ~(a > a + 7) /\ a + 7 - a + 1 = 8
      OBVIOUS
    <3>2. Cardinality(a..a + 7) = IF a > a + 7 THEN 0 ELSE a + 7 - a + 1
      BY <3>1, FS_Interval
    <3>3. QED
      BY <2>3, <3>1, <3>2
  <2>5. Display!ColourMask(h, c) = 0..7
    BY <1>7 DEF Display!ColourMask
  <2>6. QED
    BY <1>2, <1>6, <2>4, <2>5
<1>8. CASE h.bits # 24
  BY <1>2, <1>5, <1>6, <1>8 DEF Display!ColourMask
<1>9. QED
  BY <1>7, <1>8

\* What the run asks of formats.
LEMMA DisplaySafe ==
    DisplayInv => Display!AcceptedIsShown /\ Display!ExplicitIsValid /\ Display!MasksAreLeading
<1> SUFFICES ASSUME DisplayInv
             PROVE  Display!AcceptedIsShown /\ Display!ExplicitIsValid /\ Display!MasksAreLeading
  OBVIOUS
<1>1. Display!AcceptedIsShown
  BY DEF DisplayInv, DisplayCheck, Display!AcceptedIsShown
<1>2. ASSUME displayPc = "accepted"
      PROVE  input \in Headers /\ Display!CheckHeaderValidity(input)
  BY <1>2, DisplayAssumption DEF DisplayInv, DisplayCheck
<1>3. Display!ExplicitIsValid
  BY <1>2, ExplicitValid DEF Display!ExplicitIsValid
<1>4. ASSUME displayPc = "accepted", input.bits >= 16, NEW c \in Display!Colours
      PROVE  Display!ColourMask(input, c) = (8 - Cardinality(Display!Layout(input)[c]))..7
  BY <1>2, <1>4, MasksLead
<1>5. Display!MasksAreLeading
  BY <1>4, DisplayCardinality DEF Display!MasksAreLeading
<1>6. QED
  BY <1>1, <1>3, <1>5
-----------------------------------------------------------------------------
\* The queue of commands.

\* A list of commands in the order of the times t.
InOrder(list, t) ==
    \A i, j \in DOMAIN list : i < j => list[i] # list[j] /\ t[list[i]] <= t[list[j]]

\* The time the clock is to be asked for, 0 for none.
Due == Queue!Earliest(Queue!PresentationDue(m_listPresentation, m_time),
                      Queue!StreamDue(m_listStream, m_time, m_bRunning, m_StreamTimeOffset))

QueueTypes ==
    /\ m_time \in [Commands -> Nat] /\ m_pQueue \in [Commands -> {"new", "set", "NULL"}]
    /\ m_listPresentation \in Seq(Commands) /\ m_listStream \in Seq(Commands)
    /\ postponed \subseteq Commands
    /\ m_StreamTimeOffset \in Nat /\ m_tCurrentAdvise \in Nat /\ pending \in Nat /\ now \in Nat
    /\ pcWorker = "invoke" => pCmd \in Commands

\* The commands that are set and not being postponed, and no others, are on the list of
\* their kind.
Queues ==
    /\ \A c \in Commands : Queue!Queued(c) <=> m_pQueue[c] = "set" /\ c \notin postponed
    /\ \A c \in postponed : m_pQueue[c] # "new"
    /\ \A c \in Queue!Range(m_listPresentation) : ~m_bStream[c]
    /\ \A c \in Queue!Range(m_listStream) : m_bStream[c]
    /\ InOrder(m_listPresentation, m_time) /\ InOrder(m_listStream, m_time)

\* What the clock was asked for last is pending until it is due, unless it was another
\* clock, and is the earliest unless that is due.
Advised ==
    /\ m_tCurrentAdvise > now => pending = m_tCurrentAdvise \/ lost
    /\ pending # 0 => pending = m_tCurrentAdvise
    /\ m_pClock /\ Due > now => m_tCurrentAdvise = Due

QueueInv == QueueTypes /\ Queues /\ Advised

LEMMA QueueInit == Queue!Init => QueueInv
<1> SUFFICES ASSUME Queue!Init PROVE QueueInv
  OBVIOUS
<1>1. QueueTypes
  BY DEF Queue!Init, QueueTypes
<1>2. Queues
  BY DEF Queue!Init, Queues, InOrder, Queue!Queued, Queue!Range
<1>3. Advised
  BY DEF Queue!Init, Advised
<1>4. QED
  BY <1>1, <1>2, <1>3 DEF QueueInv

\* The place of a command on a list, and that of those before it.
LEMMA Places ==
    ASSUME NEW list \in Seq(Commands)
    PROVE  /\ Len(list) \in Nat /\ DOMAIN list = 1..Len(list)
           /\ \A i \in 1..Len(list) : list[i] \in Commands
  OBVIOUS

\* What is on a list.
LEMMA OnList ==
    ASSUME NEW s, NEW n, DOMAIN s = 1..n
    PROVE  \A d : d \in Queue!Range(s) <=> \E k \in 1..n : s[k] = d
  BY DEF Queue!Range

\* A list with c behind all commands that are due no later than it, at the times t.
Longer(list, t, c) ==
    LET before == {k \in DOMAIN list : \A j \in 1..k : t[list[j]] <= t[c]}
    IN  [k \in 1..(Len(list) + 1) |-> IF k \in before THEN list[k]
                                     ELSE IF k - 1 \in before \cup {0} THEN c ELSE list[k - 1]]

\* Insert keeps the order, and puts in the one command.
LEMMA Inserted ==
    ASSUME NEW list \in Seq(Commands), NEW t \in [Commands -> Nat], NEW c \in Commands,
           InOrder(list, t), c \notin Queue!Range(list)
    PROVE  /\ Longer(list, t, c) \in Seq(Commands) /\ InOrder(Longer(list, t, c), t)
           /\ \A d : d \in Queue!Range(Longer(list, t, c)) <=> d = c \/ d \in Queue!Range(list)
<1> DEFINE before == {k \in DOMAIN list : \A j \in 1..k : t[list[j]] <= t[c]}
           longer == Longer(list, t, c)
<1>1. longer = [k \in 1..(Len(list) + 1) |->
                    IF k \in before THEN list[k]
                    ELSE IF k - 1 \in before \cup {0} THEN c ELSE list[k - 1]]
  BY DEF Longer
<1>2. \A i \in DOMAIN list : list[i] # c
  BY DEF Queue!Range
<1>3. /\ Len(list) \in Nat /\ DOMAIN list = 1..Len(list) /\ t[c] \in Nat
      /\ \A i \in 1..Len(list) : list[i] \in Commands /\ t[list[i]] \in Nat
  BY Places
<1> HIDE DEF longer
<1>4. \A k \in before : k \in 1..Len(list) /\ t[list[k]] <= t[c] /\ \A j \in 1..k : j \in before
  BY <1>3
<1>5. ASSUME NEW k \in 1..Len(list), k \notin before, k - 1 \in before \cup {0}
      PROVE  t[c] < t[list[k]]
  <2>1. PICK j \in 1..k : ~(t[list[j]] <= t[c])
    BY <1>3, <1>5
  <2>2. j = k
    BY <1>3, <1>4, <1>5, <2>1
  <2>3. QED
    BY <1>3, <2>1, <2>2
<1> HIDE DEF before
<1>6. ASSUME NEW k \in 1..(Len(list) + 1)
      PROVE  \/ k \in before /\ k \in 1..Len(list) /\ longer[k] = list[k]
             \/ k \notin before /\ k - 1 \in before \cup {0} /\ longer[k] = c
             \/ /\ k \notin before /\ k - 1 \notin before \cup {0} /\ k - 1 \in 1..Len(list)
                /\ longer[k] = list[k - 1]
  BY <1>1, <1>3, <1>4
<1>7. DOMAIN longer = 1..(Len(list) + 1)
  BY <1>1
<1>8. longer \in Seq(Commands)
  <2>1. \A k \in 1..(Len(list) + 1) : longer[k] \in Commands
    BY <1>3, <1>6
  <2>2. QED
    BY <1>1, <1>3, <2>1
<1>9. \A i, j \in 1..Len(list) : i < j => list[i] # list[j] /\ t[list[i]] <= t[list[j]]
  BY <1>3 DEF InOrder
<1>10. ASSUME NEW k \in 1..(Len(list) + 1), NEW l \in 1..(Len(list) + 1), k < l
       PROVE  longer[k] # longer[l] /\ t[longer[k]] <= t[longer[l]]
  <2>1. k \in 1..Len(list) /\ l - 1 \in 1..Len(list) /\ k <= l - 1
    BY <1>3, <1>10
  <2>2. CASE k \in before
    <3>1. longer[k] = list[k] /\ t[list[k]] <= t[c]
      BY <1>4, <1>6, <2>2
    <3>2. CASE l \in before
      <4>1. l \in 1..Len(list) /\ longer[l] = list[l]
        BY <1>4, <1>6, <3>2
      <4>2. QED
        BY <1>9, <1>10, <2>1, <3>1, <4>1
    <3>3. CASE l \notin before /\ l - 1 \in before \cup {0}
      BY <1>2, <1>3, <1>6, <2>1, <3>1, <3>3
    <3>4. CASE l \notin before /\ l - 1 \notin before \cup {0}
      <4>1. longer[l] = list[l - 1] /\ k < l - 1
        BY <1>6, <1>10, <2>1, <2>2, <3>4
      <4>2. QED
        BY <1>9, <2>1, <3>1, <4>1
    <3>5. QED
      BY <3>2, <3>3, <3>4
  <2>3. CASE k \notin before
    <3>1. l \notin before /\ l - 1 \notin before \cup {0}
      BY <1>4, <1>10, <2>1, <2>3
    <3>2. longer[l] = list[l - 1]
      BY <1>6, <3>1
    <3>3. CASE k - 1 \in before \cup {0}
      <4>1. longer[k] = c /\ t[c] < t[list[k]]
        BY <1>5, <1>6, <2>1, <2>3, <3>3
      <4>2. t[list[k]] <= t[list[l - 1]]
        BY <1>3, <1>9, <2>1
      <4>3. QED
        BY <1>2, <1>3, <2>1, <3>2, <4>1, <4>2
    <3>4. CASE k - 1 \notin before \cup {0}
      <4>1. longer[k] = list[k - 1] /\ k - 1 \in 1..Len(list) /\ k - 1 < l - 1
        BY <1>6, <1>10, <2>1, <2>3, <3>4
      <4>2. QED
        BY <1>9, <2>1, <3>2, <4>1
    <3>5. QED
      BY <3>3, <3>4
  <2>4. QED
    BY <2>2, <2>3
<1>11. InOrder(longer, t)
  BY <1>7, <1>10 DEF InOrder
<1>12. ASSUME NEW i \in 1..Len(list) PROVE \E k \in 1..(Len(list) + 1) : longer[k] = list[i]
  <2>1. CASE i \in before
    BY <1>3, <1>6, <2>1
  <2>2. CASE i \notin before
    <3> DEFINE k == i + 1
    <3>1. k \in 1..(Len(list) + 1) /\ k - 1 = i /\ k - 1 \notin before \cup {0} /\ k \notin before
      BY <1>3, <1>4, <2>2
    <3> HIDE DEF k
    <3>2. QED
      BY <1>6, <3>1
  <2>3. QED
    BY <2>1, <2>2
<1>13. \E k \in 1..(Len(list) + 1) : longer[k] = c
  <2> DEFINE other == {k \in 1..(Len(list) + 1) : k \notin before}
             R == OpToRel(<, Nat)
  <2>1. other \subseteq Nat /\ Len(list) + 1 \in other
    BY <1>3, <1>4
  <2>2. IsWellFoundedOn(R, Nat)
    BY NatLessThanWellFounded, Zenon
  <2> HIDE DEF R, other
  <2>3. PICK k \in other : \A i \in other : ~(<<i, k>> \in R)
    BY <2>1, <2>2, WFMin
  <2>4. \A i \in other : ~(i < k)
    BY <2>1, <2>3 DEF R, OpToRel
  <2>5. k \in 1..(Len(list) + 1) /\ k \notin before /\ k - 1 \in before \cup {0}
    <3>1. k = 1 \/ k - 1 \in 1..(Len(list) + 1)
      BY <1>3 DEF other
    <3>2. k - 1 \in 1..(Len(list) + 1) => k - 1 \in before
      BY <1>3, <2>4 DEF other
    <3>3. k = 1 => k - 1 = 0
      OBVIOUS
    <3>4. QED
      BY <3>1, <3>2, <3>3 DEF other
  <2>6. QED
    BY <1>6, <2>5
<1>14. ASSUME NEW d PROVE d \in Queue!Range(longer) <=> d = c \/ d \in Queue!Range(list)
  <2>1. \A k \in 1..(Len(list) + 1) : longer[k] = c \/ \E i \in 1..Len(list) : longer[k] = list[i]
    BY <1>6
  <2>2. /\ d \in Queue!Range(longer) <=> \E k \in 1..(Len(list) + 1) : longer[k] = d
        /\ d \in Queue!Range(list) <=> \E k \in 1..Len(list) : list[k] = d
    BY <1>3, <1>7, OnList
  <2>3. d \in Queue!Range(list) => d \in Queue!Range(longer)
    BY <1>12, <2>2
  <2>4. d \in Queue!Range(longer) => d = c \/ d \in Queue!Range(list)
    BY <2>1, <2>2
  <2>5. d = c => d \in Queue!Range(longer)
    BY <1>13, <2>2
  <2>6. QED
    BY <2>3, <2>4, <2>5
<1>15. QED
  BY <1>8, <1>11, <1>14 DEF longer

\* Remove keeps the order, and takes out the one command.
LEMMA Removed ==
    ASSUME NEW list \in Seq(Commands), NEW t \in [Commands -> Nat], NEW c, InOrder(list, t)
    PROVE  /\ Queue!Without(list, c) \in Seq(Commands) /\ InOrder(Queue!Without(list, c), t)
           /\ \A d : d \in Queue!Range(Queue!Without(list, c)) <=>
                         d # c /\ d \in Queue!Range(list)
<1> DEFINE before == {k \in DOMAIN list : \A j \in 1..k : list[j] # c}
           shorter == Queue!Without(list, c)
<1>1. /\ Len(list) \in Nat /\ DOMAIN list = 1..Len(list)
      /\ \A i \in 1..Len(list) : list[i] \in Commands
  BY Places
<1>2. CASE c \notin Queue!Range(list)
  BY <1>2 DEF Queue!Without
<1>3. CASE c \in Queue!Range(list)
  <2>1. PICK slot \in 1..Len(list) : list[slot] = c
    BY <1>1, <1>3 DEF Queue!Range
  <2>2. \A i, j \in 1..Len(list) : i < j => list[i] # list[j] /\ t[list[i]] <= t[list[j]]
    BY <1>1 DEF InOrder
  <2>3. \A i \in 1..Len(list) : list[i] = c <=> i = slot
    BY <2>1, <2>2
  <2>4. \A k \in 1..Len(list) : k \in before <=> k < slot
    BY <1>1, <2>1, <2>3
  <2>5. shorter = [k \in 1..(Len(list) - 1) |-> IF k \in before THEN list[k] ELSE list[k + 1]]
    BY <1>3 DEF Queue!Without
  <2> HIDE DEF before, shorter
  <2>6. \A k \in 1..(Len(list) - 1) : shorter[k] = IF k < slot THEN list[k] ELSE list[k + 1]
    BY <1>1, <2>4, <2>5
  <2>7. DOMAIN shorter = 1..(Len(list) - 1)
    BY <2>5
  <2>8. shorter \in Seq(Commands)
    <3>1. \A k \in 1..(Len(list) - 1) : shorter[k] \in Commands
      BY <1>1, <2>6
    <3>2. Len(list) - 1 \in Nat
      BY <1>1, <2>1
    <3>3. QED
      BY <2>5, <3>1, <3>2
  <2>9. InOrder(shorter, t)
    <3>1. ASSUME NEW k \in 1..(Len(list) - 1), NEW l \in 1..(Len(list) - 1), k < l
          PROVE  shorter[k] # shorter[l] /\ t[shorter[k]] <= t[shorter[l]]
      <4>1. PICK i, j \in 1..Len(list) : i < j /\ shorter[k] = list[i] /\ shorter[l] = list[j]
        <5>1. k \in 1..Len(list) /\ k + 1 \in 1..Len(list) /\ l \in 1..Len(list)
              /\ l + 1 \in 1..Len(list) /\ k < l + 1 /\ k + 1 < l + 1
          BY <1>1, <3>1
        <5>2. QED
          BY <2>6, <3>1, <5>1
      <4>2. QED
        BY <2>2, <4>1
    <3>2. QED
      BY <2>7, <3>1 DEF InOrder
  <2>10. ASSUME NEW i \in 1..Len(list), list[i] # c
         PROVE  \E k \in 1..(Len(list) - 1) : shorter[k] = list[i]
    <3>1. CASE i < slot
      BY <1>1, <2>1, <2>6, <3>1
    <3>2. CASE slot < i
      <4> DEFINE k == i - 1
      <4>1. k \in 1..(Len(list) - 1) /\ ~(k < slot) /\ k + 1 = i
        BY <1>1, <2>1, <3>2
      <4> HIDE DEF k
      <4>2. QED
        BY <2>6, <4>1
    <3>3. i # slot
      BY <2>1, <2>10
    <3>4. QED
      BY <2>1, <3>1, <3>2, <3>3
  <2>11. ASSUME NEW k \in 1..(Len(list) - 1)
         PROVE  shorter[k] # c /\ \E i \in 1..Len(list) : shorter[k] = list[i]
    <3>1. k \in 1..Len(list) /\ k + 1 \in 1..Len(list) /\ (k < slot \/ slot < k + 1)
      BY <1>1, <2>1
    <3>2. QED
      BY <2>3, <2>6, <3>1
  <2>12. ASSUME NEW d PROVE d \in Queue!Range(shorter) <=> d # c /\ d \in Queue!Range(list)
    <3>1. /\ d \in Queue!Range(shorter) <=> \E k \in 1..(Len(list) - 1) : shorter[k] = d
          /\ d \in Queue!Range(list) <=> \E k \in 1..Len(list) : list[k] = d
      BY <1>1, <2>7, OnList
    <3>2. QED
      BY <2>10, <2>11, <3>1
  <2>13. QED
    BY <2>8, <2>9, <2>12 DEF shorter
<1>4. QED
  BY <1>2, <1>3

\* The time that the clock is to be asked for.
LEMMA DueTyped ==
    ASSUME m_time' \in [Commands -> Nat], m_listPresentation' \in Seq(Commands),
           m_listStream' \in Seq(Commands), m_StreamTimeOffset' \in Nat
    PROVE  Due' \in Nat
  BY DEF Due, Queue!Earliest, Queue!PresentationDue, Queue!StreamDue

\* The clock is asked for the earliest command, also another one.
LEMMA Asked ==
    ASSUME QueueTypes, Advised, QueueTypes', NEW lastAsked, NEW old,
           Queue!Advise(m_pClock', Due', lastAsked, old),
           \/ lastAsked = pending /\ old = lost /\ now' = now
           \/ lastAsked = 0 /\ old = TRUE
    PROVE  Advised'
<1>1. Due' \in Nat
  BY DueTyped DEF QueueTypes
<1>2. /\ m_tCurrentAdvise \in Nat /\ pending \in Nat /\ now \in Nat
      /\ m_tCurrentAdvise' \in Nat /\ pending' \in Nat /\ now' \in Nat
  BY DEF QueueTypes
<1>3. CASE m_pClock' /\ Due' # 0 /\ Due' # m_tCurrentAdvise
  BY <1>1, <1>2, <1>3 DEF Advised, Queue!Advise
<1>4. CASE ~(m_pClock' /\ Due' # 0 /\ Due' # m_tCurrentAdvise)
  BY <1>1, <1>2, <1>4 DEF Advised, Queue!Advise
<1>5. QED
  BY <1>3, <1>4

LEMMA AdviseAsks ==
    ASSUME QueueTypes, Advised, QueueTypes', now' = now, Queue!SetTimeAdvise
    PROVE  Advised'
  BY Asked DEF Queue!SetTimeAdvise, Queue!DueThen, Due

\* Advising changes nothing else.
LEMMA AskedTypes ==
    ASSUME QueueTypes, m_time' \in [Commands -> Nat], m_listPresentation' \in Seq(Commands),
           m_listStream' \in Seq(Commands), m_StreamTimeOffset' \in Nat, now' \in Nat,
           NEW lastAsked \in Nat, NEW old, Queue!Advise(m_pClock', Due', lastAsked, old)
    PROVE  m_tCurrentAdvise' \in Nat /\ pending' \in Nat
  BY DueTyped DEF QueueTypes, Queue!Advise

LEMMA AdviseTypes ==
    ASSUME QueueTypes, m_time' \in [Commands -> Nat], m_listPresentation' \in Seq(Commands),
           m_listStream' \in Seq(Commands), m_StreamTimeOffset' \in Nat, now' = now,
           Queue!SetTimeAdvise
    PROVE  m_tCurrentAdvise' \in Nat /\ pending' \in Nat
<1>1. Queue!Advise(m_pClock', Due', pending, lost) /\ pending \in Nat /\ now' \in Nat
  BY DEF QueueTypes, Queue!SetTimeAdvise, Queue!DueThen, Due
<1>2. QED
  BY <1>1, AskedTypes

\* A new time of a command that is not on a list leaves the list in order.
LEMMA Retimed ==
    ASSUME NEW list \in Seq(Commands), NEW t \in [Commands -> Nat], InOrder(list, t),
           NEW c, c \notin Queue!Range(list), NEW time, NEW u, u = [t EXCEPT ![c] = time]
    PROVE  InOrder(list, u)
<1>1. \A i \in DOMAIN list : list[i] \in Commands /\ list[i] # c
  BY DEF Queue!Range
<1>2. \A i \in DOMAIN list : u[list[i]] = t[list[i]]
  BY <1>1
<1>3. QED
  BY <1>2 DEF InOrder

\* A command is put on the list of its kind.
LEMMA Put ==
    ASSUME NEW p \in Seq(Commands), NEW s \in Seq(Commands), NEW c \in Commands,
           m_time' \in [Commands -> Nat], InOrder(p, m_time'), InOrder(s, m_time'),
           c \notin Queue!Range(p), c \notin Queue!Range(s), Queue!Insert(c, p, s),
           \A d \in Queue!Range(p) : ~m_bStream[d], \A d \in Queue!Range(s) : m_bStream[d]
    PROVE  /\ m_listPresentation' \in Seq(Commands) /\ m_listStream' \in Seq(Commands)
           /\ InOrder(m_listPresentation, m_time)' /\ InOrder(m_listStream, m_time)'
           /\ \A d : Queue!Queued(d)' <=> d = c \/ d \in Queue!Range(p) \/ d \in Queue!Range(s)
           /\ \A d \in Queue!Range(m_listPresentation') : ~m_bStream[d]
           /\ \A d \in Queue!Range(m_listStream') : m_bStream[d]
<1>1. ASSUME NEW list \in Seq(Commands), InOrder(list, m_time'), c \notin Queue!Range(list)
      PROVE  /\ Queue!AfterEquals(list, c) \in Seq(Commands)
             /\ InOrder(Queue!AfterEquals(list, c), m_time')
             /\ \A d : d \in Queue!Range(Queue!AfterEquals(list, c)) <=>
                           d = c \/ d \in Queue!Range(list)
  <2>1. Queue!AfterEquals(list, c) = Longer(list, m_time', c)
    BY DEF Queue!AfterEquals, Longer
  <2>2. QED
    BY <1>1, <2>1, Inserted
<1>2. CASE m_bStream[c]
  <2>1. m_listStream' = Queue!AfterEquals(s, c) /\ m_listPresentation' = p
    BY <1>2 DEF Queue!Insert
  <2>2. QED
    BY <1>1, <1>2, <2>1 DEF Queue!Queued
<1>3. CASE ~m_bStream[c]
  <2>1. m_listPresentation' = Queue!AfterEquals(p, c) /\ m_listStream' = s
    BY <1>3 DEF Queue!Insert
  <2>2. QED
    BY <1>1, <1>3, <2>1 DEF Queue!Queued
<1>4. QED
  BY <1>2, <1>3

\* New: a command comes onto the queue.
LEMMA NewStep ==
    ASSUME QueueInv, NEW c \in Commands, Queue!New(c) PROVE QueueInv'
<1> USE DEF QueueInv
<1>1. /\ m_pQueue[c] = "new" /\ m_pQueue' = [m_pQueue EXCEPT ![c] = "set"]
      /\ Queue!Insert(c, m_listPresentation, m_listStream) /\ Queue!SetTimeAdvise
      /\ UNCHANGED <<m_bStream, postponed, m_StreamTimeOffset, now, pcWorker, pCmd>>
  BY DEF Queue!New, Queue!NothingElse, Queue!worker
<1>2. PICK time \in Nat : m_time' = [m_time EXCEPT ![c] = time]
  <2>1. PICK time \in Queue!Times : m_time' = [m_time EXCEPT ![c] = time]
    BY DEF Queue!New
  <2>2. time \in Nat
    BY QueueAssumption DEF Queue!Times
  <2>3. QED
    BY <2>1, <2>2
<1>3. m_time' \in [Commands -> Nat]
  BY <1>2 DEF QueueTypes
<1>4. ~Queue!Queued(c)
  BY <1>1 DEF Queues
<1>5. InOrder(m_listPresentation, m_time') /\ InOrder(m_listStream, m_time')
  BY <1>2, <1>4, Retimed DEF QueueTypes, Queues, Queue!Queued
<1>6. /\ m_listPresentation' \in Seq(Commands) /\ m_listStream' \in Seq(Commands)
      /\ InOrder(m_listPresentation, m_time)' /\ InOrder(m_listStream, m_time)'
      /\ \A d : Queue!Queued(d)' <=> d = c \/ Queue!Queued(d)
      /\ \A d \in Queue!Range(m_listPresentation') : ~m_bStream[d]
      /\ \A d \in Queue!Range(m_listStream') : m_bStream[d]
  BY <1>1, <1>3, <1>4, <1>5, Put DEF QueueTypes, Queues, Queue!Queued
<1>7. QueueTypes'
  BY <1>1, <1>3, <1>6, AdviseTypes DEF QueueTypes
<1>8. Queues'
  BY <1>1, <1>6 DEF QueueTypes, Queues
<1>9. QED
  BY <1>1, <1>7, <1>8, AdviseAsks

\* Postpone takes it off the queue,
LEMMA PostponeStep ==
    ASSUME QueueInv, NEW c \in Commands, Queue!Postpone(c) PROVE QueueInv'
<1> USE DEF QueueInv
<1> DEFINE p == Queue!Without(m_listPresentation, c)
           s == Queue!Without(m_listStream, c)
<1>1. /\ m_pQueue[c] = "set" /\ Queue!Queued(c) /\ postponed' = postponed \cup {c}
      /\ m_listPresentation' = p /\ m_listStream' = s /\ Queue!SetTimeAdvise
      /\ UNCHANGED <<m_bStream, m_pQueue, m_StreamTimeOffset, now, pcWorker, pCmd>>
  BY DEF Queue!Postpone, Queue!Remove, Queue!NothingElse, Queue!worker
<1>2. PICK time \in Nat : m_time' = [m_time EXCEPT ![c] = time]
  <2>1. PICK time \in Queue!Times : m_time' = [m_time EXCEPT ![c] = time]
    BY DEF Queue!Postpone
  <2>2. time \in Nat
    BY QueueAssumption DEF Queue!Times
  <2>3. QED
    BY <2>1, <2>2
<1>3. m_time' \in [Commands -> Nat]
  BY <1>2 DEF QueueTypes
<1>4. /\ p \in Seq(Commands) /\ InOrder(p, m_time)
      /\ \A d : d \in Queue!Range(p) <=> d # c /\ d \in Queue!Range(m_listPresentation)
  BY Removed DEF QueueTypes, Queues
<1>5. /\ s \in Seq(Commands) /\ InOrder(s, m_time)
      /\ \A d : d \in Queue!Range(s) <=> d # c /\ d \in Queue!Range(m_listStream)
  BY Removed DEF QueueTypes, Queues
<1> HIDE DEF p, s
<1>6. InOrder(p, m_time') /\ InOrder(s, m_time')
  BY <1>2, <1>4, <1>5, Retimed DEF QueueTypes
<1>7. \A d : Queue!Queued(d)' <=> d # c /\ Queue!Queued(d)
  BY <1>1, <1>4, <1>5 DEF Queue!Queued
<1>8. QueueTypes'
  BY <1>1, <1>3, <1>4, <1>5, AdviseTypes DEF QueueTypes
<1>9. Queues'
  BY <1>1, <1>4, <1>5, <1>6, <1>7 DEF Queues
<1>10. QED
  BY <1>1, <1>8, <1>9, AdviseAsks

\* and puts it back.
LEMMA RequeueStep ==
    ASSUME QueueInv, NEW c \in Commands, Queue!Requeue(c) PROVE QueueInv'
<1> USE DEF QueueInv
<1>1. /\ c \in postponed /\ m_pQueue[c] = "set" /\ postponed' = postponed \ {c}
      /\ Queue!Insert(c, m_listPresentation, m_listStream) /\ Queue!SetTimeAdvise
      /\ UNCHANGED <<m_bStream, m_time, m_pQueue, m_StreamTimeOffset, now, pcWorker, pCmd>>
  BY DEF Queue!Requeue, Queue!NothingElse, Queue!worker
<1>2. ~Queue!Queued(c)
  BY <1>1 DEF Queues
<1>3. m_time' \in [Commands -> Nat]
  BY <1>1 DEF QueueTypes
<1>4. InOrder(m_listPresentation, m_time') /\ InOrder(m_listStream, m_time')
  BY <1>1 DEF Queues
<1>5. /\ m_listPresentation' \in Seq(Commands) /\ m_listStream' \in Seq(Commands)
      /\ InOrder(m_listPresentation, m_time)' /\ InOrder(m_listStream, m_time)'
      /\ \A d : Queue!Queued(d)' <=> d = c \/ Queue!Queued(d)
      /\ \A d \in Queue!Range(m_listPresentation') : ~m_bStream[d]
      /\ \A d \in Queue!Range(m_listStream') : m_bStream[d]
  BY <1>1, <1>2, <1>3, <1>4, Put DEF QueueTypes, Queues, Queue!Queued
<1>6. QueueTypes'
  BY <1>1, <1>3, <1>5, AdviseTypes DEF QueueTypes
<1>7. Queues'
  BY <1>1, <1>5 DEF Queues
<1>8. QED
  BY <1>1, <1>6, <1>7, AdviseAsks

\* Cancel and Invoke: it leaves the queue,
LEMMA LeaveStep ==
    ASSUME QueueInv, NEW c \in Commands, m_pQueue[c] = "set",
           m_pQueue' = [m_pQueue EXCEPT ![c] = "NULL"], Queue!Remove(c), Queue!SetTimeAdvise,
           UNCHANGED <<m_bStream, m_time, postponed, m_StreamTimeOffset, now>>,
           pcWorker' = "invoke" => pCmd' \in Commands
    PROVE  QueueInv'
<1> USE DEF QueueInv
<1>1. /\ m_listPresentation' \in Seq(Commands) /\ InOrder(m_listPresentation, m_time)'
      /\ \A d : d \in Queue!Range(m_listPresentation') <=>
                    d # c /\ d \in Queue!Range(m_listPresentation)
  BY Removed DEF Queue!Remove, QueueTypes, Queues
<1>2. /\ m_listStream' \in Seq(Commands) /\ InOrder(m_listStream, m_time)'
      /\ \A d : d \in Queue!Range(m_listStream') <=> d # c /\ d \in Queue!Range(m_listStream)
  BY Removed DEF Queue!Remove, QueueTypes, Queues
<1>3. \A d : Queue!Queued(d)' <=> d # c /\ Queue!Queued(d)
  BY <1>1, <1>2 DEF Queue!Queued
<1>4. QueueTypes'
  BY <1>1, <1>2, AdviseTypes DEF QueueTypes
<1>5. Queues'
  BY <1>1, <1>2, <1>3 DEF QueueTypes, Queues
<1>6. QED
  BY <1>4, <1>5, AdviseAsks

\* also one that is being postponed.
LEMMA InvokePostponed ==
    ASSUME QueueInv, Queue!Invoke, ~Queue!Queued(pCmd) PROVE QueueInv'
<1> USE DEF QueueInv
<1>1. /\ m_pQueue' = [m_pQueue EXCEPT ![pCmd] = "NULL"] /\ pcWorker' = "out"
      /\ UNCHANGED <<m_bStream, m_time, postponed, m_pClock, m_bRunning, m_StreamTimeOffset,
                     m_tCurrentAdvise, pending, lost, now>>
  BY DEF Queue!Invoke, Queue!advise
<1>2. m_listPresentation' = m_listPresentation /\ m_listStream' = m_listStream
  BY DEF Queue!Invoke, Queue!Remove, Queue!Without, Queue!Queued
<1>3. QueueTypes'
  BY <1>1, <1>2 DEF QueueTypes
<1>4. \A d : Queue!Queued(d)' <=> Queue!Queued(d)
  BY <1>2 DEF Queue!Queued
<1>5. Queues'
  BY <1>1, <1>2, <1>4 DEF QueueTypes, Queues
<1>6. Advised'
  BY <1>1, <1>2 DEF Advised, Due, Queue!Earliest, Queue!PresentationDue, Queue!StreamDue
<1>7. QED
  BY <1>3, <1>5, <1>6

\* Run and EndRun: the clock is asked anew,
LEMMA AskedAnew ==
    ASSUME QueueInv, Queue!SetTimeAdvise, m_StreamTimeOffset' \in Nat,
           UNCHANGED <<m_bStream, m_time, m_pQueue, m_listPresentation, m_listStream,
                       postponed, now, pcWorker, pCmd>>
    PROVE  QueueInv'
<1> USE DEF QueueInv
<1>1. QueueTypes'
  BY AdviseTypes DEF QueueTypes
<1>2. Queues'
  BY DEF Queues, Queue!Queued
<1>3. QED
  BY <1>1, <1>2, AdviseAsks

\* and SetSyncSource: another one.
LEMMA AnotherAsked ==
    ASSUME QueueInv, NEW pClock \in BOOLEAN, Queue!SetSyncSource(pClock) PROVE QueueInv'
<1> USE DEF QueueInv
<1>1. /\ Queue!Advise(m_pClock', Due', 0, TRUE)
      /\ UNCHANGED <<m_bStream, m_time, m_pQueue, m_listPresentation, m_listStream,
                     postponed, m_StreamTimeOffset, pcWorker, pCmd>>
  BY DEF Queue!SetSyncSource, Queue!DueThen, Due, Queue!queue, Queue!worker
<1>2. now' \in Nat
  BY QueueAssumption DEF Queue!SetSyncSource, QueueTypes
<1>3. QueueTypes'
  BY <1>1, <1>2, AskedTypes DEF QueueTypes
<1>4. Queues'
  BY <1>1 DEF Queues, Queue!Queued
<1>5. QED
  BY <1>1, <1>3, <1>4, Asked

\* What GetDueCommand and GetCommandDueFor give out is a command.
LEMMA GivenOut ==
    ASSUME QueueInv, NEW list \in {m_listPresentation, m_listStream}, list # << >>
    PROVE  Head(list) \in Commands
  BY DEF QueueInv, QueueTypes

\* Whatever is called, and whenever the clock goes on, the queue stays as it should be.
LEMMA QueueStep == QueueInv /\ [Queue!Next]_Queuevars => QueueInv'
<1> SUFFICES ASSUME QueueInv, [Queue!Next]_Queuevars PROVE QueueInv'
  OBVIOUS
<1>1. ASSUME UNCHANGED <<m_bStream, m_time, m_pQueue, m_listPresentation, m_listStream,
                         postponed, m_pClock, m_bRunning, m_StreamTimeOffset, m_tCurrentAdvise, pending, lost,
                         now>>,
             pcWorker' = "invoke" => pCmd' \in Commands
      PROVE  QueueInv'
  <2>1. QueueTypes'
    BY <1>1 DEF QueueInv, QueueTypes
  <2>2. Queues'
    BY <1>1 DEF QueueInv, Queues, Queue!Queued
  <2>3. Due' = Due
    BY <1>1 DEF Due, Queue!Earliest, Queue!PresentationDue, Queue!StreamDue
  <2>4. Advised'
    BY <1>1, <2>3 DEF QueueInv, Advised
  <2>5. QED
    BY <2>1, <2>2, <2>4 DEF QueueInv
<1>2. CASE \E c \in Commands : Queue!Cancel(c)
  <2>1. PICK c \in Commands : Queue!Cancel(c)
    BY <1>2
  <2>2. pcWorker' = "invoke" => pCmd' \in Commands
    BY <2>1 DEF Queue!Cancel, Queue!NothingElse, Queue!worker, QueueInv, QueueTypes
  <2>3. QED
    BY <2>1, <2>2, LeaveStep DEF Queue!Cancel, Queue!NothingElse
<1>3. CASE Queue!Invoke
  <2>1. pCmd \in Commands
    BY <1>3 DEF Queue!Invoke, QueueInv, QueueTypes
  <2>2. CASE Queue!Queued(pCmd)
    BY <1>3, <2>1, <2>2, LeaveStep DEF Queue!Invoke
  <2>3. CASE ~Queue!Queued(pCmd)
    BY <1>3, <2>3, InvokePostponed
  <2>4. QED
    BY <2>2, <2>3
<1>4. CASE Queue!Run \/ Queue!EndRun
  <2>1. m_StreamTimeOffset' \in Nat
    BY <1>4 DEF Queue!Run, Queue!EndRun, QueueInv, QueueTypes
  <2>2. QED
    BY <1>4, <2>1, AskedAnew
       DEF Queue!Run, Queue!EndRun, Queue!queue, Queue!NothingElse, Queue!worker
<1>5. CASE Queue!Tick
  <2>1. /\ UNCHANGED <<m_bStream, m_time, m_pQueue, m_listPresentation, m_listStream,
                       postponed, m_pClock, m_bRunning, m_StreamTimeOffset, m_tCurrentAdvise, lost, pcWorker, pCmd>>
        /\ now' = now + 1
        /\ IF pending # 0 /\ pending <= now' THEN pending' = 0 ELSE pending' = pending
    BY <1>5 DEF Queue!Tick, Queue!queue, Queue!worker
  <2>2. QueueTypes'
    BY <2>1 DEF QueueInv, QueueTypes
  <2>3. Queues'
    BY <2>1 DEF QueueInv, Queues, Queue!Queued
  <2>4. Due' = Due /\ Due \in Nat
    BY <2>1 DEF Due, Queue!Earliest, Queue!PresentationDue, Queue!StreamDue, QueueInv, QueueTypes
  <2>5. m_tCurrentAdvise \in Nat /\ pending \in Nat /\ now \in Nat
    BY DEF QueueInv, QueueTypes
  <2>6. Advised'
    BY <2>1, <2>4, <2>5 DEF QueueInv, Advised
  <2>7. QED
    BY <2>2, <2>3, <2>6 DEF QueueInv
<1>6. CASE Queue!GetDueCommand
  <2>1. Queue!Next1 # Queue!NoCommand => Queue!Next1 \in Commands
    BY GivenOut DEF Queue!Next1, Queue!PresentationDue, Queue!StreamDue
  <2>2. pcWorker' = "invoke" => pCmd' \in Commands
    BY <1>6, <2>1 DEF Queue!GetDueCommand
  <2>3. QED
    BY <1>1, <1>6, <2>2 DEF Queue!GetDueCommand, Queue!UnchangedQueue, Queue!queue, Queue!advise
<1>7. CASE Queue!Wake \/ Queue!TimesOut \/ Queue!InvokeCancelled
  BY <1>1, <1>7
     DEF Queue!Wake, Queue!TimesOut, Queue!InvokeCancelled, Queue!UnchangedQueue, Queue!queue,
         Queue!advise
<1>8. CASE \E tStream \in Queue!Times : Queue!GetCommandDueFor(tStream)
  <2>1. PICK tStream : Queue!GetCommandDueFor(tStream)
    BY <1>8
  <2>2. pCmd' \in Commands
    BY <2>1, GivenOut DEF Queue!GetCommandDueFor
  <2>3. QED
    BY <1>1, <2>1, <2>2 DEF Queue!GetCommandDueFor, Queue!UnchangedQueue, Queue!queue, Queue!advise
<1>9. CASE UNCHANGED Queuevars
  BY <1>1, <1>9 DEF Queuevars, QueueInv, QueueTypes
<1>10. QED
  BY <1>2, <1>3, <1>4, <1>5, <1>6, <1>7, <1>8, <1>9, NewStep, PostponeStep,
     RequeueStep, AnotherAsked DEF Queue!Next

\* Ordered lists, and the earliest of the commands pending while it is not due.
LEMMA QueueSafe == QueueInv => Queue!EarliestIsAdvised
<1> SUFFICES ASSUME QueueInv PROVE Queue!EarliestIsAdvised
  OBVIOUS
<1>1. Queue!Ordered(m_listPresentation) /\ Queue!Ordered(m_listStream)
  BY DEF QueueInv, Queues, InOrder, Queue!Ordered
<1>2. \A c \in Commands : Queue!Queued(c) <=> m_pQueue[c] = "set" /\ c \notin postponed
  BY DEF QueueInv, Queues
<1>3. m_pClock /\ Due > now => pending = Due \/ (lost /\ m_tCurrentAdvise = Due)
  BY DEF QueueInv, Advised
<1>4. QED
  BY <1>1, <1>2, <1>3 DEF Queue!EarliestIsAdvised, Due
-----------------------------------------------------------------------------
\* The parts together.

\* All parts, those that take no steps among them.
RenderingInv ==
    /\ SeekingInv /\ SampleInv /\ ImageInv /\ WindowInv /\ QualityInv /\ VideoInv
    /\ DisplayInv /\ QueueInv

\* A step is one of a part, and the others stay as they are.
LEMMA PartSteps ==
    [MCNext]_<<part, components>> =>
        /\ [Seeking!Next]_Seekingvars /\ [Sample!Next]_Samplevars /\ [Image!Next]_Imagevars
        /\ [Window!Next]_Windowvars /\ [Quality!Next]_Qualityvars /\ [Video!Next]_Videovars
        /\ [Display!Next]_Displayvars /\ [Queue!Next]_Queuevars
  BY DEF MCNext, components

\* At the beginning,
LEMMA RenderingInit == MCInit => RenderingInv
  BY SeekingInit, SampleInit, ImageInit, WindowInit, QualityInit, VideoInit, DisplayInit,
     QueueInit DEF MCInit, RenderingInv

\* after any step,
LEMMA RenderingStep == RenderingInv /\ [MCNext]_<<part, components>> => RenderingInv'
  BY PartSteps, SeekingStep, SampleStep, ImageStep, WindowStep, QualityStep, VideoStep,
     DisplayStep, QueueStep DEF RenderingInv

\* and so always.
LEMMA RenderingInvariance == MCSpec => []RenderingInv
  BY RenderingInit, RenderingStep, PTL DEF MCSpec

\* Whatever callers seek, connect and disconnect at once, a filter that a seek has
\* referenced lives until the call has returned, and one that it is about to reference is
\* there unless it was disconnected in between (ctlutil.cpp lines 511 to 556, amfilter.cpp
\* lines 2188 to 2208); a sample that two release at once
\* is given back by one of them (amfilter.cpp lines 3373 to 3400); the bitmaps and
\* mappings of an image allocator are those of its buffers, also when making one fails,
\* and no palette is deleted that the window or its device context has (winutil.cpp lines
\* 1560 to 1688 and 1977 to 2004).
THEOREM TakenIsReleasedOnce == MCSpec => []ReleasedOnce
<1>1. RenderingInv => ReleasedOnce
  <2> SUFFICES ASSUME RenderingInv PROVE ReleasedOnce
    OBVIOUS
  <2>1. Seeking!PeerLives
    BY SeekingSafe DEF RenderingInv
  <2>2. Sample!ReleasedOnce
    BY SampleSafe DEF RenderingInv
  <2>3. Image!DIBsAccounted /\ Image!PaletteInUse
    BY ImageSafe DEF RenderingInv
  <2>4. QED
    BY <2>1, <2>2, <2>3 DEF ReleasedOnce
<1>2. QED
  BY <1>1, RenderingInvariance, PTL

\* The window is where it was asked to be, in the coordinates it was asked in, unless a
\* caller placed it from a rectangle that had become old (winctrl.cpp); the source's worker goes by the times that are stored, or a caller is
\* about to tell it, and the position that is reported is that of a sample (ctlutil.cpp);
\* commands are in the order of their times, and while the earliest is not due the clock
\* has been asked for its time, whatever is queued, postponed, cancelled, run or stopped in
\* between, for any times, and whenever the clock is replaced or taken away, unless the
\* clock before it had been asked for the same time (ctlutil.cpp lines 2226 to 2385);
\* what is asked of the source is within the range of a proportion, and the averages and
\* deviations can be computed and are within that of their frames (renbase.cpp lines 2240
\* to 2560): the sums satisfy the inequality of Cauchy and Schwarz.
THEOREM SettingsAreFollowed == MCSpec => []SettingsFollowed
<1>1. RenderingInv => SettingsFollowed
  <2> SUFFICES ASSUME RenderingInv PROVE SettingsFollowed
    OBVIOUS
  <2>1. Window!WindowAsAsked
    BY DEF RenderingInv, WindowInv
  <2>2. Seeking!WorkerFollows /\ Seeking!PositionOfSample
    BY SeekingSafe DEF RenderingInv
  <2>3. Quality!QualityInRange
    BY QualitySafe DEF RenderingInv
  <2>4. QED
    BY <2>1, <2>2, <2>3, QueueSafe DEF RenderingInv, SettingsFollowed
<1>2. QED
  BY <1>1, RenderingInvariance, PTL

\* A type is accepted only if a mode there was during the check shows it, stays valid when
\* it is made explicit and has the leading bits of a byte for masks (winutil.cpp lines 2144
\* to 2666); buffers are drawn with the colours of the format, the same in either way of
\* drawing (lines 1023 to 1207); a copied image is the source rectangle of the video, byte
\* by byte, and never from outside of it, or nothing where pixels are smaller than a byte
\* (winctrl.cpp lines 1960 to 2070); a sample that is
\* copied says what its original said (transfrm.cpp, transip.cpp).
THEOREM ImagesAreRight == MCSpec => []ImagesRight
<1>1. RenderingInv => ImagesRight
  <2> SUFFICES ASSUME RenderingInv PROVE ImagesRight
    OBVIOUS
  <2>1. Display!AcceptedIsShown /\ Display!ExplicitIsValid /\ Display!MasksAreLeading
    BY DisplaySafe DEF RenderingInv
  <2>2. Image!ColoursCurrent /\ Image!DrawnAlike
    BY ImageSafe DEF RenderingInv
  <2>3. Video!ImageOfSource /\ Video!EntriesOfPalette
    BY VideoSafe DEF RenderingInv
  <2>4. Sample!SamplesClean /\ Sample!OutputSaysTheSame
    BY SampleSafe DEF RenderingInv
  <2>5. QED
    BY <2>1, <2>2, <2>3, <2>4 DEF ImagesRight
<1>2. QED
  BY <1>1, RenderingInvariance, PTL
=============================================================================
