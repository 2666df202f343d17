---------------------------- MODULE MediaSample ----------------------------
(***************************************************************************)
(* CMediaSample (amfilter.cpp) on its way through a transform filter: the  *)
(* filter upstream fills in a sample's properties and delivers it; the     *)
(* input pin reads them (CBaseInputPin::Receive), and the filter sets up   *)
(* its output sample from them: as a copy (CTransInPlaceFilter::Copy) or   *)
(* with the same times (CTransformFilter::InitializeOutputSample).  The    *)
(* renderer may keep the output sample and release it at the same time as  *)
(* the filter does.                                                        *)
(* There is one buffer on either side; each is used again and again.       *)
(***************************************************************************)
EXTENDS Integers

CONSTANTS
    Types,      \* media types
    InSize,     \* the size of the input buffer
    OutSizes    \* the sizes the output buffer may have

Null == "null"
Unset == -1
Sides == {"in", "out"}
Holders == {"filter", "renderer"}    \* of the output sample

VARIABLES
    inPlace,       \* the filter copies samples that it cannot pass on
    m_cbBuffer,    \* of the output sample
    sample,        \* flags, type, times, stream and length of either sample
    m_SampleProps, \* what the input pin read
    pc,            \* of the streaming thread
    m_cRef,        \* of the output sample
    holds,         \* who holds a reference on it
    releasing,     \* who is in Release, and what was read there
    freed          \* how often it is on the free list

thread == <<m_SampleProps, pc>>
refs == <<m_cRef, holds, releasing, freed>>
filter == <<inPlace, m_cbBuffer>>
vars == <<filter, sample, thread, refs>>

\* A sample as it comes from the constructor, but for its length, which is never
\* reset.
Blank(actual) ==
    [flags |-> {}, type |-> Null, start |-> 0, end |-> 0, media |-> 0,
     stream |-> "media", actual |-> actual]

Size(side) == IF side = "in" THEN InSize ELSE m_cbBuffer

Init ==
    /\ inPlace \in BOOLEAN /\ m_cbBuffer \in OutSizes
    /\ sample = [s \in Sides |-> Blank(Size(s))]
    /\ m_SampleProps = Blank(0)
    /\ pc = "fill"
    /\ m_cRef = 0 /\ holds = {} /\ freed = 1
    /\ releasing = [h \in Holders |-> Unset]

-----------------------------------------------------------------------------
\* The setters.
SetTime(s, start, end) ==
    IF start = Unset THEN [s EXCEPT !.flags = @ \ {"TimeValid", "StopValid"}]
    ELSE IF end = Unset
    THEN [s EXCEPT !.start = start, !.flags = (@ \cup {"TimeValid"}) \ {"StopValid"}]
    ELSE [s EXCEPT !.start = start, !.end = end, !.flags = @ \cup {"TimeValid", "StopValid"}]

SetMediaTime(s, t) ==
    IF t = Unset THEN [s EXCEPT !.flags = @ \ {"MediaTimeValid"}]
    ELSE [s EXCEPT !.media = t, !.flags = @ \cup {"MediaTimeValid"}]

SetMediaType(s, type) ==
    [s EXCEPT !.type = type,
              !.flags = IF type = Null THEN @ \ {"TypeChanged"} ELSE @ \cup {"TypeChanged"}]

SetDiscontinuity(s, on) ==
    [s EXCEPT !.flags = IF on THEN @ \cup {"Discontinuity"} ELSE @ \ {"Discontinuity"}]

\* SetActualDataLength refuses what the buffer has no room for.
LengthAccepted(side, length) == 0 <= length /\ length <= Size(side)

GetMediaTime(s) == IF "MediaTimeValid" \in s.flags THEN s.media ELSE Unset

GetTime(s) ==
    IF "StopValid" \in s.flags THEN <<s.start, s.end>>
    ELSE IF "TimeValid" \in s.flags THEN <<s.start, s.start + 1>>
    ELSE <<Unset, Unset>>

\* GetProperties: the media times are not among them.
GetProperties(s) ==
    [s EXCEPT !.flags = @ \ {"MediaTimeValid"}, !.media = 0,
              !.type = IF "TypeChanged" \in s.flags THEN @ ELSE Null]

\* Fault: the flag for the type is the one that is given.
SetUnfixed(s, p, withType) ==
    [s EXCEPT !.flags = p.flags \cup (@ \cap {"MediaTimeValid"}),
              !.actual = p.actual, !.start = p.start, !.end = p.end,
              !.stream = IF withType THEN p.stream ELSE @,
              !.type = IF withType /\ "TypeChanged" \in p.flags THEN p.type ELSE @]

\* SetProperties with the fields up to the times, or up to the media type: the flag
\* for the type is made to say whether there is one.
SetProperties(s, p, withType) ==
    LET type == IF withType /\ "TypeChanged" \in p.flags THEN p.type ELSE s.type
    IN  [s EXCEPT !.flags = ((p.flags \cup (@ \cap {"MediaTimeValid"})) \ {"TypeChanged"})
                                \cup (IF type = Null THEN {} ELSE {"TypeChanged"}),
                  !.actual = p.actual, !.start = p.start, !.end = p.end,
                  !.stream = IF withType THEN p.stream ELSE @,
                  !.type = type]

-----------------------------------------------------------------------------
\* The filter upstream fills in its sample; one that knows IMediaSample2 may name
\* another stream.
Fill ==
    /\ pc = "fill" /\ pc' = "filled"
    /\ \E start \in {Unset, 1}, end \in {Unset, 2}, media \in {Unset, 1},
          type \in Types \cup {Null}, on \in BOOLEAN, length \in 1..InSize,
          stream \in {"media", "other"} :
        LET timed == SetMediaTime(SetTime(sample["in"], start, end), media)
            told == SetDiscontinuity(SetMediaType(timed, type), on)
            long == [told EXCEPT !.actual = IF LengthAccepted("in", length) THEN length
                                            ELSE @]
        IN  sample' = [sample EXCEPT !["in"] =
                IF stream = "media" THEN long
                ELSE SetProperties(long, [GetProperties(long) EXCEPT !.stream = stream], TRUE)]
    /\ UNCHANGED <<filter, m_SampleProps, refs>>

\* CBaseInputPin::Receive reads the properties.  Samples of other streams are
\* passed on as they are.
Receive ==
    /\ pc = "filled"
    /\ m_SampleProps' = GetProperties(sample["in"])
    /\ pc' = IF sample["in"].stream = "media" THEN "received" ELSE "done"
    /\ UNCHANGED <<filter, sample, refs>>

\* GetBuffer: the allocator may put a new type on its buffer.
GetBuffer(type) ==
    /\ pc = "received" /\ freed = 1 /\ freed' = 0
    /\ m_cRef' = 1 /\ holds' = {"filter"}
    /\ pc' = "buffer"
    /\ sample' = [sample EXCEPT !["out"] = IF type = Null THEN @ ELSE SetMediaType(@, type)]
    /\ UNCHANGED <<filter, m_SampleProps, releasing>>

\* Fault: the length is taken with the other properties and not looked at again.
CopyUnchecked ==
    LET props == SetProperties(sample["out"], m_SampleProps, TRUE)
        time == GetMediaTime(sample["in"])
        out == IF time = Unset THEN props ELSE SetMediaTime(props, time)
    IN  /\ pc = "buffer" /\ inPlace /\ pc' = "copied"
        /\ sample' = [sample EXCEPT !["out"] = out]
        /\ UNCHANGED <<filter, m_SampleProps, refs>>

\* CTransInPlaceFilter::Copy.
Copy ==
    LET props == SetProperties(sample["out"], m_SampleProps, TRUE)
        time == GetMediaTime(sample["in"])
        out == IF time = Unset THEN props ELSE SetMediaTime(props, time)
    IN  /\ pc = "buffer" /\ inPlace
        /\ pc' = IF LengthAccepted("out", sample["in"].actual) THEN "copied" ELSE "delivered"
        /\ sample' = [sample EXCEPT !["out"] = out]
        /\ UNCHANGED <<filter, m_SampleProps, refs>>

\* CTransformFilter::InitializeOutputSample: the output sample keeps its type.
InitializeOutputSample ==
    LET own == GetProperties(sample["out"])
        props == [own EXCEPT !.flags = (@ \cap {"TypeChanged"})
                                 \cup (m_SampleProps.flags \ {"TypeChanged"}),
                             !.start = m_SampleProps.start, !.end = m_SampleProps.end]
    IN  /\ pc = "buffer" /\ ~inPlace /\ pc' = "initialised"
        /\ sample' = [sample EXCEPT !["out"] = SetProperties(@, props, FALSE)]
        /\ UNCHANGED <<filter, m_SampleProps, refs>>

\* The renderer may add a reference of its own; the transform may also fail, or
\* skip the sample.
Deliver(keeps) ==
    /\ pc \in {"copied", "initialised"} /\ pc' = "delivered"
    /\ IF keeps THEN m_cRef' = m_cRef + 1 /\ holds' = holds \cup {"renderer"}
       ELSE UNCHANGED <<m_cRef, holds>>
    /\ UNCHANGED <<filter, sample, m_SampleProps, releasing, freed>>

\* Release looks at the count first, and decrements it in a second step.
ReleaseBegins(h) ==
    /\ h \in holds /\ releasing[h] = Unset
    /\ h = "filter" => pc = "delivered"
    /\ releasing' = [releasing EXCEPT ![h] = m_cRef]
    /\ UNCHANGED <<filter, sample, thread, m_cRef, holds, freed>>

\* Fault: the flags of the last use stay.
RecycleUnreset(last, h) ==
    /\ freed' = IF last THEN freed + 1 ELSE freed
    /\ sample' = IF last
                 THEN [sample EXCEPT !["out"] = [SetMediaType(@, Null) EXCEPT
                                                    !.stream = "media"]]
                 ELSE sample
    /\ holds' = holds \ {h} /\ releasing' = [releasing EXCEPT ![h] = Unset]
    /\ pc' = IF h = "filter" THEN "done" ELSE pc
    /\ UNCHANGED <<filter, m_SampleProps>>

\* A sample that goes to the free list: without flags, type or stream.
Recycled(s) ==
    [s EXCEPT !.flags = {}, !.stream = "media",
              !.type = IF "TypeChanged" \in s.flags THEN Null ELSE @]

\* What the last reference does.
Recycle(last, h) ==
    /\ freed' = IF last THEN freed + 1 ELSE freed
    /\ sample' = IF last THEN [sample EXCEPT !["out"] = Recycled(@)] ELSE sample
    /\ holds' = holds \ {h} /\ releasing' = [releasing EXCEPT ![h] = Unset]
    /\ pc' = IF h = "filter" THEN "done" ELSE pc
    /\ UNCHANGED <<filter, m_SampleProps>>

\* Fault: the count that was read is decremented, without the interlock.
ReleaseRead(h) ==
    /\ releasing[h] # Unset
    /\ m_cRef' = releasing[h] - 1
    /\ Recycle(m_cRef' = 0, h)

ReleaseEnds(h) ==
    /\ releasing[h] # Unset
    /\ m_cRef' = IF releasing[h] = 1 THEN 0 ELSE m_cRef - 1
    /\ Recycle(m_cRef' = 0, h)

\* The filter upstream releases its sample, which is the only reference, and gets
\* the buffer again.
NextSample ==
    /\ pc = "done" /\ pc' = "fill"
    /\ sample' = [sample EXCEPT !["in"] = Blank(@.actual)]
    /\ m_SampleProps' = Blank(0)
    /\ UNCHANGED <<filter, refs>>

Next ==
    \/ Fill \/ Receive \/ \E type \in Types \cup {Null} : GetBuffer(type)
    \/ Copy \/ InitializeOutputSample \/ \E keeps \in BOOLEAN : Deliver(keeps)
    \/ \E h \in Holders : ReleaseBegins(h) \/ ReleaseEnds(h)
    \/ NextSample

Spec == Init /\ [][Next]_vars

-----------------------------------------------------------------------------
\* A sample is flagged as having a new type exactly when it has one, as GetMediaType
\* and Release assert, and one on the free list has nothing left of its last use
\* (amfilter.cpp lines 3368 to 3400, 3641 to 3699 and 3733 to 3862).
SamplesClean ==
    /\ \A s \in Sides : "TypeChanged" \in sample[s].flags <=> sample[s].type # Null
    /\ freed = 1 => /\ sample["out"].flags = {} /\ sample["out"].type = Null
                    /\ sample["out"].stream = "media"

\* The last of the two that hold a sample puts it on the free list, once, and not
\* before (amfilter.cpp lines 3351 to 3400).
ReleasedOnce ==
    /\ freed = IF holds = {} THEN 1 ELSE 0
    /\ \A h \in holds : releasing[h] = Unset => m_cRef > 0

\* What the renderer gets says of its sample what the filter upstream said of the
\* one it is made from: the times and the discontinuity, in a copy also the media
\* times and a new type; else its own type stays.  Its length is that of its data
\* and fits into its buffer (transip.cpp lines 481 to 576, transfrm.cpp lines 228
\* to 305).
OutputSaysTheSame ==
    LET in == sample["in"]
        out == sample["out"]
    IN  /\ pc \in {"copied", "initialised"} =>
            /\ GetTime(out) = GetTime(in)
            /\ "Discontinuity" \in out.flags <=> "Discontinuity" \in in.flags
            /\ LengthAccepted("out", out.actual)
        /\ pc = "copied" =>
            /\ GetMediaTime(out) = GetMediaTime(in) /\ out.actual = in.actual
            /\ in.type # Null => out.type = in.type
=============================================================================
