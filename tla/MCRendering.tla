---------------------------- MODULE MCRendering -----------------------------
(***************************************************************************)
(* Instances for TLC of what a renderer consists of besides its threads:   *)
(* seeking, its commands, its window and the controls of it, its images    *)
(* and their formats, its samples, its quality messages, and the lists the *)
(* base classes are built on. They share no state here, so "part" says     *)
(* which one takes the steps of a behaviour and the others stay at rest:   *)
(* every behaviour of each is explored, and none of their products.        *)
(***************************************************************************)
EXTENDS Integers, FiniteSets

CONSTANTS Callers, MaxPosition                    \* of seeking
CONSTANTS Commands, MaxTime                       \* of the command queue
CONSTANTS Axes, Extent, Origin, DWord                  \* of the window
CONSTANTS Videos, VideoCoordinates               \* of the video
CONSTANTS MaxNodes, CacheSize, Objects            \* of the lists
CONSTANTS InSize, OutSizes, Types                 \* of the samples
CONSTANTS Formats, MaxCount, MaxPalettes          \* of the image buffers
CONSTANTS Displays, Inputs                        \* of the display
CONSTANTS MaxFrames, MaxRuns, Elapsed, Lateness, Durations, DrawTimes,
          Proportions, LongMax                    \* of the quality management

ASSUME SeekingAssumption == IsFiniteSet(Callers) /\ MaxPosition \in Nat

ASSUME QueueAssumption == MaxTime \in Nat

ASSUME WindowAssumption ==
    Extent \in Nat /\ Origin \in [Axes -> Int] /\ DWord \in Nat \ {0}

ASSUME SampleAssumption == InSize \in Nat /\ OutSizes \subseteq Nat

ASSUME VideoAssumption ==
    /\ VideoCoordinates \subseteq Int
    /\ \A v \in Videos : v.width \in Nat \ {0} /\ v.height \in Nat \ {0}
                         /\ v.bits \in {1, 4, 8, 16, 24, 32}

ASSUME ImageAssumption ==
    MaxCount \in Nat /\ \A f \in Formats : f.height \in Int

\* A proportion is a ratio of rates; no frame is meant to last for half an hour, or is
\* weeks late.
ASSUME QualityAssumption ==
    /\ Elapsed \cup Lateness \cup Durations \cup DrawTimes \subseteq Int
    /\ Proportions \subseteq Nat
    /\ LongMax \in Nat /\ LongMax >= 1000000
    /\ \A late \in Lateness : late <= LongMax
    /\ \A duration \in Durations : 1000 * duration <= LongMax

MCVideos == { [width |-> 2, height |-> 2, bits |-> 8], [width |-> 3, height |-> 2, bits |-> 24],
              [width |-> 2, height |-> 3, bits |-> 16], [width |-> 3, height |-> 3, bits |-> 4] }

MCFormats == { [colours |-> "A", height |-> 2], [colours |-> "B", height |-> 2],
               [colours |-> "null", height |-> -2] }

Header(bits, used, important, size) ==
    [bits |-> bits, compression |-> "rgb", fields |-> <<{}, {}, {}>>, used |-> used,
     important |-> important, size |-> size, whole |-> TRUE]

WithFields(bits, fields) ==
    [Header(bits, 0, 0, 0) EXCEPT !.compression = "bitfields", !.fields = fields]

MCFields == { <<10..14, 5..9, 0..4>>, <<11..15, 5..10, 0..4>>,
              <<{10, 12}, 5..9, 0..4>>, <<0..8, 9..12, 13..15>> }

MCDisplays == { Header(bits, 0, 0, 0) : bits \in {8, 16, 24} } \cup
              { WithFields(16, <<11..15, 5..10, 0..4>>), WithFields(32, <<16..23, 8..15, 0..7>>) }

MCInputs == { Header(8, used, important, size) :
                  used \in {0, 3, 300}, important \in {0, 4}, size \in {0, 8, 16} } \cup
            { Header(bits, 0, important, 0) : bits \in {16, 24, 32}, important \in {0, 4} } \cup
            { WithFields(bits, fields) : bits \in {16, 24}, fields \in MCFields }

MCOrigin == [i \in Axes |-> 1]
MCVideoCoordinates == -1..3
MCLateness == {-30, 600}

VARIABLE part    \* the component that takes the steps

VARIABLES m_rtStart, m_rtStop, m_dRateSeeking, worker, sourceRefs, sourceLives,
          seekConnected, m_StartMedia, m_bReset, seekPc, hooks, pcEOS, llStop,
          reported, failed
Seeking == INSTANCE Seeking WITH connected <- seekConnected, pc <- seekPc
Seekingvars == <<m_rtStart, m_rtStop, m_dRateSeeking, worker, sourceRefs, sourceLives,
                 seekConnected, m_StartMedia, m_bReset, seekPc, hooks, pcEOS, llStop,
                 reported, failed>>

VARIABLES m_bStream, m_time, m_pQueue, m_listPresentation, m_listStream, postponed,
          m_pClock, m_bRunning, m_StreamTimeOffset, m_tCurrentAdvise, pending, m_evDue, now,
          pcWorker, pCmd, lost
Queue == INSTANCE CommandQueue
Queuevars == <<m_bStream, m_time, m_pQueue, m_listPresentation, m_listStream, postponed,
               m_pClock, m_bRunning, m_StreamTimeOffset, m_tCurrentAdvise, pending, m_evDue, now,
               pcWorker, pCmd, lost>>

VARIABLES windowConnected, place, m_hwndOwner, visible, m_bActivated, windowPc, rect, bVisible,
          wanted, asked, shown, overtaken, windowLost
Window == INSTANCE ControlWindow
    WITH connected <- windowConnected, pc <- windowPc,
         lost <- windowLost
Windowvars == <<windowConnected, place, m_hwndOwner, visible, m_bActivated, windowPc, rect,
                bVisible, wanted, asked, shown, overtaken, windowLost>>

VARIABLES videoConnected, video, source, target
Video == INSTANCE ControlVideo WITH connected <- videoConnected
Videovars == <<videoConnected, video, source, target>>

VARIABLES m_pNext, m_pPrev, m_pObject, m_pFirst, m_pLast, m_Count, m_pHead, m_iUsed
List == INSTANCE BaseList
Listvars == <<m_pNext, m_pPrev, m_pObject, m_pFirst, m_pLast, m_Count, m_pHead,
              m_iUsed>>

VARIABLES inPlace, m_cbBuffer, sample, m_SampleProps, samplePc, m_cRef, holds,
          releasing, freed
Sample == INSTANCE MediaSample WITH pc <- samplePc
Samplevars == <<inPlace, m_cbBuffer, sample, m_SampleProps, samplePc, m_cRef, holds,
                releasing, freed>>

VARIABLES m_mtIn, new, imagePc, m_hPalette, made, windowPalette, selected,
          m_PaletteVersion, m_lCount, m_lAllocated, m_lFree, m_bCommitted,
          m_bDecommitInProgress, DibData, allocating, bitmaps, mappings, left,
          m_SourceRect, m_TargetRect, m_bStretch
Image == INSTANCE DrawImage WITH pc <- imagePc
Imagevars == <<m_mtIn, new, imagePc, m_hPalette, made, windowPalette, selected,
               m_PaletteVersion, m_lCount, m_lAllocated, m_lFree, m_bCommitted,
               m_bDecommitInProgress, DibData, allocating, bitmaps, mappings, left,
               m_SourceRect, m_TargetRect, m_bStretch>>

VARIABLES m_Display, mode, pcWindow, input, displayPc, modes
Display == INSTANCE ImageDisplay WITH pc <- displayPc
Displayvars == <<m_Display, mode, pcWindow, input, displayPc, modes>>

\* Headers whose pixels have as many bits as those of a bitmap may have (CheckVideoType
\* does not look whether they do).
Headers == [bits : {1, 4, 8, 16, 24, 32}, compression : {"rgb", "bitfields", "other"},
            fields : [1..3 -> SUBSET (0..31)], used : Nat, important : Nat, size : Nat,
            whole : BOOLEAN]

\* Of the display: bit fields are those of 16 or of 32 bits, and a valid type that has the
\* masks of a mode of fewer bits has those of the modes of its own bits as well, as 24
\* and 32 bits of RGB have.
ASSUME DisplayAssumption ==
    /\ Displays \cup Inputs \subseteq Headers
    /\ \A d \in Displays : d.compression = "bitfields" => d.bits \in {16, 32}
    /\ \A d, e \in Displays, h \in Inputs :
          /\ Display!CheckHeaderValidity(h) /\ d.bits = h.bits /\ e.bits < h.bits
          /\ Display!GetBitMasks(e) = Display!GetBitMasks(h)
          => Display!GetBitMasks(d) = Display!GetBitMasks(h)

\* Of no constant: the sizes of palettes, for the proofs (TLC computes them).
ASSUME PaletteSizes == \A n \in {1, 4, 8} : 2 ^ n \in Nat \ {0}

VARIABLES sinceLastDraw, m_trFrameAvg, m_trDuration, m_trWaitAvg, m_trEarliness,
          m_nNormal, m_trRenderAvg, m_trRenderLast, m_trThrottle, m_trLate, m_trFrame,
          m_cFramesDrawn, m_cFramesDropped, m_iTotAcc, m_iSumSqAcc, m_iSumFrameTime,
          m_iSumSqFrameTime, proportion, qualityPc, runs
Quality == INSTANCE VideoQuality WITH pc <- qualityPc
Qualityvars == <<sinceLastDraw, m_trFrameAvg, m_trDuration, m_trWaitAvg, m_trEarliness,
                 m_nNormal, m_trRenderAvg, m_trRenderLast, m_trThrottle, m_trLate,
                 m_trFrame, m_cFramesDrawn, m_cFramesDropped, m_iTotAcc, m_iSumSqAcc,
                 m_iSumFrameTime, m_iSumSqFrameTime, proportion, qualityPc, runs>>

components == <<Seekingvars, Queuevars, Windowvars, Videovars, Listvars, Samplevars,
                Imagevars, Displayvars, Qualityvars>>

Parts == {"Seeking", "Queue", "Window", "Video", "List", "Sample", "Image", "Display",
          "Quality"}

\* A part that takes no steps has one initial state, and nothing is asked of it.
MCInit ==
    /\ part \in Parts
    /\ Seeking!Init
    /\ Queue!Init
    /\ part = "Queue" \/ m_bStream = [c \in Commands |-> FALSE]
    /\ Window!Init
    /\ Video!Init
    /\ part = "Video" \/ video.bits = 8
    /\ List!Init
    /\ Sample!Init
    /\ part = "Sample" \/ (inPlace /\ m_cbBuffer = 1)
    /\ Image!Init
    /\ Display!Init
    /\ part = "Display" \/ mode.bits = 8
    /\ Quality!Init

MCNext ==
    /\ UNCHANGED part
    /\ IF part = "Seeking" THEN Seeking!Next ELSE UNCHANGED Seekingvars
    /\ IF part = "Queue" THEN Queue!Next ELSE UNCHANGED Queuevars
    /\ IF part = "Window" THEN Window!Next ELSE UNCHANGED Windowvars
    /\ IF part = "Video" THEN Video!Next ELSE UNCHANGED Videovars
    /\ IF part = "List" THEN List!Next ELSE UNCHANGED Listvars
    /\ IF part = "Sample" THEN Sample!Next ELSE UNCHANGED Samplevars
    /\ IF part = "Image" THEN Image!Next ELSE UNCHANGED Imagevars
    /\ IF part = "Display" THEN Display!Next ELSE UNCHANGED Displayvars
    /\ IF part = "Quality" THEN Quality!Next ELSE UNCHANGED Qualityvars

MCSpec == MCInit /\ [][MCNext]_<<part, components>>
-----------------------------------------------------------------------------
\* An image comes out as it came in: of a format the display has, with the colours
\* and the parts of it that were asked for, alike by either way of drawing
\* (winutil.cpp lines 1023 to 1207 and 2144 to 2666, winctrl.cpp lines 1960 to 2070);
\* and a copy of its sample says what the sample said (transfrm.cpp, transip.cpp).
ImagesRight ==
    CASE part = "Display" ->
             Display!AcceptedIsShown /\ Display!ExplicitIsValid /\ Display!MasksAreLeading
      [] part = "Image" -> Image!ColoursCurrent /\ Image!DrawnAlike
      [] part = "Video" -> Video!ImageOfSource /\ Video!EntriesOfPalette
      [] part = "Sample" -> Sample!SamplesClean /\ Sample!OutputSaysTheSame
      [] OTHER -> TRUE

\* What is taken is given back once: the reference on the filter that a seek calls
\* (ctlutil.cpp lines 537 to 556), a sample, by its last Release (amfilter.cpp lines 3373 to
\* 3400), the bitmaps and mappings of an image allocator, and the palette of a
\* window, which is not deleted while it is in use (winutil.cpp lines 1560 to 1688
\* and 1977 to 2004).
ReleasedOnce ==
    CASE part = "Seeking" -> Seeking!PeerLives
      [] part = "Sample" -> Sample!ReleasedOnce
      [] part = "Image" -> Image!DIBsAccounted /\ Image!PaletteInUse
      [] OTHER -> TRUE

\* What the application has set holds: where the window is (winctrl.cpp), the
\* positions the source's worker goes by and those that are reported (ctlutil.cpp);
\* the commands of a queue are in the order of their times, and the clock is asked for
\* the first, also when it is replaced (ctlutil.cpp lines 2040 to 2385); and the renderer
\* asks for a quality in the range there is (renbase.cpp lines 2240 to 2560).
SettingsFollowed ==
    CASE part = "Window" -> Window!WindowAsAsked
      [] part = "Seeking" -> Seeking!WorkerFollows /\ Seeking!PositionOfSample
      [] part = "Queue" -> Queue!EarliestIsAdvised
      [] part = "Quality" -> Quality!QualityInRange
      [] OTHER -> TRUE

\* Lists keep what was put in, in its order: the chains of nodes are well linked and
\* implement the lists of objects the header promises (wxlist.cpp lines 332 to 891).
ListsKept ==
    /\ [](part = "List" => List!WellLinked)
    /\ List!Promised!Init /\ [][part = "List" => List!StepPromised]_Listvars
=============================================================================
