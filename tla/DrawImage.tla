----------------------------- MODULE DrawImage -----------------------------
(***************************************************************************)
(* CDrawImage, CImageAllocator and CImagePalette (winutil.cpp): the image  *)
(* buffers that a renderer shares with GDI, the colours they have and what *)
(* is drawn of them.                                                       *)
(*                                                                         *)
(* Each buffer is a DIB section with a colour table and a cookie: the      *)
(* version of the palette the table was made for.  A new palette is put    *)
(* into the window; buffers get its colours when they are drawn next.  The *)
(* window's own thread selects the window's palette at any time.           *)
(*                                                                         *)
(* The renderer's calls are those of the comments: it prepares the palette *)
(* before it tells the others of a new type, and sets the count of buffers *)
(* while none is allocated.                                                *)
(***************************************************************************)
EXTENDS Integers, FiniteSets

CONSTANTS
    Formats,       \* of images: their colours or Null, and biHeight
    MaxCount,      \* the largest count of buffers
    MaxPalettes    \* bound: palettes made

Null == "null"
NoFormat == [colours |-> Null, height |-> 0]
Samples == 1..MaxCount
PALETTE_VERSION == 1

VARIABLES
    m_mtIn, new,        \* the format, and the one that is coming
    pc,                 \* of PreparePalette
    m_hPalette, made,   \* CImagePalette's palette (0: none); palettes so far
    windowPalette,      \* CBaseWindow's m_hPalette
    selected,           \* the palette in its device context; 0: the standard one
    m_PaletteVersion,   \* of CDrawImage
    m_lCount, m_lAllocated, m_lFree, m_bCommitted, m_bDecommitInProgress,
    DibData,            \* of each sample: version and colour table
    allocating,         \* where Alloc is
    bitmaps, mappings,  \* GDI's bitmaps and the mappings there are
    left,               \* samples that a failed Commit has left
    m_SourceRect, m_TargetRect, m_bStretch

palette == <<m_hPalette, made, windowPalette, selected>>
format == <<m_mtIn, new, pc, m_PaletteVersion>>
state == <<m_lCount, m_bCommitted, m_bDecommitInProgress>>
buffers == <<m_lAllocated, m_lFree, DibData, allocating, bitmaps, mappings, left>>
rects == <<m_SourceRect, m_TargetRect, m_bStretch>>
vars == <<palette, format, state, buffers, rects>>

Lines(height) == IF height < 0 THEN -height ELSE height
EmptyRect == [top |-> 0, bottom |-> 0]

Init ==
    /\ m_mtIn = NoFormat /\ new = NoFormat /\ pc = "idle"
    /\ m_hPalette = 0 /\ made = 0 /\ windowPalette = 0 /\ selected = 0
    /\ m_PaletteVersion = PALETTE_VERSION
    /\ m_lCount = 0 /\ m_lAllocated = 0 /\ m_lFree = {}
    /\ m_bCommitted = FALSE /\ m_bDecommitInProgress = FALSE
    /\ DibData = [s \in Samples |-> [version |-> 0, table |-> Null]]
    /\ allocating = "idle" /\ bitmaps = 0 /\ mappings = 0 /\ left = 0
    /\ m_SourceRect = EmptyRect /\ m_TargetRect = EmptyRect /\ m_bStretch = FALSE

ContainsPalette(f) == f.colours # Null

\* Fault: the number of colours is all that is compared.
ShouldUpdateCount(f, old) ==
    old = NoFormat \/ ContainsPalette(f) # ContainsPalette(old)

ShouldUpdate(f, old) ==
    \/ old = NoFormat
    \/ ContainsPalette(f) # ContainsPalette(old)
    \/ ContainsPalette(f) /\ f.colours # old.colours

-----------------------------------------------------------------------------
\* Fault: the window is not told.
RemoveQuietly == m_hPalette' = 0 /\ UNCHANGED <<windowPalette, selected, made>>

\* UnsetPalette puts the standard palette into the device context, and the palette
\* is deleted; all under the palette lock.
RemovePalette ==
    /\ m_hPalette' = 0
    /\ IF m_hPalette = 0 THEN UNCHANGED <<windowPalette, selected>>
       ELSE windowPalette' = 0 /\ selected' = 0
    /\ UNCHANGED made

\* The renderer gets another type, at a connection or with a sample: PreparePalette
\* removes the palette unless the new one has the same colours.
PreparePalette(f) ==
    /\ pc = "idle" /\ f # m_mtIn /\ (made = MaxPalettes => ~ContainsPalette(f))
    /\ new' = f
    /\ IF ShouldUpdate(f, m_mtIn)
       THEN /\ RemovePalette
            /\ pc' = IF ContainsPalette(f) THEN "removed" ELSE "prepared"
       ELSE pc' = "prepared" /\ UNCHANGED palette
    /\ UNCHANGED <<m_mtIn, m_PaletteVersion, state, buffers, rects>>

\* MakePalette, under the palette lock.
MakePalette ==
    /\ pc = "removed" /\ pc' = "made"
    /\ made' = made + 1 /\ m_hPalette' = made + 1
    /\ UNCHANGED <<windowPalette, selected, m_mtIn, new, m_PaletteVersion, state, buffers, rects>>

\* Fault: the samples that exist are not seen to be out of date.
InstallSilently ==
    /\ pc = "made" /\ pc' = "prepared"
    /\ windowPalette' = m_hPalette
    /\ UNCHANGED <<m_hPalette, made, selected, m_mtIn, new, m_PaletteVersion, state, buffers,
                   rects>>

\* The window gets the palette, and IncrementPaletteVersion.
InstallPalette ==
    /\ pc = "made" /\ pc' = "prepared"
    /\ windowPalette' = m_hPalette
    /\ m_PaletteVersion' = m_PaletteVersion + 1
    /\ UNCHANGED <<m_hPalette, made, selected, m_mtIn, new, state, buffers, rects>>

\* NotifyMediaType of the allocator and of the draw object.
NotifyMediaType ==
    /\ pc = "prepared" /\ pc' = "idle" /\ m_mtIn' = new /\ new' = NoFormat
    /\ UNCHANGED <<palette, m_PaletteVersion, state, buffers, rects>>

\* The connection is broken.
BreakConnect ==
    /\ pc = "idle" /\ m_mtIn # NoFormat /\ ~m_bCommitted /\ allocating = "idle"
    /\ m_mtIn' = NoFormat /\ RemovePalette
    /\ UNCHANGED <<new, pc, m_PaletteVersion, state, buffers, rects>>

\* DoRealisePalette on the window's thread.
SelectPalette ==
    /\ windowPalette # 0 /\ selected' = windowPalette
    /\ UNCHANGED <<m_hPalette, made, windowPalette, format, state, buffers, rects>>

-----------------------------------------------------------------------------
\* SetProperties; CheckSizes refuses it without a type.
SetProperties(n) ==
    /\ m_mtIn # NoFormat /\ ~m_bCommitted /\ allocating = "idle"
    /\ Cardinality(m_lFree) = m_lAllocated /\ m_lCount' = n
    /\ UNCHANGED <<palette, format, m_bCommitted, m_bDecommitInProgress, buffers, rects>>

\* Commit: a pending Decommit is called off; else the buffers are made.
Commit ==
    /\ ~m_bCommitted /\ m_lCount > 0 /\ m_mtIn # NoFormat /\ allocating = "idle"
    /\ m_bCommitted' = TRUE /\ m_bDecommitInProgress' = FALSE
    /\ allocating' = IF m_bDecommitInProgress \/ m_lAllocated >= m_lCount THEN "idle"
                     ELSE "mapping"
    /\ UNCHANGED <<palette, format, m_lCount, m_lAllocated, m_lFree, DibData, bitmaps,
                   mappings, left, rects>>

\* Alloc fails: Commit takes m_bCommitted back, and what was made stays.
AllocFails ==
    /\ allocating' = "idle" /\ m_bCommitted' = FALSE /\ left' = m_lAllocated
    /\ UNCHANGED <<m_lAllocated, m_lFree, DibData>>

\* CreateDIB, first step.
CreateFileMapping(ok) ==
    /\ allocating = "mapping"
    /\ IF ok THEN /\ mappings' = mappings + 1 /\ allocating' = "bitmap"
                  /\ UNCHANGED <<m_bCommitted, m_lAllocated, m_lFree, DibData, left>>
       ELSE AllocFails /\ UNCHANGED mappings
    /\ UNCHANGED <<palette, format, m_lCount, m_bDecommitInProgress, bitmaps, rects>>

CreateDIBSection(ok) ==
    /\ allocating = "bitmap"
    /\ IF ok THEN /\ bitmaps' = bitmaps + 1 /\ allocating' = "sample"
                  /\ UNCHANGED <<m_bCommitted, m_lAllocated, m_lFree, DibData, left, mappings>>
       ELSE AllocFails /\ mappings' = mappings - 1 /\ UNCHANGED bitmaps
    /\ UNCHANGED <<palette, format, m_lCount, m_bDecommitInProgress, rects>>

AddSample ==
    LET s == m_lAllocated + 1
    IN  /\ m_lAllocated' = s /\ m_lFree' = m_lFree \cup {s}
        /\ DibData' = [DibData EXCEPT ![s] = [version |-> PALETTE_VERSION,
                                              table |-> m_mtIn.colours]]
        /\ allocating' = IF s < m_lCount THEN "mapping" ELSE "idle"
        /\ UNCHANGED <<m_bCommitted, left, bitmaps, mappings>>

\* Fault: the bitmap and the mapping stay when there is no sample for them.
CreateSampleLeaks(ok) ==
    /\ allocating = "sample"
    /\ IF ok THEN AddSample ELSE AllocFails /\ UNCHANGED <<bitmaps, mappings>>
    /\ UNCHANGED <<palette, format, m_lCount, m_bDecommitInProgress, rects>>

CreateImageSample(ok) ==
    /\ allocating = "sample"
    /\ IF ok THEN AddSample
       ELSE AllocFails /\ bitmaps' = bitmaps - 1 /\ mappings' = mappings - 1
    /\ UNCHANGED <<palette, format, m_lCount, m_bDecommitInProgress, rects>>

\* Free takes the samples that are on the list, which are all.
Free(free) ==
    /\ m_lFree' = {} /\ m_lAllocated' = 0 /\ left' = 0
    /\ bitmaps' = bitmaps - Cardinality(free) /\ mappings' = mappings - Cardinality(free)
    /\ DibData' = [s \in Samples |-> [version |-> 0, table |-> Null]]

Decommit ==
    /\ m_bCommitted /\ allocating = "idle" /\ m_bCommitted' = FALSE
    /\ IF Cardinality(m_lFree) < m_lAllocated
       THEN /\ m_bDecommitInProgress' = TRUE
            /\ UNCHANGED <<m_lFree, m_lAllocated, left, bitmaps, mappings, DibData>>
       ELSE Free(m_lFree) /\ UNCHANGED m_bDecommitInProgress
    /\ UNCHANGED <<palette, format, m_lCount, allocating, rects>>

GetBuffer(s) ==
    /\ m_bCommitted /\ allocating = "idle" /\ s \in m_lFree /\ m_lFree' = m_lFree \ {s}
    /\ UNCHANGED <<palette, format, state, m_lAllocated, DibData, allocating, bitmaps,
                   mappings, left, rects>>

\* Fault: what is freed is what was on the list before.
ReleaseFreesRest(s) ==
    /\ s \in 1..m_lAllocated \ m_lFree
    /\ IF m_bDecommitInProgress /\ Cardinality(m_lFree) + 1 = m_lAllocated
       THEN Free(m_lFree) /\ m_bDecommitInProgress' = FALSE
       ELSE /\ m_lFree' = m_lFree \cup {s}
            /\ UNCHANGED <<m_bDecommitInProgress, m_lAllocated, left, bitmaps, mappings, DibData>>
    /\ UNCHANGED <<palette, format, m_lCount, m_bCommitted, allocating, rects>>

\* The last buffer that comes back completes a Decommit.
ReleaseBuffer(s) ==
    /\ s \in 1..m_lAllocated \ m_lFree
    /\ IF m_bDecommitInProgress /\ Cardinality(m_lFree) + 1 = m_lAllocated
       THEN Free(m_lFree \cup {s}) /\ m_bDecommitInProgress' = FALSE
       ELSE /\ m_lFree' = m_lFree \cup {s}
            /\ UNCHANGED <<m_bDecommitInProgress, m_lAllocated, left, bitmaps, mappings, DibData>>
    /\ UNCHANGED <<palette, format, m_lCount, m_bCommitted, allocating, rects>>

-----------------------------------------------------------------------------
\* FastRender of a buffer: the colour table is brought up to date.
FastRender(s) ==
    /\ pc = "idle" /\ m_mtIn # NoFormat /\ s \in 1..m_lAllocated \ m_lFree
    /\ DibData' = IF DibData[s].version < m_PaletteVersion
                  THEN [DibData EXCEPT ![s] =
                            [version |-> m_PaletteVersion,
                             table |-> IF ContainsPalette(m_mtIn) THEN m_mtIn.colours
                                       ELSE @.table]]
                  ELSE DibData
    /\ UNCHANGED <<palette, format, state, m_lAllocated, m_lFree, allocating, bitmaps,
                   mappings, left, rects>>

Height(rect) == rect.bottom - rect.top

SetStretchMode(source, target) == m_bStretch' = (Height(source) # Height(target))

SetSourceRect(rect) ==
    /\ m_SourceRect' = rect /\ SetStretchMode(rect, m_TargetRect)
    /\ UNCHANGED <<palette, format, state, buffers, m_TargetRect>>

\* Fault: the flag is made from the source rectangle that was.
SetTargetQuietly(rect) ==
    /\ m_TargetRect' = rect
    /\ UNCHANGED <<palette, format, state, buffers, m_SourceRect, m_bStretch>>

SetTargetRect(rect) ==
    /\ m_TargetRect' = rect /\ SetStretchMode(m_SourceRect, rect)
    /\ UNCHANGED <<palette, format, state, buffers, m_SourceRect>>

\* Fault: the origin of the image is taken to be at its top.
AdjustNothing(rect, height) == rect.top

\* SlowRender and DrawVideoImageHere: where GDI is to begin.
AdjustedSourceTop(rect, height) ==
    IF height > 0 THEN height - rect.bottom ELSE rect.top

\* The lines of the image, from the top, that GDI draws from a DIB beginning at line
\* "first" of it, which in a bottom-up DIB is counted from the bottom.
LinesOfDIB(first, rect, height) ==
    IF height > 0 THEN {height - 1 - l : l \in first..(first + Height(rect) - 1)}
    ELSE first..(first + Height(rect) - 1)

\* FastRender: a device context has its origin at the top.
LinesOfDC(rect) == rect.top..(rect.bottom - 1)

\* All of an image of two lines, and its lower line.
Rects == {[top |-> 0, bottom |-> 2], [top |-> 1, bottom |-> 2]}

Next ==
    \/ \E f \in Formats : PreparePalette(f)
    \/ MakePalette \/ InstallPalette \/ NotifyMediaType \/ BreakConnect \/ SelectPalette
    \/ \E n \in 1..MaxCount : SetProperties(n)
    \/ Commit \/ Decommit
    \/ \E ok \in BOOLEAN : CreateFileMapping(ok) \/ CreateDIBSection(ok) \/ CreateImageSample(ok)
    \/ \E s \in Samples : GetBuffer(s) \/ ReleaseBuffer(s) \/ FastRender(s)
    \/ \E r \in Rects : SetSourceRect(r) \/ SetTargetRect(r)

Spec == Init /\ [][Next]_vars

-----------------------------------------------------------------------------
\* A buffer that will be drawn as it is has the colours of the format, though it may
\* have been filled, freed and made again while formats came and went (winutil.cpp
\* lines 1049 to 1059, 1684 and 1882 to 1905).
ColoursCurrent ==
    pc = "idle" /\ ContainsPalette(m_mtIn) =>
        \A s \in 1..m_lAllocated :
            DibData[s].version >= m_PaletteVersion => DibData[s].table = m_mtIn.colours

\* No palette is selected, or kept by the window, that has been deleted, and the
\* window has that of the format (lines 1845 to 1907 and 1977 to 2004).
PaletteInUse ==
    /\ {windowPalette, selected} \subseteq {0, m_hPalette}
    /\ pc = "idle" => /\ windowPalette = m_hPalette
                      /\ m_hPalette # 0 <=> ContainsPalette(m_mtIn)

\* Every bitmap and every mapping belongs to a sample, also after a Commit that ran
\* out of them, and none is kept when nothing is committed - but for what such a
\* Commit has left (lines 1476 to 1492 and 1560 to 1688).
DIBsAccounted ==
    /\ bitmaps = m_lAllocated + IF allocating = "sample" THEN 1 ELSE 0
    /\ mappings = m_lAllocated + IF allocating \in {"bitmap", "sample"} THEN 1 ELSE 0
    /\ ~m_bCommitted /\ ~m_bDecommitInProgress => m_lAllocated = left

\* The same lines of an image are drawn, from the same place, whichever way it is
\* drawn and whichever way up it is stored; and it is stretched exactly when the
\* rectangles differ (lines 1070 to 1103, 1150 to 1194 and 1362 to 1377).
DrawnAlike ==
    /\ \A h \in {f.height : f \in Formats} : Lines(h) >= m_SourceRect.bottom =>
           LinesOfDIB(AdjustedSourceTop(m_SourceRect, h), m_SourceRect, h)
               = LinesOfDC(m_SourceRect)
    /\ m_bStretch <=> Height(m_SourceRect) # Height(m_TargetRect)
=============================================================================
