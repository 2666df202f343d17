---------------------------- MODULE ImageDisplay ----------------------------
(***************************************************************************)
(* CImageDisplay (winutil.cpp): which image formats can be shown on the    *)
(* display.  The window's thread refreshes the display's format when its   *)
(* mode changes, under the object's lock; the source's thread checks types *)
(* against it, without the lock, and reads it several times on the way.    *)
(*                                                                         *)
(* A header has the number of bits of a pixel, a compression, three bit    *)
(* fields (for "bitfields"), the colours used and important of its palette *)
(* and an image size (0, or in proportion to what it should be); "whole"   *)
(* says that its dimensions, planes and structure size are right.  A bit   *)
(* field is the set of its bits.                                           *)
(***************************************************************************)
EXTENDS Integers, FiniteSets, Sequences

CONSTANTS
    Displays,    \* headers of display modes
    Inputs       \* headers proposed by the output pin

MaxBits == 8       \* iMAXBITS
Width == 32
Colours == 1..3    \* iRED, iGREEN, iBLUE

VARIABLES
    m_Display,    \* the display's format, as it is being filled in
    mode,         \* the mode it is refreshed to
    pcWindow,     \* of RefreshDisplayType
    input, pc,    \* of CheckVideoType
    modes         \* observed: the modes there were since it began

vars == <<m_Display, mode, pcWindow, input, pc, modes>>

None == <<{}, {}, {}>>
Zero == [bits |-> 0, compression |-> "rgb", fields |-> None, used |-> 0, important |-> 0,
         size |-> 0, whole |-> FALSE]

-----------------------------------------------------------------------------
\* Bit fields.
CountSetBits(f) == Cardinality(f)

\* 32 for a field without bits.
CountPrefixBits(f) == IF f = {} THEN Width ELSE CHOOSE b \in f : \A c \in f : b <= c

ShiftRight(f, n) == {b - n : b \in {c \in f : c >= n}}

ShiftLeft(f, n) == {b + n : b \in {c \in f : c + n < Width}}

\* Fault: it is not looked whether the bits are contiguous.
CheckCountOnly(f) == CountSetBits(f) \in 1..MaxBits

\* CheckBitFields, for one of them.
CheckBitField(f) ==
    /\ CountSetBits(f) \in 1..MaxBits
    /\ ShiftRight(f, CountPrefixBits(f)) \cap (CountSetBits(f)..(Width - 1)) = {}

-----------------------------------------------------------------------------
\* Headers.
PALETTISED(h) == h.bits <= 8
PALETTE_ENTRIES(h) == 2 ^ (h.bits % Width)    \* a shift, of which x86 takes five bits

CheckPaletteHeader(h) ==
    IF PALETTISED(h)
    THEN h.compression = "rgb" /\ h.used <= PALETTE_ENTRIES(h) /\ h.important <= h.used
    ELSE h.used = 0

CheckHeaderValidity(h) ==
    /\ h.whole /\ h.compression \in {"rgb", "bitfields"}
    /\ h.compression = "bitfields" =>
           h.bits \in {16, 32} /\ \A c \in Colours : CheckBitField(h.fields[c])
    /\ h.size \in {0, h.bits}
    /\ CheckPaletteHeader(h)

\* Fault: the colours of a palette that is not full stay implicit.
UpdateSizeOnly(h) == [h EXCEPT !.size = IF @ = 0 THEN h.bits ELSE @]

UpdateFormat(h) ==
    LET used == IF PALETTISED(h) /\ h.used = 0 THEN PALETTE_ENTRIES(h) ELSE h.used
    IN  [h EXCEPT !.used = used,
                  !.important = IF @ > used THEN PALETTE_ENTRIES(h) ELSE @,
                  !.size = IF @ = 0 THEN h.bits ELSE @]

bits555 == <<10..14, 5..9, 0..4>>
bits565 == <<11..15, 5..10, 0..4>>
bits888 == <<16..23, 8..15, 0..7>>

\* Fault: 16 bits are taken to be 5, 6 and 5.
MasksOf565(h) ==
    IF h.compression = "bitfields" THEN h.fields
    ELSE IF h.bits = 16 THEN bits565
    ELSE IF h.bits \in {24, 32} THEN bits888
    ELSE None

GetBitMasks(h) ==
    IF h.compression = "bitfields" THEN h.fields
    ELSE IF h.bits = 16 THEN bits555
    ELSE IF h.bits \in {24, 32} THEN bits888
    ELSE None

\* GetColourMask, for one colour of a true colour display.
ColourMask(h, c) ==
    IF h.bits = 24 THEN 0..7
    ELSE LET f == GetBitMasks(h)[c]
         IN  ShiftLeft(ShiftRight(f, CountPrefixBits(f)), MaxBits - CountSetBits(f))

-----------------------------------------------------------------------------
Init ==
    /\ mode \in Displays /\ m_Display = UpdateFormat(mode) /\ pcWindow = "idle"
    /\ input = Zero /\ pc = "idle" /\ modes = {}

\* RefreshDisplayType: the format is zeroed, then the header is filled in and then
\* the bit fields, and it is made explicit.
RefreshDisplayType(d) ==
    /\ pcWindow = "idle" /\ pcWindow' = "zeroed" /\ mode' = d /\ m_Display' = Zero
    /\ modes' = IF pc = "idle" THEN {} ELSE modes \cup {d}
    /\ UNCHANGED <<input, pc>>

FillHeader ==
    /\ pcWindow = "zeroed" /\ pcWindow' = "header"
    /\ m_Display' = [mode EXCEPT !.fields = None]
    /\ UNCHANGED <<mode, input, pc, modes>>

FillColours ==
    /\ pcWindow = "header" /\ pcWindow' = "idle"
    /\ m_Display' = UpdateFormat(mode)
    /\ UNCHANGED <<mode, input, pc, modes>>

\* CheckMediaType and CheckVideoType begin.
CheckVideoType(h) ==
    /\ pc = "idle" /\ input' = h
    /\ modes' = {mode}
    /\ pc' = IF CheckHeaderValidity(h) THEN "same" ELSE "rejected"
    /\ UNCHANGED <<m_Display, mode, pcWindow>>

Decide(at, next) ==
    /\ pc = at /\ pc' = next /\ UNCHANGED <<m_Display, mode, pcWindow, input, modes>>

\* Palettes of the display's depth are always accepted.
CheckPalettised ==
    Decide("same", IF m_Display.bits = input.bits /\ PALETTISED(input) THEN "accepted"
                   ELSE "deeper")

CheckDeeper == Decide("deeper", IF m_Display.bits > input.bits THEN "accepted" ELSE "shallower")

\* Fault: a display that has fewer colours will do.
ShallowerWillDo == Decide("shallower", "masks")

CheckShallower == Decide("shallower", IF m_Display.bits < input.bits THEN "rejected" ELSE "masks")

CheckMasks ==
    Decide("masks", IF GetBitMasks(input) = GetBitMasks(m_Display) THEN "accepted"
                    ELSE "rejected")

\* The renderer completes the format it has accepted.
CheckReturns ==
    /\ pc \in {"accepted", "rejected"} /\ pc' = "idle" /\ input' = Zero /\ modes' = {}
    /\ UNCHANGED <<m_Display, mode, pcWindow>>

Next ==
    \/ \E d \in Displays : RefreshDisplayType(d)
    \/ FillHeader \/ FillColours
    \/ \E h \in Inputs : CheckVideoType(h)
    \/ CheckPalettised \/ CheckDeeper \/ CheckShallower \/ CheckMasks \/ CheckReturns

Spec == Init /\ [][Next]_vars

-----------------------------------------------------------------------------
\* A display shows what has fewer bits; of what has as many, palettes and the very
\* layout of its pixels.
Layout(h) ==
    IF h.compression = "bitfields" THEN h.fields
    ELSE IF h.bits = 16 THEN <<10..14, 5..9, 0..4>> ELSE <<16..23, 8..15, 0..7>>

Shows(display, h) ==
    \/ h.bits < display.bits
    \/ h.bits = display.bits /\ (PALETTISED(h) \/ Layout(h) = Layout(display))

\* A type is accepted only if a mode that the display had during the check shows it,
\* although the mode may change between any two looks at it and be half filled in
\* (winutil.cpp lines 2144 to 2212 and 2484 to 2542).
AcceptedIsShown ==
    pc = "accepted" => \E display \in modes : Shows(display, input)

\* The format that is accepted can be made explicit and stays valid: its size is
\* known, and a palette says how many colours it has (lines 2305 to 2408 and 2443 to
\* 2473).
ExplicitIsValid ==
    pc = "accepted" =>
        LET h == UpdateFormat(input)
        IN  /\ CheckHeaderValidity(h) /\ h.size = h.bits
            /\ PALETTISED(h) => h.used > 0 /\ h.important <= h.used

\* The mask of a colour in a true colour mode has as many of the leading bits of a
\* byte as its bit field has bits, and no others (lines 2220 to 2295 and 2618 to
\* 2666).
MasksAreLeading ==
    pc = "accepted" /\ input.bits >= 16 =>
        \A c \in Colours :
            ColourMask(input, c) = (8 - Cardinality(Layout(input)[c]))..7
=============================================================================
