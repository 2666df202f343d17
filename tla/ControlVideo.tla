---------------------------- MODULE ControlVideo ----------------------------
(***************************************************************************)
(* CBaseControlVideo: the source and the target rectangle of a video, and  *)
(* the still image an application may take of it.                          *)
(*                                                                         *)
(* Every method holds the interface lock throughout, so each is one step.  *)
(* The rectangles are kept by the derived class, which sets its defaults   *)
(* when the format of the connection changes.  An image is a bottom-up     *)
(* bitmap whose scan lines are padded to whole DWORDs.                     *)
(***************************************************************************)
EXTENDS Integers

CONSTANTS Videos,        \* formats: width, height and bits per pixel
          VideoCoordinates    \* coordinates that are asked for

VARIABLES connected, video, source, target

vars == <<connected, video, source, target>>

Rect(left, top, right, bottom) == [left |-> left, top |-> top, right |-> right, bottom |-> bottom]
WIDTH(r) == r.right - r.left
HEIGHT(r) == r.bottom - r.top

DefaultRect(v) == Rect(0, 0, v.width, v.height)

Init ==
    /\ connected = FALSE
    /\ video \in Videos /\ source = DefaultRect(video) /\ target = DefaultRect(video)
-----------------------------------------------------------------------------
\* The rectangles.

\* Fault: the size of the video is not looked at.
NotEmpty(r) == 0 <= r.left /\ r.left < r.right /\ 0 <= r.top /\ r.top < r.bottom

\* CheckSourceRect: not empty, and within the video.
CheckSourceRect(r) ==
    /\ 0 <= r.left /\ r.left < r.right /\ r.right <= video.width
    /\ 0 <= r.top /\ r.top < r.bottom /\ r.bottom <= video.height

\* CheckTargetRect: not empty.  The target may lie anywhere.
CheckTargetRect(r) == r.left < r.right /\ r.top < r.bottom

\* The four properties of a rectangle r: each keeps the other three.
Properties(r, value) == {
    [r EXCEPT !.left = value, !.right = value + WIDTH(r)],
    [r EXCEPT !.right = r.left + value],
    [r EXCEPT !.top = value, !.bottom = value + HEIGHT(r)],
    [r EXCEPT !.bottom = r.top + value]}

Requests(r) == UNION {Properties(r, value) : value \in VideoCoordinates}

\* SetSourcePosition and put_SourceLeft, -Width, -Top and -Height; what is refused
\* changes nothing.
PutSource ==
    /\ connected
    /\ \/ \E l, t, w, h \in VideoCoordinates : source' = Rect(l, t, l + w, t + h)
       \/ source' \in Requests(source)
    /\ CheckSourceRect(source')
    /\ UNCHANGED <<connected, video, target>>

PutDestination ==
    /\ connected /\ target' \in Requests(target) /\ CheckTargetRect(target')
    /\ \A side \in DOMAIN target : target'[side] \in VideoCoordinates
    /\ UNCHANGED <<connected, video, source>>

SetDefaultSourcePosition ==
    /\ connected /\ source' = DefaultRect(video)
    /\ UNCHANGED <<connected, video, target>>

SetDefaultDestinationPosition ==
    /\ connected /\ target' = DefaultRect(video)
    /\ UNCHANGED <<connected, video, source>>
-----------------------------------------------------------------------------
\* The image.

\* DIBWIDTHBYTES: the bytes of a scan line.
Stride(width, bits) == ((width * bits + 31) \div 32) * 4

\* GetImageSize: the bytes of the image, its header left out.
GetImageSize(v, r) == Stride(WIDTH(r), v.bits) * HEIGHT(r)

\* Fault: counted from the top.
LinesFromTop(v, r) == r.top

\* The scan lines below the rectangle.
LinesToSkip(v, r) == v.height - (r.top + HEIGHT(r))

\* CopyImage: scan line by scan line from the lowest of the rectangle.  "from" gives
\* for every byte of the image the byte of the video that it is.
CopyImage(v, r) ==
    LET bytes    == v.bits \div 8
        out      == Stride(WIDTH(r), v.bits)
        in       == Stride(v.width, v.bits)
        start    == LinesToSkip(v, r) * in + r.left * bytes
        ScanLine == bytes * WIDTH(r)
        written  == {line * out + b : line \in 0..HEIGHT(r) - 1, b \in 0..ScanLine - 1}
    IN  [width |-> WIDTH(r), height |-> HEIGHT(r),
         from |-> [o \in written |-> start + (o \div out) * in + (o % out)]]
-----------------------------------------------------------------------------
Least(a, b) == IF a < b THEN a ELSE b

\* Fault: not limited by what there is from start on.
RetrievedFromFirst(used, start, entries) ==
    IF start >= used \/ start < 0 THEN -1
    ELSE IF Least(used, entries) < 0 THEN 0 ELSE Least(used, entries)

\* GetVideoPaletteEntries: how many of "entries" from "start" on there are, -1 when
\* start is none.
Retrieved(used, start, entries) ==
    IF start >= used \/ start < 0 THEN -1
    ELSE IF Least(used - start, entries) < 0 THEN 0 ELSE Least(used - start, entries)

\* The filter: connections bring a format and the default rectangles.
Connect ==
    /\ ~connected /\ connected' = TRUE /\ video' \in Videos
    /\ source' = DefaultRect(video') /\ target' = DefaultRect(video')

Disconnect ==
    /\ connected /\ connected' = FALSE
    /\ UNCHANGED <<video, source, target>>

Next == \/ PutSource \/ PutDestination
        \/ SetDefaultSourcePosition \/ SetDefaultDestinationPosition
        \/ Connect \/ Disconnect

Spec == Init /\ [][Next]_vars
-----------------------------------------------------------------------------
\* The byte of pixel x, y, counted from the top left corner, in a bottom-up bitmap.
ByteOf(x, y, width, height, bits) == (height - 1 - y) * Stride(width, bits) + x * (bits \div 8)

\* The image that is copied is the source rectangle of the video, pixel by pixel, and
\* fits the size GetImageSize gives; the rectangle never reaches outside the video. Of
\* pixels smaller than a byte nothing is copied, as a scan line then has no bytes
\* (winctrl.cpp lines 1843 to 1988, 1974 for the scan line, and 2020 to 2045).
ImageOfSource ==
    LET image == CopyImage(video, source)
    IN  /\ IF video.bits < 8 THEN DOMAIN image.from = {}
           ELSE \A x \in 0..WIDTH(source) - 1, y \in 0..HEIGHT(source) - 1 :
              image.from[ByteOf(x, y, image.width, image.height, video.bits)]
                 = ByteOf(source.left + x, source.top + y, video.width, video.height, video.bits)
        /\ \A o \in DOMAIN image.from :
              /\ o \in 0..GetImageSize(video, source) - 1
              /\ image.from[o] \in 0..Stride(video.width, video.bits) * video.height - 1

\* The palette entries handed out are entries of the palette, and all of those asked
\* for that there are (lines 1232 to 1256).
EntriesOfPalette ==
    \A used \in 0..3, start \in -1..4, entries \in -1..4 :
        LET n == Retrieved(used, start, entries)
            wanted == {i \in 0..used - 1 : start <= i /\ i < start + entries}
        IN  IF n < 0 THEN start \notin 0..used - 1 ELSE {start + k : k \in 0..n - 1} = wanted
=============================================================================
