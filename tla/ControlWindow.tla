---------------------------- MODULE ControlWindow ----------------------------
(***************************************************************************)
(* CBaseControlWindow: what an application may ask of the video window     *)
(* through IVideoWindow, and what the filter does with it.                 *)
(*                                                                         *)
(* The system keeps the place of a window, its position and its size, in   *)
(* the coordinates of its parent, or of the screen.  GetWindowRect answers *)
(* in the coordinates of the screen, SetWindowPos and MoveWindow take      *)
(* those of the parent, and MapWindowPoints converts.  No call takes a     *)
(* lock: an application, the filter that activates its window and the user *)
(* who closes it come between each other's calls of the system.  The       *)
(* application makes its calls of IVideoWindow one after the other.        *)
(***************************************************************************)
EXTENDS Integers

CONSTANTS Axes,      \* the horizontal and the vertical one
          Extent,    \* bound: coordinates asked for
          Origin,    \* where the owner's client area is on the screen
          DWord      \* windows are aligned to multiples of it (4 in the code)

VARIABLES
    connected,                   \* the pin
    place,                       \* of the window: at, <<left, top>>, and its size
    m_hwndOwner,                 \* has the application given the window a parent
    visible, m_bActivated,
    pc, rect,                    \* how far each caller is, and the rectangle it works with
    bVisible, wanted,            \* of the application's call
    asked, shown,                \* observed: what the application asked for last
    overtaken,                   \* observed: what has changed since a caller looked at it
    lost                         \* observed: what a caller has set from an old look

settled == <<place, visible, asked, shown, lost>>
call == <<pc, rect, bVisible, wanted, overtaken>>
vars == <<connected, m_hwndOwner, m_bActivated, settled, call>>

Movers == {"application", "filter"}
Coordinates == 0..Extent
Sizes == 1..2
Places == [at : [Axes -> Coordinates], size : [Axes -> Sizes]]
Each(n) == [i \in Axes |-> n]
DefaultSize == Each(2)
OffScreen == Each(Extent + 1)
NoRect == [at |-> Each(0), size |-> Each(0)]
NoEdge == [what |-> "none", i |-> CHOOSE i \in Axes : TRUE, value |-> 0]

Init ==
    /\ connected = FALSE /\ m_hwndOwner = FALSE /\ visible = FALSE /\ m_bActivated = FALSE
    /\ place = [at |-> Each(1), size |-> Each(1)]
    /\ pc = [c \in Movers |-> "idle"] /\ rect = [c \in Movers |-> NoRect]
    /\ bVisible = FALSE /\ wanted = NoEdge
    /\ asked = place /\ shown = FALSE
    /\ overtaken = [c \in Movers |-> {}] /\ lost = {}
-----------------------------------------------------------------------------
\* The system.
Plus(p, q) == [i \in Axes |-> p[i] + q[i]]
Minus(p, q) == [i \in Axes |-> p[i] - q[i]]

OnScreen(r) == [r EXCEPT !.at = IF m_hwndOwner THEN Plus(r.at, Origin) ELSE r.at]
GetWindowRect == OnScreen(place)

\* A rectangle in the coordinates of the parent, where there is one.
MapWindowPoints(r) == [r EXCEPT !.at = IF m_hwndOwner THEN Minus(r.at, Origin) ELSE r.at]

ShowWindow(show) == visible' = show /\ shown' = show /\ lost' = lost \ {"visible"}
-----------------------------------------------------------------------------
\* A caller goes from one call of the system to its next, or looks at the window.
Goes(c, from, to) == pc[c] = from /\ pc' = [pc EXCEPT ![c] = to]
Looks(c, from, to) == Goes(c, from, to) /\ overtaken' = [overtaken EXCEPT ![c] = {}]
Returns(c, from) == Goes(c, from, "idle") /\ rect' = [rect EXCEPT ![c] = NoRect]
Reads(c) == rect' = [rect EXCEPT ![c] = GetWindowRect]

\* Caller c changes something: what the others have seen of it is old.
Overtakes(c, what) ==
    overtaken' = [d \in Movers |-> IF d = c THEN overtaken[d] ELSE overtaken[d] \cup {what}]

\* What caller c sets depends on what it saw.
Depends(c, what) == lost' = lost \cup (overtaken[c] \cap {what})
-----------------------------------------------------------------------------
\* The place.

\* A place with one of its numbers as the application wants it.
Edge(r) ==
    IF wanted.what = "at" THEN [at |-> [r.at EXCEPT ![wanted.i] = wanted.value], size |-> r.size]
    ELSE [at |-> r.at, size |-> [r.size EXCEPT ![wanted.i] = wanted.value]]

\* put_Left and put_Top, put_Width and put_Height keep the other numbers.
PutEdge(what, i, value) ==
    /\ connected /\ Looks("application", "idle", "edge") /\ Reads("application")
    /\ wanted' = [what |-> what, i |-> i, value |-> value]
    /\ UNCHANGED <<connected, m_hwndOwner, m_bActivated, settled, bVisible>>

\* From the coordinates of the screen to those of the parent.
MapRect ==
    /\ \/ Goes("application", "edge", "setEdge")
       \/ Goes("application", "hidden", "moveBack")
    /\ rect' = [rect EXCEPT !["application"] = MapWindowPoints(rect["application"])]
    /\ UNCHANGED <<connected, m_hwndOwner, m_bActivated, settled, bVisible, wanted, overtaken>>

SetEdge ==
    /\ Returns("application", "setEdge") /\ wanted' = NoEdge
    /\ place' = Edge(rect["application"]) /\ asked' = Edge(asked)
    /\ Depends("application", "place") /\ Overtakes("application", "place")
    /\ UNCHANGED <<connected, m_hwndOwner, m_bActivated, visible, shown, bVisible>>

\* The whole place at once.
SetWindowPosition(r) ==
    /\ connected /\ pc["application"] = "idle"
    /\ place' = r /\ asked' = r /\ lost' = lost \ {"place"} /\ Overtakes("application", "place")
    /\ UNCHANGED <<connected, m_hwndOwner, m_bActivated, visible, shown, pc, rect, bVisible,
                   wanted>>

\* put_Owner: the window keeps its coordinates, which are now those of the new parent.
PutOwner(owner) ==
    /\ connected /\ pc["application"] = "idle"
    /\ m_hwndOwner' = owner /\ Overtakes("application", "place")
    /\ UNCHANGED <<connected, m_bActivated, settled, pc, rect, bVisible, wanted>>
-----------------------------------------------------------------------------
\* The style and the visibility.
PutWindowStyle ==
    /\ connected /\ Goes("application", "idle", "style")
    /\ UNCHANGED <<connected, m_hwndOwner, m_bActivated, settled, rect, bVisible, wanted,
                   overtaken>>

\* put_WindowStyleEx: WS_EX_TOPMOST is left to the window's thread, which shows a
\* window it puts on top; the other styles, if there are any, are set as above.
PutWindowStyleEx(top) ==
    /\ connected
    /\ \/ Goes("application", "idle", "style")
       \/ top /\ pc["application"] = "idle" /\ UNCHANGED pc
    /\ IF top THEN ShowWindow(TRUE) ELSE UNCHANGED <<visible, shown, lost>>
    /\ UNCHANGED <<connected, m_hwndOwner, m_bActivated, place, asked, rect, bVisible, wanted,
                   overtaken>>

\* DoSetWindowStyle looks whether the window is visible, gets its rectangle, and
\* sets its style.
SeeVisible ==
    /\ Looks("application", "style", "rect") /\ bVisible' = visible
    /\ UNCHANGED <<connected, m_hwndOwner, m_bActivated, settled, rect, wanted>>

SeeRect ==
    /\ Goes("application", "rect", "styled") /\ Reads("application")
    /\ overtaken' = [overtaken EXCEPT !["application"] = @ \ {"place"}]
    /\ UNCHANGED <<connected, m_hwndOwner, m_bActivated, settled, bVisible, wanted>>

\* A window that was visible is shown in its new style where it is.
ShowStyled ==
    /\ bVisible /\ bVisible' = FALSE /\ Returns("application", "styled")
    /\ visible' = TRUE /\ Depends("application", "visible")
    /\ UNCHANGED <<connected, m_hwndOwner, m_bActivated, place, asked, shown, wanted,
                   overtaken>>

\* One that was not is moved off the screen, shown there, hidden and moved back.
MoveAside ==
    /\ ~bVisible /\ Goes("application", "styled", "aside")
    /\ place' = [rect["application"] EXCEPT !.at = OffScreen] /\ Overtakes("application", "place")
    /\ UNCHANGED <<connected, m_hwndOwner, m_bActivated, visible, asked, shown, lost, rect,
                   bVisible, wanted>>

ShowAside ==
    /\ \/ Goes("application", "aside", "shown") /\ visible' = TRUE
       \/ Goes("application", "shown", "hidden") /\ visible' = FALSE
    /\ UNCHANGED <<connected, m_hwndOwner, m_bActivated, place, asked, shown, lost, rect,
                   bVisible, wanted, overtaken>>

MoveBack ==
    /\ Returns("application", "moveBack")
    /\ place' = rect["application"]
    /\ Depends("application", "place") /\ Overtakes("application", "place")
    /\ UNCHANGED <<connected, m_hwndOwner, m_bActivated, visible, asked, shown, bVisible,
                   wanted>>

\* put_Visible, put_WindowState and SetWindowForeground.
PutVisible(show) ==
    /\ connected /\ pc["application"] = "idle" /\ ShowWindow(show)
    /\ UNCHANGED <<connected, m_hwndOwner, m_bActivated, place, asked, call>>

\* The user closes the window: it is hidden.
OnClose ==
    /\ visible /\ ShowWindow(FALSE) /\ Overtakes("user", "visible")
    /\ UNCHANGED <<connected, m_hwndOwner, m_bActivated, place, asked, pc, rect, bVisible, wanted>>
-----------------------------------------------------------------------------
\* The filter.
Aligned(p) == [i \in Axes |-> p[i] - (p[i] % DWord)]

CompleteConnect ==
    /\ ~connected /\ pc["filter"] = "idle" /\ connected' = TRUE /\ m_bActivated' = FALSE
    /\ UNCHANGED <<m_hwndOwner, settled, call>>

Disconnect ==
    /\ connected /\ pc["filter"] = "idle" /\ connected' = FALSE
    /\ UNCHANGED <<m_hwndOwner, m_bActivated, settled, call>>

\* The window gets its default size and an aligned place once after a connection,
\* and not when the application has given it a parent.
ActivateWindow ==
    /\ IF m_bActivated \/ m_hwndOwner
       THEN pc["filter"] = "idle" /\ m_bActivated' = TRUE /\ UNCHANGED <<pc, overtaken>>
       ELSE Looks("filter", "idle", "activate") /\ UNCHANGED m_bActivated
    /\ UNCHANGED <<connected, m_hwndOwner, settled, rect, bVisible, wanted>>

ActivateRect ==
    /\ Goes("filter", "activate", "activateAt") /\ Reads("filter")
    /\ UNCHANGED <<connected, m_hwndOwner, m_bActivated, settled, bVisible, wanted, overtaken>>

ActivateAt ==
    /\ Returns("filter", "activateAt") /\ m_bActivated' = TRUE
    /\ place' = [at |-> Aligned(rect["filter"].at), size |-> DefaultSize]
    /\ asked' = [at |-> Aligned(asked.at), size |-> DefaultSize]
    /\ Depends("filter", "place") /\ Overtakes("filter", "place")
    /\ UNCHANGED <<connected, m_hwndOwner, visible, shown, bVisible, wanted>>

PerformanceAlignWindow ==
    /\ m_bActivated /\ Looks("filter", "idle", "align") /\ Reads("filter")
    /\ UNCHANGED <<connected, m_hwndOwner, m_bActivated, settled, bVisible, wanted>>

\* Not for a window that has a parent.
AlignOwner ==
    /\ IF m_hwndOwner THEN Returns("filter", "align")
       ELSE Goes("filter", "align", "alignAt") /\ UNCHANGED rect
    /\ UNCHANGED <<connected, m_hwndOwner, m_bActivated, settled, bVisible, wanted, overtaken>>

AlignAt ==
    /\ Returns("filter", "alignAt")
    /\ place' = [place EXCEPT !.at = Aligned(rect["filter"].at)]
    /\ asked' = [asked EXCEPT !.at = Aligned(asked.at)]
    /\ Depends("filter", "place") /\ Overtakes("filter", "place")
    /\ UNCHANGED <<connected, m_hwndOwner, m_bActivated, visible, shown, bVisible, wanted>>

InactivateWindow ==
    /\ m_bActivated /\ pc["filter"] = "idle" /\ m_bActivated' = FALSE
    /\ ShowWindow(FALSE) /\ Overtakes("filter", "visible")
    /\ UNCHANGED <<connected, m_hwndOwner, place, asked, pc, rect, bVisible, wanted>>

Next ==
    \/ \E i \in Axes : \/ \E value \in Coordinates : PutEdge("at", i, value)
                       \/ \E value \in Sizes : PutEdge("size", i, value)
    \/ MapRect \/ SetEdge
    \/ \E r \in Places : SetWindowPosition(r)
    \/ \E b \in BOOLEAN : PutOwner(b) \/ PutVisible(b) \/ PutWindowStyleEx(b)
    \/ PutWindowStyle \/ SeeVisible \/ SeeRect \/ ShowStyled
    \/ MoveAside \/ ShowAside \/ MoveBack \/ OnClose
    \/ CompleteConnect \/ Disconnect \/ InactivateWindow
    \/ ActivateWindow \/ ActivateRect \/ ActivateAt
    \/ PerformanceAlignWindow \/ AlignOwner \/ AlignAt

Spec == Init /\ [][Next]_vars
-----------------------------------------------------------------------------
\* The window is where the application put it and of the size it asked for, aligned
\* by the filter, whatever styles and parents were set in between, unless a caller
\* placed it from a rectangle that had become old. A window that was shown last is
\* visible, whatever comes between; and one that was hidden last is visible only off
\* the screen, or because it was hidden while its style was set (winctrl.cpp lines
\* 157 to 284 and 438 to 693, winutil.cpp lines 206 to 304).
WindowAsAsked ==
    /\ place = asked \/ "place" \in lost
       \/ pc["application"] \in {"aside", "shown", "hidden", "moveBack"}
    /\ shown => visible
    /\ visible => shown \/ pc["application"] = "shown" \/ "visible" \in lost
=============================================================================
