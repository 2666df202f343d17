----------------------------- MODULE BaseWindow -----------------------------
(***************************************************************************)
(* CBaseWindow: a window that belongs to one thread and is used by others. *)
(*                                                                         *)
(*   window   the thread that created the window and dispatches messages   *)
(*   app      sets and removes the palette, shows and destroys the window  *)
(*   renderer realises the palette itself (DoRealisePalette is public)     *)
(*   others   the other windows of the system, which change the palette    *)
(*                                                                         *)
(* SendMessage waits until the window's thread has handled the message.    *)
(* RealizePalette sends WM_PALETTECHANGED to every window and waits for    *)
(* each; a thread that waits so handles messages sent to its windows, but  *)
(* no posted ones.  "stack" holds what the window's thread is in the       *)
(* middle of.  "destroy" stands for MsgDestroy, "realize" for              *)
(* m_RealizePalette, "show" for m_ShowStageMessage.                        *)
(*                                                                         *)
(* A window is constructed to be destroyed by a message that is posted, or *)
(* by one that is sent, which is the default.                              *)
(***************************************************************************)
EXTENDS Naturals, Sequences

CONSTANTS MaxWindows,    \* bound: windows created
          MaxChanges     \* bound: palette changes by other windows

VARIABLES
    m_hwnd, m_hdc, m_MemoryDC, visible, m_hPalette, m_bNoRealize,
    m_bDoPostToDestroy,           \* how it was constructed
    m_PaletteLock,                \* who holds it, or "free"
    sent, posted,                 \* messages to the window
    stack,                        \* the window's thread
    pcApp, pcRenderer,
    m_evDone,                     \* the event, or the answer to the message sent instead
    windows, freed, changes       \* observed: windows and DCs so far

window   == <<m_hwnd, m_hdc, m_MemoryDC, visible>>
palette  == <<m_hPalette, m_bNoRealize, m_PaletteLock, m_bDoPostToDestroy>>
messages == <<sent, posted>>
app      == <<pcApp, m_evDone>>
observed == <<windows, freed, changes>>
vars == <<window, palette, messages, stack, app, pcRenderer, observed>>

Message(kind, from) == [kind |-> kind, from |-> from]
Frame(at, from, foreground) == [at |-> at, from |-> from, foreground |-> foreground]

Init ==
    /\ m_hwnd = FALSE /\ m_hdc = FALSE /\ m_MemoryDC = FALSE /\ visible = FALSE
    /\ m_hPalette = FALSE /\ m_bNoRealize \in BOOLEAN /\ m_PaletteLock = "free"
    /\ m_bDoPostToDestroy \in BOOLEAN
    /\ sent = << >> /\ posted = << >> /\ stack = << >>
    /\ pcApp = "idle" /\ m_evDone = FALSE /\ pcRenderer = "idle"
    /\ windows = 0 /\ freed = 0 /\ changes = 0
-----------------------------------------------------------------------------
\* The window's thread.

\* PrepareWindow, DoCreateWindow and InitialiseWindow.
PrepareWindow ==
    /\ ~m_hwnd /\ stack = << >> /\ pcApp = "idle" /\ windows < MaxWindows
    /\ m_hwnd' = TRUE /\ m_hdc' = TRUE /\ m_MemoryDC' = TRUE /\ windows' = windows + 1
    /\ UNCHANGED <<visible, palette, messages, stack, app, pcRenderer, freed, changes>>

\* The sender of a message goes on.
Reply(from) ==
    /\ pcApp' = IF from = "app" THEN "idle" ELSE pcApp
    /\ pcRenderer' = IF from = "renderer" THEN "replied" ELSE pcRenderer

Answered(from) == Reply(from) /\ UNCHANGED <<window, stack, freed, m_evDone>>

\* OnPaletteChange: nothing during close down, for a window that is not visible,
\* or when it has changed the palette itself.
OnPaletteChange(m) ==
    IF m_hwnd /\ visible /\ m.from # "renderer"
    THEN /\ stack' = Append(stack, Frame("select", m.from, m.kind = "realize"))
         /\ UNCHANGED <<window, app, pcRenderer, freed>>
    ELSE Answered(m.from)

OnShowStage(m) ==
    /\ visible' = TRUE /\ Reply(m.from)
    /\ UNCHANGED <<m_hwnd, m_hdc, m_MemoryDC, stack, freed, m_evDone>>

\* DoneWithWindow on the window's thread: InactivateWindow, UninitialiseWindow and
\* DestroyWindow.  Messages sent to a destroyed window return at once.
Senders == {sent[i].from : i \in DOMAIN sent}

OnDestroy(m) ==
    /\ visible' = FALSE /\ m_hwnd' = FALSE /\ m_hdc' = FALSE /\ m_MemoryDC' = FALSE
    /\ freed' = (IF m_MemoryDC THEN freed + 1 ELSE freed)
    /\ m_evDone' = TRUE
    /\ pcRenderer' = (IF "renderer" \in Senders THEN "replied" ELSE pcRenderer)
    /\ UNCHANGED <<stack, pcApp>>

Handle(m) ==
    \/ m.kind \in {"realize", "changed"} /\ OnPaletteChange(m)
    \/ m.kind = "show" /\ OnShowStage(m)
    \/ m.kind = "destroy" /\ OnDestroy(m)

Top == stack[Len(stack)]
Waiting == IF stack = << >> THEN TRUE ELSE Top.at = "realizing"

\* Sent messages are handled before posted ones and while the thread waits.
HandleSent ==
    /\ sent # << >> /\ Waiting /\ Handle(Head(sent))
    /\ sent' = (IF m_hwnd' THEN Tail(sent) ELSE << >>)
    /\ posted' = (IF m_hwnd' THEN posted ELSE << >>)
    /\ UNCHANGED <<palette, windows, changes>>

HandlePosted ==
    /\ sent = << >> /\ posted # << >> /\ stack = << >> /\ Handle(Head(posted))
    /\ posted' = (IF m_hwnd' THEN Tail(posted) ELSE << >>)
    /\ UNCHANGED <<sent, palette, windows, changes>>

\* DoRealisePalette: the palette is selected under the palette lock, and realised
\* without it; in the background nobody is told.
SelectPalette ==
    /\ stack # << >> /\ Top.at = "select" /\ m_PaletteLock = "free"
    /\ IF m_hPalette
       THEN /\ stack' = [stack EXCEPT ![Len(stack)].at =
                                          IF Top.foreground THEN "realizing" ELSE "realized"]
            /\ UNCHANGED <<pcApp, pcRenderer>>
       ELSE stack' = SubSeq(stack, 1, Len(stack) - 1) /\ Reply(Top.from)
    /\ UNCHANGED <<window, palette, messages, m_evDone, observed>>

OthersReply ==
    /\ stack # << >> /\ Top.at = "realizing"
    /\ stack' = [stack EXCEPT ![Len(stack)].at = "realized"]
    /\ UNCHANGED <<window, palette, messages, app, pcRenderer, observed>>

Realized ==
    /\ stack # << >> /\ Top.at = "realized"
    /\ stack' = SubSeq(stack, 1, Len(stack) - 1) /\ Reply(Top.from)
    /\ UNCHANGED <<window, palette, messages, m_evDone, observed>>
-----------------------------------------------------------------------------
\* The other threads.  Another window changes the palette and waits for this one.
OthersChange ==
    /\ m_hwnd /\ changes < MaxChanges /\ changes' = changes + 1
    /\ sent' = Append(sent, Message("changed", "others"))
    /\ UNCHANGED <<window, palette, posted, stack, app, pcRenderer, windows, freed>>

Send(kind) == sent' = Append(sent, Message(kind, "app")) /\ pcApp' = "sent" /\ UNCHANGED posted

\* SetPalette: the palette is changed under both locks, and realised by the
\* window's thread without them - or only selected, when told not to realise.
SetPalette ==
    /\ pcApp = "idle" /\ m_hwnd /\ m_PaletteLock = "free" /\ m_hPalette' = TRUE
    /\ IF m_bNoRealize THEN UNCHANGED <<messages, pcApp>> ELSE Send("realize")
    /\ UNCHANGED <<window, m_bNoRealize, m_PaletteLock, m_bDoPostToDestroy, stack, m_evDone,
                   pcRenderer, observed>>

UnsetPalette ==
    /\ pcApp = "idle" /\ m_hwnd /\ m_PaletteLock = "free"
    /\ m_hPalette /\ m_hPalette' = FALSE
    /\ UNCHANGED <<window, m_bNoRealize, m_PaletteLock, m_bDoPostToDestroy, messages, stack, app,
                   pcRenderer, observed>>

DoSetWindowForeground ==
    /\ pcApp = "idle" /\ m_hwnd /\ Send("show")
    /\ UNCHANGED <<window, palette, stack, m_evDone, pcRenderer, observed>>

\* put_BackgroundPalette has the palette realised again, and does not wait.
PutBackgroundPalette ==
    /\ pcApp = "idle" /\ m_hwnd /\ posted = << >>
    /\ posted' = <<Message("realize", "nobody")>>
    /\ UNCHANGED <<window, palette, sent, stack, app, pcRenderer, observed>>

\* DoneWithWindow from another thread.  It posts a message, so that the window's
\* thread is not in the middle of one, and waits for the event; or it sends one, which
\* may be handled in the middle of another.
DestroyPosted ==
    m_bDoPostToDestroy /\ posted' = Append(posted, Message("destroy", "app")) /\ UNCHANGED sent

DestroySent ==
    ~m_bDoPostToDestroy /\ sent' = Append(sent, Message("destroy", "app")) /\ UNCHANGED posted

DoneWithWindow ==
    /\ pcApp = "idle" /\ m_hwnd /\ pcRenderer = "idle"
    /\ pcApp' = "done" /\ m_evDone' = FALSE /\ (DestroyPosted \/ DestroySent)
    /\ UNCHANGED <<window, palette, stack, pcRenderer, observed>>

DoneReturns ==
    /\ pcApp = "done" /\ m_evDone /\ pcApp' = "idle"
    /\ freed' = (IF m_MemoryDC THEN freed + 1 ELSE freed)
    /\ m_hwnd' = FALSE /\ m_hdc' = FALSE /\ m_MemoryDC' = FALSE
    /\ UNCHANGED <<visible, palette, messages, stack, m_evDone, pcRenderer, windows, changes>>

\* Fault: the palette lock is held while the palette is realised.
RealiseLocked ==
    /\ pcRenderer = "idle" /\ pcApp # "done" /\ m_hwnd /\ m_hPalette /\ m_PaletteLock = "free"
    /\ m_PaletteLock' = "renderer" /\ pcRenderer' = "realizing"
    /\ sent' = Append(sent, Message("changed", "renderer"))
    /\ UNCHANGED <<window, m_hPalette, m_bNoRealize, m_bDoPostToDestroy, posted, stack, app,
                   observed>>

\* DoRealisePalette on the renderer's thread, which is at rest by the time the
\* window is destroyed.
DoRealisePalette ==
    /\ pcRenderer = "idle" /\ pcApp # "done" /\ m_hwnd /\ m_hPalette /\ m_PaletteLock = "free"
    /\ pcRenderer' = "realizing"
    /\ sent' = Append(sent, Message("changed", "renderer"))
    /\ UNCHANGED <<window, palette, posted, stack, app, observed>>

RealiseReturns ==
    /\ pcRenderer = "replied" /\ pcRenderer' = "idle" /\ m_PaletteLock' = "free"
    /\ UNCHANGED <<window, m_hPalette, m_bNoRealize, m_bDoPostToDestroy, messages, stack, app,
                   observed>>
-----------------------------------------------------------------------------
WindowThread == HandleSent \/ HandlePosted \/ SelectPalette \/ Realized
App == SetPalette \/ UnsetPalette \/ DoSetWindowForeground \/ PutBackgroundPalette
       \/ DoneWithWindow
Next == \/ PrepareWindow \/ WindowThread \/ OthersReply \/ OthersChange
        \/ App \/ DoneReturns \/ DoRealisePalette \/ RealiseReturns

\* The window's thread runs and dispatches, other windows answer, and a thread goes
\* on when the call it waits for has returned.
Fairness == /\ WF_vars(WindowThread) /\ WF_vars(OthersReply)
            /\ WF_vars(DoneReturns) /\ WF_vars(RealiseReturns)
Spec == Init /\ [][Next]_vars /\ Fairness
-----------------------------------------------------------------------------
\* A palette is not selected into a window that is gone, nor is one realised by the
\* renderer; and where the message to destroy it is posted, the window's thread is not
\* in the middle of anything when it is destroyed (winutil.cpp lines 123 to 139 and 376
\* to 411).
There == m_hwnd /\ m_hdc /\ m_MemoryDC

NotDestroyedInUse ==
    /\ pcRenderer = "realizing" => There
    /\ \A i \in DOMAIN stack : stack[i].at = "select" \/ m_bDoPostToDestroy => There

\* The memory DC of each window is deleted once, by whichever thread, and nothing is
\* left when DoneWithWindow has returned (lines 142 to 196 and 510 to 540).
DCsDeletedOnce ==
    /\ m_hdc <=> m_hwnd
    /\ windows = freed + IF m_MemoryDC THEN 1 ELSE 0

\* Calls into the window's thread return, the application's and the renderer's, though
\* each side may be waiting for the other when it is called (lines 313 to 411).
AppWaits == pcApp # "idle"
RendererWaits == pcRenderer # "idle"
=============================================================================
