----------------------------- MODULE SinkFilter -----------------------------
(***************************************************************************)
(* CVirtualStreamSink: its list of input pins, its state, and the control  *)
(* pipe on which a server thread tells each client which pins there are    *)
(* (the catalogue), one message per connected pin and an empty one to end. *)
(*                                                                         *)
(*   - the application thread connects and disconnects pins, changes the   *)
(*     state and renames the stream; Pause and Run restart the server;     *)
(*     a rename deletes pins and forgets others, connected or not;         *)
(*   - the server thread is InstanceThread with PipeOutMediaTypes: it      *)
(*     takes no lock, and may come upon a pin that has been deleted;       *)
(*   - the client is the source filter of another process.                 *)
(***************************************************************************)
EXTENDS NamedPipe, FiniteSets, SequencesExt

CONSTANTS MaxPins,       \* bound: pins ever created
          PipeCapacity,  \* bound: messages the control pipe's buffer holds
          Renames        \* may SetStreamName be called

Pins == 1..MaxPins
Messages == Pins \cup {0}       \* a pin's description; 0: the empty message
EndMessage == 0

VARIABLES
    m_State,         \* the filter's state
    m_pinList,       \* the pins, in the order they were added
    nextPin,         \* pins created so far
    live,            \* pin objects not deleted
    connected,       \* pins with a connection
    active,          \* pins told of the active state and not of its end
    m_pAllocator,    \* the pin whose allocator the filter holds, 0: NULL
    orphaned,        \* pins deleted under their connection: the peer still has it
    pcApp,           \* the application thread
    after,           \* what it does once StopServer has returned
    renameAt,        \* the loop index of SetStreamName
    m_hPipe,         \* "null" or "open"
    pipe,            \* the control pipe
    m_bServerRunning, m_bConnected,
    pcServer, i, cur,  \* the server thread, its loop index and its pin
    got,             \* the client: messages read while it has the pipe open
    stable,          \* history: pins of the list connected since this catalogue began
    renamed          \* history: the list was cut short since this catalogue began

pinVars    == <<m_pinList, nextPin, live, connected, active, m_pAllocator, orphaned>>
appVars    == <<m_State, pcApp, after, renameAt>>
history    == <<stable, renamed>>
serverVars == <<m_bServerRunning, m_bConnected, pcServer, i, cur>>
vars == <<pinVars, appVars, m_hPipe, pipe, serverVars, got, history>>

Listed == {m_pinList[k] : k \in DOMAIN m_pinList}

\* The constructor has added the first pin.
Init ==
    /\ m_State = "stopped" /\ m_pinList = <<1>> /\ nextPin = 1 /\ live = {1}
    /\ connected = {} /\ active = {} /\ m_pAllocator = 0 /\ orphaned = {}
    /\ pcApp = "idle" /\ after = "none" /\ renameAt = 0
    /\ m_hPipe = "null" /\ pipe = NoPipe
    /\ m_bServerRunning = FALSE /\ m_bConnected = FALSE
    /\ pcServer = "none" /\ i = 0 /\ cur = 0
    /\ got = << >> /\ stable = {} /\ renamed = FALSE
-----------------------------------------------------------------------------
\* The application thread: pins.

AppReady == pcApp = "idle"

\* AddInputPin, with the connected pins as they are by then.
AddInputPin(list, conn) ==
    IF \E k \in DOMAIN list : list[k] \notin conn
    THEN UNCHANGED <<m_pinList, nextPin, live>>
    ELSE /\ nextPin < MaxPins
         /\ nextPin' = nextPin + 1
         /\ m_pinList' = Append(list, nextPin + 1)
         /\ live' = live \cup {nextPin + 1}

\* A connection completes: NotifyAllocator has stored the pin's allocator in
\* the filter, CompleteConnect adds a pin for the next connection.  A pin that a
\* rename forgot can be connected by who still has it.
Connect(p) ==
    /\ AppReady /\ m_State = "stopped" /\ p \in live /\ p \notin connected
    /\ connected' = connected \cup {p}
    /\ m_pAllocator' = p
    /\ AddInputPin(m_pinList, connected')
    /\ UNCHANGED <<active, orphaned, appVars, m_hPipe, pipe, serverVars, got, history>>

\* Fault: the filter keeps the allocator of a pin that disconnects.
DisconnectKeepsAllocator(p) ==
    /\ AppReady /\ m_State = "stopped" /\ p \in connected
    /\ connected' = connected \ {p} /\ stable' = stable \ {p}
    /\ UNCHANGED <<m_pinList, nextPin, live, active, m_pAllocator, orphaned, appVars,
                   m_hPipe, pipe, serverVars, got, renamed>>

\* BreakConnect releases the filter's allocator, whichever pin's it is.
Disconnect(p) ==
    /\ AppReady /\ m_State = "stopped" /\ p \in connected
    /\ connected' = connected \ {p} /\ stable' = stable \ {p}
    /\ m_pAllocator' = 0
    /\ UNCHANGED <<m_pinList, nextPin, live, active, orphaned, appVars, m_hPipe, pipe,
                   serverVars, got, renamed>>

\* SetStreamName, in any state and whatever is connected.  It takes no lock.
SetStreamName ==
    /\ Renames /\ AppReady /\ nextPin < MaxPins
    /\ pcApp' = "rename" /\ renameAt' = 1
    /\ UNCHANGED <<pinVars, m_State, after, m_hPipe, pipe, serverVars, got, history>>

RenameUnchanged == <<m_State, m_hPipe, pipe, serverVars, got>>

\* RemovePin deletes the pin, connected or not; the filter goes on holding an
\* allocator of it.
RenameDelete ==
    /\ pcApp = "rename" /\ renameAt <= Len(m_pinList)
    /\ LET p == m_pinList[renameAt]
       IN  /\ live' = live \ {p} /\ connected' = connected \ {p} /\ active' = active \ {p}
           /\ stable' = stable \ {p}
           /\ orphaned' = IF p \in connected THEN orphaned \cup {p} ELSE orphaned
    /\ pcApp' = "erase"
    /\ UNCHANGED <<RenameUnchanged, m_pinList, nextPin, m_pAllocator, after, renameAt,
                   renamed>>

\* It takes the pin out of the list, the loop's index goes on: the next pin is
\* passed over.
RenameErase ==
    /\ pcApp = "erase"
    /\ m_pinList' = RemoveAt(m_pinList, renameAt) /\ renamed' = TRUE
    /\ renameAt' = renameAt + 1 /\ pcApp' = "rename"
    /\ UNCHANGED <<RenameUnchanged, nextPin, live, connected, active, m_pAllocator,
                   orphaned, after, stable>>

\* The pins passed over are forgotten, as they are.
RenameClear ==
    /\ pcApp = "rename" /\ renameAt > Len(m_pinList)
    /\ m_pinList' = << >> /\ renamed' = TRUE /\ pcApp' = "renameAdd"
    /\ UNCHANGED <<RenameUnchanged, nextPin, live, connected, active, m_pAllocator,
                   orphaned, after, renameAt, stable>>

\* A new pin, and a pipe if there is none.
RenameAdd ==
    /\ pcApp = "renameAdd"
    /\ AddInputPin(m_pinList, connected)
    /\ pcApp' = IF m_hPipe = "null" THEN "create" ELSE "idle"
    /\ after' = "none" /\ renameAt' = 0
    /\ UNCHANGED <<RenameUnchanged, connected, active, m_pAllocator, orphaned, history>>

Renaming == RenameDelete \/ RenameErase \/ RenameClear \/ RenameAdd
-----------------------------------------------------------------------------
\* The application thread: states.  InitializePipe is "stop" (StopServer, when
\* there is a pipe), then "create".

InitializePipe(goal) ==
    /\ after' = goal
    /\ IF m_hPipe = "null"
       THEN pcApp' = "create" /\ UNCHANGED m_bServerRunning
       ELSE pcApp' = "open" /\ m_bServerRunning' = FALSE

\* CBaseFilter::Pause activates the connected pins, then the pipe is made anew.
Pause ==
    /\ AppReady
    /\ m_State' = "paused"
    /\ active' = IF m_State = "stopped" THEN active \cup connected ELSE active
    /\ InitializePipe("none")
    /\ UNCHANGED <<m_pinList, nextPin, live, connected, m_pAllocator, orphaned, renameAt,
                   m_hPipe, pipe, m_bConnected, pcServer, i, cur, got, history>>

\* Run makes a pipe if there is none; from the stopped state CBaseFilter::Run
\* calls Pause, which makes it again.
Run ==
    /\ AppReady /\ m_State # "running"
    /\ IF m_hPipe = "null"
       THEN pcApp' = "create" /\ after' = "run"
       ELSE pcApp' = "run" /\ UNCHANGED after
    /\ UNCHANGED <<pinVars, m_State, renameAt, m_hPipe, pipe, serverVars, got, history>>

RunPauses ==
    /\ pcApp = "run" /\ m_State = "stopped"
    /\ m_State' = "paused" /\ active' = active \cup connected
    /\ InitializePipe("run")
    /\ UNCHANGED <<m_pinList, nextPin, live, connected, m_pAllocator, orphaned, renameAt,
                   m_hPipe, pipe, m_bConnected, pcServer, i, cur, got, history>>

RunRuns ==
    /\ pcApp = "run" /\ m_State # "stopped"
    /\ m_State' = "running" /\ pcApp' = "idle" /\ after' = "none"
    /\ UNCHANGED <<pinVars, renameAt, m_hPipe, pipe, serverVars, got, history>>

\* m_State is set before CBaseFilter::Stop looks at it: no pin is told, and the
\* server goes on.
Stop ==
    /\ AppReady /\ m_State # "stopped"
    /\ m_State' = "stopped"
    /\ UNCHANGED <<pinVars, pcApp, after, renameAt, m_hPipe, pipe, serverVars, got, history>>

\* The destructor deletes the pins of the list before it stops the server.  It comes
\* with the last reference, and who is connected has one, to a deleted pin too.
Delete ==
    /\ AppReady /\ m_State = "stopped" /\ connected = {} /\ orphaned = {}
    /\ live' = live \ Listed
    /\ IF m_hPipe = "null"
       THEN pcApp' = "gone" /\ UNCHANGED <<after, m_bServerRunning>>
       ELSE pcApp' = "open" /\ after' = "gone" /\ m_bServerRunning' = FALSE
    /\ UNCHANGED <<m_State, m_pinList, nextPin, connected, active, m_pAllocator, orphaned,
                   renameAt, m_hPipe, pipe, m_bConnected, pcServer, i, cur, got, history>>
-----------------------------------------------------------------------------
\* StopServer, and the rest of InitializePipe.

AppUnchanged == <<pinVars, m_State, renameAt, got, history>>

StopOpen ==
    /\ pcApp = "open"
    /\ IF CanOpen(pipe) THEN pipe' = Opened("self") /\ pcApp' = "close"
                        ELSE UNCHANGED pipe /\ pcApp' = "wait"
    /\ UNCHANGED <<AppUnchanged, after, m_hPipe, serverVars>>

StopClose ==
    /\ pcApp = "close"
    /\ pipe' = ClientClosed /\ pcApp' = "wait"
    /\ UNCHANGED <<AppUnchanged, after, m_hPipe, serverVars>>

StopServerGone ==
    /\ pcApp = "wait" /\ pcServer = "none"
    /\ pcApp' = "closeHandle"
    /\ UNCHANGED <<AppUnchanged, after, m_hPipe, pipe, serverVars>>

\* Ten seconds are not enough for a thread that waits for a client, for one
\* that started after m_bServerRunning was cleared, and for one whose client
\* does not read.
ServerStuck ==
    \/ pcServer = "accept" /\ pipe.state = "listening"
    \/ pcServer # "start" /\ m_bServerRunning
    \/ pcServer \in {"write", "end"} /\ WriteBlocked(pipe, PipeCapacity)
    \/ pcServer = "flush" /\ pipe.state = "connected" /\ pipe.queue # << >>

\* What PipeOutMediaTypes keeps for one catalogue is its own.
CatalogueOver == i' = 0 /\ cur' = 0 /\ stable' = {}

\* Fault: the wait for the thread has no end.
StopNeverTimesOut == StopServerGone

StopTimeout ==
    /\ pcApp = "wait" /\ pcServer # "none" /\ ServerStuck
    /\ pcServer' = "none" /\ CatalogueOver /\ pcApp' = "closeHandle"
    /\ UNCHANGED <<pinVars, m_State, renameAt, got, after, m_hPipe, pipe, m_bServerRunning,
                   m_bConnected, renamed>>

\* DisconnectNamedPipe and CloseHandle; the destructor ends here.
StopCloseHandle ==
    /\ pcApp = "closeHandle"
    /\ pipe' = NoPipe /\ m_hPipe' = "null"
    /\ IF after = "gone" THEN pcApp' = "gone" ELSE pcApp' = "create"
    /\ UNCHANGED <<AppUnchanged, after, serverVars>>

\* CreateNamedPipe and CreateThread.
CreatePipe ==
    /\ pcApp = "create"
    /\ pipe' = Listening /\ m_hPipe' = "open"
    /\ pcServer' = "start"
    /\ pcApp' = IF after = "run" THEN "run" ELSE "idle"
    /\ UNCHANGED <<AppUnchanged, after, m_bServerRunning, m_bConnected, i, cur>>
-----------------------------------------------------------------------------
\* The server thread.

ServerUnchanged == <<pinVars, appVars, m_hPipe, got>>

ServerStart ==
    /\ pcServer = "start" /\ pcServer' = "loop"
    /\ m_bServerRunning' = TRUE /\ m_bConnected' = FALSE
    /\ UNCHANGED <<ServerUnchanged, pipe, i, cur, history>>

ServerLoop ==
    /\ pcServer = "loop"
    /\ pcServer' = IF m_bServerRunning THEN "listen" ELSE "exit"
    /\ UNCHANGED <<ServerUnchanged, pipe, m_bServerRunning, m_bConnected, i, cur, history>>

\* ConnectNamedPipe: a client that has come already is taken, one that has left
\* already makes the call fail, otherwise it blocks.
ServerListen ==
    /\ pcServer = "listen"
    /\ CASE pipe.state = "connected" ->
              pcServer' = "serve" /\ m_bConnected' = TRUE /\ UNCHANGED pipe
         [] pipe.state \in {"closing", "none"} ->
              pcServer' = "serve" /\ m_bConnected' = FALSE /\ UNCHANGED pipe
         [] OTHER ->
              pcServer' = "accept" /\ pipe' = Listening /\ UNCHANGED m_bConnected
    /\ UNCHANGED <<ServerUnchanged, m_bServerRunning, i, cur, history>>

ServerAccepted ==
    /\ pcServer = "accept" /\ pipe.state \in {"connected", "closing"}
    /\ pcServer' = "serve" /\ m_bConnected' = TRUE
    /\ UNCHANGED <<ServerUnchanged, pipe, m_bServerRunning, i, cur, history>>

\* Either the catalogue, or a nap of a quarter of a second, or the end.
ServerServe ==
    /\ pcServer = "serve"
    /\ IF m_bConnected /\ m_bServerRunning
       THEN pcServer' = "list" /\ i' = 1 /\ stable' = connected \cap Listed /\ renamed' = FALSE
       ELSE pcServer' = "loop" /\ UNCHANGED <<i, history>>
    /\ UNCHANGED <<ServerUnchanged, pipe, m_bServerRunning, m_bConnected, cur>>

\* The loop's condition.
ServerList ==
    /\ pcServer = "list"
    /\ pcServer' = IF i <= Len(m_pinList) THEN "item" ELSE "end"
    /\ UNCHANGED <<ServerUnchanged, pipe, m_bServerRunning, m_bConnected, i, cur, history>>

\* m_pinList[i], without a lock: when the list has become too short, whatever pin
\* was there.
ServerItem ==
    /\ pcServer = "item" /\ pcServer' = "pin"
    /\ IF i <= Len(m_pinList) THEN cur' = m_pinList[i] ELSE cur' \in 1..nextPin
    /\ UNCHANGED <<ServerUnchanged, pipe, m_bServerRunning, m_bConnected, i, history>>

\* Fault: the first unconnected pin ends the catalogue.
ServerPinStops ==
    /\ pcServer = "pin"
    /\ IF cur \in connected THEN pcServer' = "write" ELSE pcServer' = "end"
    /\ UNCHANGED <<ServerUnchanged, pipe, m_bServerRunning, m_bConnected, i, cur, history>>

\* Only a connected pin is described.  What is read of a pin that was deleted may
\* look connected or not.
ServerPin ==
    /\ pcServer = "pin"
    /\ \/ /\ cur \in connected \/ cur \notin live
          /\ pcServer' = "write" /\ UNCHANGED i
       \/ /\ cur \notin connected
          /\ pcServer' = "list" /\ i' = i + 1
    /\ UNCHANGED <<ServerUnchanged, pipe, m_bServerRunning, m_bConnected, cur, history>>

\* WriteFile of a description; its result is not looked at.
ServerWrite ==
    /\ pcServer = "write" /\ ~WriteBlocked(pipe, PipeCapacity)
    /\ pipe' = IF WriteFails(pipe) THEN pipe ELSE Written(pipe, cur)
    /\ pcServer' = "list" /\ i' = i + 1
    /\ UNCHANGED <<ServerUnchanged, m_bServerRunning, m_bConnected, cur, history>>

ServerEnd ==
    /\ pcServer = "end" /\ ~WriteBlocked(pipe, PipeCapacity)
    /\ pipe' = IF WriteFails(pipe) THEN pipe ELSE Written(pipe, EndMessage)
    /\ pcServer' = "flush"
    /\ UNCHANGED <<ServerUnchanged, m_bServerRunning, m_bConnected, i, cur, history>>

\* FlushFileBuffers waits for the client to read, then it is disconnected.
ServerFlush ==
    /\ pcServer = "flush"
    /\ pipe.state = "connected" => pipe.queue = << >>
    /\ pipe' = Disconnected /\ CatalogueOver
    /\ pcServer' = "loop"
    /\ UNCHANGED <<ServerUnchanged, m_bServerRunning, m_bConnected, renamed>>

ServerExit ==
    /\ pcServer = "exit" /\ pcServer' = "none"
    /\ m_bServerRunning' = FALSE /\ m_bConnected' = FALSE
    /\ UNCHANGED <<ServerUnchanged, pipe, i, cur, history>>
-----------------------------------------------------------------------------
\* The client.

ClientUnchanged == <<pinVars, appVars, m_hPipe, serverVars, history>>

ClientOpen ==
    /\ CanOpen(pipe)
    /\ pipe' = Opened("source") /\ got' = << >>
    /\ UNCHANGED ClientUnchanged

ClientRead ==
    /\ pipe.client = "source" /\ pipe.queue # << >>
    /\ pipe' = ReadMsg(pipe) /\ got' = Append(got, Head(pipe.queue))
    /\ UNCHANGED ClientUnchanged

ClientClose ==
    /\ pipe.client = "source"
    /\ pipe' = ClientClosed /\ got' = << >>
    /\ UNCHANGED ClientUnchanged
-----------------------------------------------------------------------------
Server == \/ ServerStart \/ ServerLoop \/ ServerListen \/ ServerAccepted \/ ServerServe
          \/ ServerList \/ ServerItem \/ ServerPin \/ ServerWrite \/ ServerEnd
          \/ ServerFlush \/ ServerExit

Stopping == StopOpen \/ StopClose \/ StopServerGone \/ StopTimeout \/ StopCloseHandle
            \/ CreatePipe \/ RunPauses \/ RunRuns

Next == \/ \E p \in Pins : Connect(p) \/ Disconnect(p)
        \/ SetStreamName \/ Pause \/ Run \/ Stop \/ Delete
        \/ Renaming \/ Stopping \/ Server
        \/ ClientOpen \/ ClientRead \/ ClientClose

Spec == Init /\ [][Next]_vars

\* Threads that can run do; a client reads what there is.
Fairness == WF_vars(Renaming) /\ WF_vars(Stopping) /\ WF_vars(Server) /\ WF_vars(ClientRead)
FairSpec == Spec /\ Fairness
-----------------------------------------------------------------------------
\* StopServer closes the control pipe's handle, and the destructor ends, only
\* when no server thread is left that could use them.
ServerOwnsPipe == pcServer # "none" => m_hPipe = "open" /\ pcApp # "gone"

\* The allocator the filter holds for all its pins is that of a connection nobody
\* broke: of a connected pin, or of one that a rename deleted under its connection
\* and that no Disconnect of another pin has released since
\* (VirtualStreamSinkInputPin.cpp lines 80 to 130, VirtualStreamSink.h lines 77 to 93).
AllocatorOfConnectedPin == m_pAllocator # 0 => m_pAllocator \in connected \cup orphaned

\* A client that has read the end of the catalogue has read every pin of the list that
\* was connected all the while, once and in the order of the list, from a server whose
\* pipe is not closed under it, unless the stream is renamed in the middle: that cuts
\* the list short, and the server may read past its end or from a deleted pin
\* (VirtualStreamSink.cpp lines 290 to 330 and 400 to 440).
CatalogueComplete ==
    /\ ServerOwnsPipe
    /\ pipe.client = "source" /\ ~renamed =>
           /\ \A a, b \in DOMAIN got : a < b /\ got[b] # EndMessage => got[a] < got[b]
           /\ \A a \in DOMAIN got : got[a] = EndMessage =>
                  /\ a = Len(got)
                  /\ pcServer = "flush" => stable \subseteq {got[k] : k \in DOMAIN got}

\* Pause, Run, SetStreamName and the destructor come back, whatever the server is at.
CallsReturn == pcApp # "idle" ~> pcApp \in {"idle", "gone"}
=============================================================================
