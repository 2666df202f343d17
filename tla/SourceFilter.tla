---------------------------- MODULE SourceFilter ----------------------------
(***************************************************************************)
(* CVirtualStreamSource and CSource: the pins of the source filter, which  *)
(* CreateOutputPins makes from the catalogue it reads on a control pipe.   *)
(*                                                                         *)
(*   - the creating thread is the constructor's or SetStreamName's caller; *)
(*   - the looking thread is another caller of the filter, in FindPin;     *)
(*   - the sink at the other end of the pipe is seen from here: it comes   *)
(*     and goes, serves others, writes a catalogue, and may end at any     *)
(*     point (SinkFilter is its own specification).                        *)
(*                                                                         *)
(* CSource's methods take the filter's lock, except RemovePin.  A caller   *)
(* of FindPin that finds the array gone, or a pin deleted, may end the     *)
(* process with an access violation.                                       *)
(***************************************************************************)
EXTENDS NamedPipe, SequencesExt

CONSTANTS MaxPins,       \* bound: pins ever created
          MaxCatalogue,  \* bound: pins a sink describes
          MaxBusy        \* bound: times another client gets in first

ASSUME BoundsAssumption == MaxPins \in Nat /\ MaxCatalogue \in Nat

Pins == 1..MaxPins
NULL == 0

\* A catalogue tells for each pin whether its description is longer than the
\* buffer it will be read into; message k describes pin k, 0 is the empty one.
Catalogues == UNION {[1..n -> BOOLEAN] : n \in 0..MaxCatalogue}
Messages == 0..MaxCatalogue

VARIABLES
    m_pinList,        \* the derived class's pins
    m_paStreams,      \* CSource's array; << >> also stands for NULL
    m_iPins,          \* and its length, kept apart from it
    live, nextPin,    \* pins not deleted, pins created
    described,        \* what the live pins were made from
    pcCreate,         \* the creating thread
    i,                \* the loop's index in m_pinList
    shift,            \* the slot of the array that RemovePin fills next
    hPipe,            \* its handle: "none", "open" or "leaked"
    pipe, sending, busy,   \* the pipe; what the sink has still to write; others
    catalogue,        \* the catalogue being read
    ended,            \* history: the last read was of the empty message
    pcFind, n, found  \* FindPin: its program counter, index and result

pinVars  == <<m_pinList, m_paStreams, m_iPins, live, nextPin, described>>
pipeVars == <<pipe, sending, busy, catalogue>>
findVars == <<pcFind, n, found>>
vars == <<pinVars, shift, pcCreate, i, hPipe, ended, pipeVars, findVars>>

Init ==
    /\ m_pinList = << >> /\ m_paStreams = << >> /\ m_iPins = 0
    /\ live = {} /\ nextPin = 0 /\ described = [p \in Pins |-> 0]
    /\ pcCreate = "idle" /\ i = 1 /\ shift = 1 /\ hPipe = "none" /\ ended = FALSE
    /\ pipe = NoPipe /\ sending = << >> /\ busy = 0 /\ catalogue = << >>
    /\ pcFind = "idle" /\ n = 0 /\ found = NULL
-----------------------------------------------------------------------------
\* CreateOutputPins, first part: the pins there are go.

CreateOutputPins ==
    /\ pcCreate = "idle" /\ nextPin + MaxCatalogue <= MaxPins
    /\ pcCreate' = "remove" /\ i' = 1 /\ ended' = FALSE
    /\ UNCHANGED <<pinVars, shift, hPipe, pipeVars, findVars>>

\* RemovePin's search, on behalf of the i-th pin of m_pinList; 0 is not found.
PlaceInArray == SelectInSeq(m_paStreams, LAMBDA s : s = m_pinList[i])

RemovePin ==
    /\ pcCreate = "remove" /\ i <= Len(m_pinList)
    /\ IF PlaceInArray = 0
       THEN pcCreate' = "delete" /\ UNCHANGED <<m_paStreams, shift>>
       ELSE IF m_iPins = 1
            THEN pcCreate' = "count" /\ m_paStreams' = << >> /\ UNCHANGED shift
            ELSE /\ shift' = PlaceInArray /\ UNCHANGED m_paStreams
                 /\ pcCreate' = IF shift' < m_iPins THEN "shift" ELSE "count"
    /\ UNCHANGED <<m_pinList, m_iPins, live, nextPin, described, i, hPipe, ended,
                   pipeVars, findVars>>

\* Those after it move down one by one, the last stays where it is as well.
ShiftPin ==
    /\ pcCreate = "shift"
    /\ m_paStreams' = [m_paStreams EXCEPT ![shift] = m_paStreams[shift + 1]]
    /\ shift' = shift + 1
    /\ pcCreate' = IF shift' < m_iPins THEN "shift" ELSE "count"
    /\ UNCHANGED <<m_pinList, m_iPins, live, nextPin, described, i, hPipe, ended,
                   pipeVars, findVars>>

\* m_iPins--, which also ends the array where its last element was.
RemoveCount ==
    /\ pcCreate = "count"
    /\ m_iPins' = m_iPins - 1
    /\ m_paStreams' = SubSeq(m_paStreams, 1, m_iPins')
    /\ pcCreate' = "delete" /\ shift' = 1
    /\ UNCHANGED <<m_pinList, live, nextPin, described, i, hPipe, ended, pipeVars,
                   findVars>>

\* The pin's destructor finds nothing more to remove.
DeletePin ==
    /\ pcCreate = "delete"
    /\ live' = live \ {m_pinList[i]}
    /\ pcCreate' = "remove" /\ i' = i + 1
    /\ UNCHANGED <<m_pinList, m_paStreams, m_iPins, nextPin, described, shift, hPipe,
                   ended, pipeVars, findVars>>

\* Fault: the derived class's list is not cleared.
KeepPins ==
    /\ pcCreate = "remove" /\ i > Len(m_pinList)
    /\ pcCreate' = "open"
    /\ UNCHANGED <<pinVars, shift, i, hPipe, ended, pipeVars, findVars>>

ClearPins ==
    /\ pcCreate = "remove" /\ i > Len(m_pinList)
    /\ m_pinList' = << >>
    /\ pcCreate' = "open" /\ i' = 1
    /\ UNCHANGED <<m_paStreams, m_iPins, live, nextPin, described, shift, hPipe, ended,
                   pipeVars, findVars>>
-----------------------------------------------------------------------------
\* Second part: connecting.

CreateUnchanged == <<pinVars, shift, i, ended, findVars>>

\* CreateFile: a handle, a busy pipe to wait for, or nothing there.
OpenPipe ==
    /\ pcCreate = "open"
    /\ IF CanOpen(pipe)
       THEN /\ pipe' = Opened("source") /\ hPipe' = "open" /\ pcCreate' = "mode"
       ELSE /\ pcCreate' = IF pipe.state = "none" THEN "idle" ELSE "wait"
            /\ UNCHANGED <<pipe, hPipe>>
    /\ UNCHANGED <<CreateUnchanged, sending, busy, catalogue>>

\* Fault: WaitNamedPipe without the limit of twenty seconds.
WaitForever ==
    /\ pcCreate = "wait" /\ CanOpen(pipe)
    /\ pcCreate' = "open"
    /\ UNCHANGED <<CreateUnchanged, hPipe, pipeVars>>

\* WaitNamedPipe returns when the pipe can be opened, fails when it is gone and
\* gives up after twenty seconds.
WaitPipe ==
    /\ pcCreate = "wait"
    /\ pcCreate' = IF CanOpen(pipe) THEN "open" ELSE "idle"
    /\ UNCHANGED <<CreateUnchanged, hPipe, pipeVars>>

\* SetNamedPipeHandleState; when it fails nobody closes the handle.
SetMode ==
    /\ pcCreate = "mode"
    /\ \/ /\ pipe.state = "connected"
          /\ pcCreate' = "read" /\ UNCHANGED hPipe
       \/ /\ pipe.state # "connected"
          /\ pcCreate' = "idle" /\ hPipe' = "leaked"
    /\ UNCHANGED <<CreateUnchanged, pipeVars>>
-----------------------------------------------------------------------------
\* Third part: reading.

\* A new pin for message k: CSourceStream's constructor calls AddPin, which waits
\* for the lock GetPin holds, then CreateOutputPins appends to its own list.
AddPin(k) ==
    /\ pcFind # "fetch"
    /\ nextPin' = nextPin + 1
    /\ live' = live \cup {nextPin'}
    /\ described' = [described EXCEPT ![nextPin'] = k]
    /\ m_paStreams' = Append(m_paStreams, nextPin')
    /\ m_iPins' = m_iPins + 1
    /\ m_pinList' = Append(m_pinList, nextPin')

\* Fault: the rest of a description that was cut off is read as another one.
ReadPinRest ==
    /\ pcCreate = "read" /\ pipe.queue # << >> /\ Head(pipe.queue) # 0
    /\ LET k == Head(pipe.queue) IN
       /\ AddPin(k)
       /\ pipe' = IF catalogue[k] /\ (m_pinList = << >> \/ described[Last(m_pinList)] # k)
                  THEN pipe ELSE ReadMsg(pipe)
    /\ UNCHANGED <<pcCreate, shift, i, hPipe, ended, sending, busy, catalogue, findVars>>

\* ReadFile of a description makes a pin.  One that is longer than the buffer
\* is cut off (ERROR_MORE_DATA), and as the call failed, the last one read.
ReadPin ==
    /\ pcCreate = "read" /\ pipe.queue # << >> /\ Head(pipe.queue) # 0
    /\ LET k == Head(pipe.queue) IN
       /\ AddPin(k)
       /\ pcCreate' = IF catalogue[k] THEN "close" ELSE "read"
    /\ pipe' = ReadMsg(pipe)
    /\ UNCHANGED <<shift, i, hPipe, ended, sending, busy, catalogue, findVars>>

\* The empty message, or an error because the sink has disconnected.
ReadEnd ==
    /\ pcCreate = "read"
    /\ \/ /\ pipe.queue # << >> /\ Head(pipe.queue) = 0
          /\ pipe' = ReadMsg(pipe) /\ ended' = TRUE
       \/ /\ pipe.client # "source"
          /\ UNCHANGED <<pipe, ended>>
    /\ pcCreate' = "close"
    /\ UNCHANGED <<pinVars, shift, i, hPipe, sending, busy, catalogue, findVars>>

ClosePipe ==
    /\ pcCreate = "close"
    /\ hPipe' = "none"
    /\ pipe' = IF pipe.client = "source" THEN ClientClosed ELSE pipe
    /\ pcCreate' = "idle"
    /\ UNCHANGED <<CreateUnchanged, sending, busy, catalogue>>

\* The destructor deletes the pins, each of which removes itself; the last
\* reference is gone, so nobody is in FindPin.
Delete ==
    /\ pcCreate = "idle" /\ pcFind = "idle"
    /\ live' = {} /\ m_pinList' = << >> /\ m_paStreams' = << >> /\ m_iPins' = 0
    /\ pcCreate' = "gone"
    /\ UNCHANGED <<nextPin, described, shift, i, hPipe, ended, pipeVars, findVars>>
-----------------------------------------------------------------------------
\* Another thread in FindPin, which calls GetPin under the lock that RemovePin
\* does not take: its test of the index and its use of it are two steps.

FindUnchanged == <<pinVars, shift, pcCreate, i, hPipe, ended, pipeVars>>

FindPin ==
    /\ pcFind = "idle" /\ pcCreate # "gone"
    /\ n' \in 1..MaxCatalogue
    /\ pcFind' = "test"
    /\ UNCHANGED <<FindUnchanged, found>>

GetPinTest ==
    /\ pcFind = "test"
    /\ IF n <= m_iPins THEN pcFind' = "fetch" /\ UNCHANGED n
                       ELSE pcFind' = "idle" /\ n' = 0
    /\ UNCHANGED <<FindUnchanged, found>>

\* The array may be gone meanwhile; a slot behind its end still holds its last pin.
GetPinFetch ==
    /\ pcFind = "fetch"
    /\ IF m_paStreams = << >>
       THEN pcFind' = "faulted" /\ UNCHANGED found
       ELSE /\ found' = m_paStreams[IF n <= Len(m_paStreams) THEN n ELSE Len(m_paStreams)]
            /\ pcFind' = "found"
    /\ UNCHANGED <<FindUnchanged, n>>

\* So may the pin, to which nobody has a reference yet.
FindAddRef ==
    /\ pcFind = "found"
    /\ pcFind' = "idle" \/ (found \notin live /\ pcFind' = "faulted")
    /\ found' = NULL /\ n' = 0
    /\ UNCHANGED FindUnchanged

\* With an access violation the process is gone.
Alive == pcFind # "faulted"
-----------------------------------------------------------------------------
\* The sink.

SinkUnchanged == <<pinVars, shift, pcCreate, i, hPipe, ended, findVars>>

\* CreateNamedPipe, or DisconnectNamedPipe and ConnectNamedPipe for the next.
SinkListens ==
    /\ pipe.state \in {"none", "closing", "disconnected"}
    /\ pipe' = Listening /\ sending' = << >>
    /\ UNCHANGED <<SinkUnchanged, busy, catalogue>>

\* Another client opens the pipe before this one does.
OtherOpens ==
    /\ CanOpen(pipe) /\ busy < MaxBusy /\ pcCreate # "read"
    /\ pipe' = Opened("self") /\ busy' = busy + 1
    /\ UNCHANGED <<SinkUnchanged, sending, catalogue>>

OtherCloses ==
    /\ pipe.client = "self"
    /\ pipe' = ClientClosed
    /\ UNCHANGED <<SinkUnchanged, sending, busy, catalogue>>

\* The sink starts to write a catalogue for this client.
SinkStarts ==
    /\ pipe.client = "source" /\ sending = << >> /\ pipe.queue = << >>
    /\ pcCreate = "read" /\ m_pinList = << >> /\ ~ended
    /\ catalogue' \in Catalogues
    /\ sending' = [k \in 1..Len(catalogue') + 1 |-> IF k > Len(catalogue') THEN 0 ELSE k]
    /\ UNCHANGED <<SinkUnchanged, pipe, busy>>

SinkWrites ==
    /\ pipe.client = "source" /\ sending # << >>
    /\ pipe' = Written(pipe, Head(sending)) /\ sending' = Tail(sending)
    /\ UNCHANGED <<SinkUnchanged, busy, catalogue>>

\* Everything is written and read, or the sink goes, with whatever was on its way.
SinkEnds ==
    /\ pipe.state = "connected"
    /\ pipe' \in {Disconnected, NoPipe} /\ sending' = << >>
    /\ UNCHANGED <<SinkUnchanged, busy, catalogue>>
-----------------------------------------------------------------------------
Create == /\ Alive
          /\ \/ RemovePin \/ ShiftPin \/ RemoveCount \/ DeletePin \/ ClearPins \/ OpenPipe
             \/ WaitPipe \/ SetMode \/ ReadPin \/ ReadEnd \/ ClosePipe
GetPin == GetPinTest \/ GetPinFetch \/ FindAddRef
Find == FindPin \/ GetPin
Sink == SinkListens \/ OtherOpens \/ OtherCloses \/ SinkStarts \/ SinkWrites \/ SinkEnds

Next == (Alive /\ CreateOutputPins) \/ Create \/ Delete \/ Find \/ Sink

Spec == Init /\ [][Next]_vars

\* The creating thread goes on, and gets the lock sooner or later, as a caller of
\* FindPin comes out of it; a sink that has been opened writes.
Fairness == /\ WF_vars(Create) /\ WF_vars(GetPin) /\ SF_vars(Alive /\ ReadPin)
            /\ WF_vars(SinkStarts \/ SinkWrites)
FairSpec == Spec /\ Fairness
-----------------------------------------------------------------------------
\* CSource's array and count and the filter's own list name the same pins,
\* whenever no pin is being removed, and each of them exists
\* (VirtualStreamSource.cpp lines 120 to 300, source.cpp lines 95 to 200).
ListsAgree ==
    pcCreate \notin {"remove", "shift", "count", "delete"} =>
        /\ m_paStreams = m_pinList /\ m_iPins = Len(m_pinList)
        /\ live = ToSet(m_pinList)

\* Outside CreateOutputPins the pipe's handle is closed, so that the sink's
\* only instance is there for others, unless its mode could not be set.
PipeClosed == pcCreate = "idle" => hPipe # "open" /\ pipe.client # "source"

\* The filter's pins are the sink's, in the sink's order, without a gap and
\* none twice; when the list was read to its empty message they are all, and the
\* pipe has been let go of when they are there (VirtualStreamSource.cpp lines 180
\* to 300).
PinsOfCatalogue ==
    /\ pcCreate \in {"idle", "close"} =>
           /\ \A k \in DOMAIN m_pinList : described[m_pinList[k]] = k
           /\ ended => Len(m_pinList) = Len(catalogue)
    /\ PipeClosed

\* CreateOutputPins returns, unless the process ends: a busy pipe is waited for twenty
\* seconds, a sink that writes or goes ends the loop (VirtualStreamSource.cpp lines 120
\* to 300).
Waits == Alive /\ pcCreate \notin {"idle", "gone"}
=============================================================================
