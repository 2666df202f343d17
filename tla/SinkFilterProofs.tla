--------------------------- MODULE SinkFilterProofs ---------------------------
(***************************************************************************)
(* The sink filter and its control pipe (VirtualStreamSink.cpp), for any   *)
(* number of pins, any buffer of the pipe and every interleaving of the    *)
(* application, the server thread and its clients: a client that reads a   *)
(* catalogue to its end has every pin that stayed connected, in order.     *)
(*                                                                         *)
(* The server walks the list of pins without a lock while pins connect and *)
(* are added, so the invariant says what the catalogue still owes (Owed):  *)
(* each pin that has stayed connected is in what the client was told, is   *)
(* the one at hand, or stands further down the list.  A rename cuts the    *)
(* list short, and nothing is owed until the next catalogue begins.        *)
(***************************************************************************)
EXTENDS SinkFilter, TLAPS

\* What this client was told: what it has read and what waits in the pipe.
Told == IF pipe.client = "source" THEN got \o pipe.queue ELSE got

Members(s) == {s[k] : k \in DOMAIN s}

\* The client reads a catalogue that no rename has cut short.
Whole == pipe.client = "source" /\ ~renamed

\* The pins of the list from place k on.
From(k) == {m_pinList[n] : n \in {m \in DOMAIN m_pinList : m >= k}}

Types ==
    /\ m_pinList \in Seq(Nat \ {0}) /\ nextPin \in Nat /\ i \in Nat /\ cur \in Nat
    /\ got \in Seq(Nat) /\ pipe \in Pipes(Nat)
    /\ m_hPipe \in {"null", "open"} /\ renameAt \in Nat
    /\ pcServer \in {"list", "item", "pin", "write"} => i > 0

\* There is no thread without a pipe, nor when the pipe is closed or made.
PipeOfServer ==
    m_hPipe = "null" \/ pcApp \in {"closeHandle", "create", "gone"} => pcServer = "none"

\* The list is in the order in which pins were made; what is connected is there.
ListOfPins ==
    /\ \A a, b \in DOMAIN m_pinList : a < b => m_pinList[a] < m_pinList[b]
    /\ \A a \in DOMAIN m_pinList : m_pinList[a] <= nextPin
    /\ stable \subseteq connected /\ connected \subseteq live
    /\ pcApp = "rename" => renameAt > 0
    /\ pcApp = "erase" => renameAt \in DOMAIN m_pinList

\* Pins come in order, and nothing comes behind the end.
Shape(s) ==
    /\ \A a, b \in DOMAIN s : a < b /\ s[b] # EndMessage => s[a] < s[b]
    /\ \A a \in DOMAIN s : s[a] = EndMessage => a = Len(s)

\* A client comes between two catalogues, and nothing was written for it then.
NewClient ==
    /\ pipe.client = "source" => pipe.state = "connected"
    /\ pipe.state = "listening" =>
           pcServer \in {"start", "loop", "listen", "accept", "exit", "none"}
    /\ pipe.client = "source"
       /\ pcServer \in {"start", "loop", "listen", "accept", "serve", "exit"} =>
           got = << >> /\ pipe.queue = << >>

\* Pins that were made, and no end.
Older(told) == \A p \in told : p # EndMessage /\ p <= nextPin

Owed ==
    Whole =>
        /\ pcServer \in {"list", "item"} =>
               /\ Older(Members(Told))
               /\ \A p \in Members(Told), q \in From(i) : p < q
               /\ stable \subseteq Members(Told) \cup From(i)
        /\ pcServer = "item" => i <= Len(m_pinList)
        /\ pcServer \in {"pin", "write"} =>
               /\ Older(Members(Told) \cup {cur})
               /\ \A p \in Members(Told) : p < cur
               /\ \A q \in From(i + 1) : cur < q
               /\ stable \subseteq Members(Told) \cup {cur} \cup From(i + 1)
        /\ pcServer = "end" => Older(Members(Told)) /\ stable \subseteq Members(Told)
        /\ pcServer = "flush" =>
               EndMessage \in Members(Told) /\ stable \subseteq Members(Told)

IInv == /\ Types /\ PipeOfServer /\ ListOfPins /\ NewClient /\ Owed
        /\ Whole => Shape(Told)
        /\ AllocatorOfConnectedPin
-----------------------------------------------------------------------------
\* The pipe and what was told through it.

\* A pipe that is made, opened or left holds no message.
LEMMA PipeValues ==
    /\ NoPipe \in Pipes(Nat) /\ Listening \in Pipes(Nat)
    /\ ClientClosed \in Pipes(Nat) /\ Disconnected \in Pipes(Nat)
    /\ \A p \in {NoPipe, Listening, ClientClosed, Disconnected} :
           p.client = "nobody" /\ p.queue = << >>
    /\ \A p \in {NoPipe, ClientClosed, Disconnected} : p.state # "listening"
    /\ Listening.state = "listening"
    /\ \A c \in Clients : /\ Opened(c) \in Pipes(Nat) /\ Opened(c).queue = << >>
                          /\ Opened(c).client = c /\ Opened(c).state = "connected"
<1>0. << >> \in Seq(Nat)
  OBVIOUS
<1>1. \A s \in PipeStates : Idle(s) \in Pipes(Nat) /\ Idle(s).client = "nobody"
                            /\ Idle(s).queue = << >> /\ Idle(s).state = s
  BY <1>0 DEF Idle, Pipes, Clients
<1>2. \A c \in Clients : /\ Opened(c) \in Pipes(Nat) /\ Opened(c).queue = << >>
                         /\ Opened(c).client = c /\ Opened(c).state = "connected"
  BY <1>0 DEF Opened, Pipes, PipeStates
<1>. QED
  BY <1>1, <1>2 DEF NoPipe, Listening, ClientClosed, Disconnected, PipeStates

\* Reading and writing change the queue alone.
LEMMA ReadPipe ==
    ASSUME NEW p \in Pipes(Nat), p.queue # << >>
    PROVE  /\ ReadMsg(p) \in Pipes(Nat) /\ ReadMsg(p).queue = Tail(p.queue)
           /\ ReadMsg(p).client = p.client /\ ReadMsg(p).state = p.state
<1>1. Tail(p.queue) \in Seq(Nat)
  BY DEF Pipes
<1>. QED
  BY <1>1 DEF Pipes, ReadMsg

LEMMA WritePipe ==
    ASSUME NEW p \in Pipes(Nat), NEW m \in Nat
    PROVE  /\ Written(p, m) \in Pipes(Nat) /\ Written(p, m).queue = Append(p.queue, m)
           /\ Written(p, m).client = p.client /\ Written(p, m).state = p.state
<1>1. Append(p.queue, m) \in Seq(Nat)
  BY DEF Pipes
<1>. QED
  BY <1>1 DEF Pipes, Written

\* What is added to a list.
LEMMA AppendMembers ==
    ASSUME NEW s \in Seq(Nat), NEW m \in Nat
    PROVE  /\ Append(s, m) \in Seq(Nat) /\ Members(Append(s, m)) = Members(s) \cup {m}
           /\ Members(<< >>) = {}
<1>1. /\ Append(s, m) \in Seq(Nat) /\ DOMAIN s = 1..Len(s) /\ Len(s) \in Nat
      /\ DOMAIN Append(s, m) = 1..Len(s) + 1 /\ Append(s, m)[Len(s) + 1] = m
      /\ \A k \in DOMAIN s : Append(s, m)[k] = s[k]
  OBVIOUS
<1>. QED
  BY <1>1 DEF Members

\* What is read was told before.
LEMMA ToldRead ==
    ASSUME NEW s \in Seq(Nat), NEW q \in Seq(Nat), q # << >>
    PROVE  Append(s, Head(q)) \o Tail(q) = s \o q
<1>1. /\ Append(s, Head(q)) \in Seq(Nat) /\ Tail(q) \in Seq(Nat)
      /\ Len(Append(s, Head(q))) = Len(s) + 1 /\ Len(Tail(q)) = Len(q) - 1
      /\ Len(s) \in Nat /\ Len(q) \in Nat \ {0}
  OBVIOUS
<1>2. ASSUME NEW k \in 1..Len(s) + Len(q)
      PROVE  (Append(s, Head(q)) \o Tail(q))[k] = (s \o q)[k]
  <2>1. CASE k <= Len(s)
    BY <1>1, <2>1
  <2>2. CASE k = Len(s) + 1
    BY <1>1, <2>2
  <2>3. CASE k > Len(s) + 1
    BY <1>1, <2>3
  <2>. QED
    BY <1>1, <2>1, <2>2, <2>3
<1>. QED
  BY SMTT(40), <1>1, <1>2

\* What is written is told after what was told before.
LEMMA ToldWritten ==
    ASSUME NEW s \in Seq(Nat), NEW q \in Seq(Nat), NEW m \in Nat
    PROVE  s \o Append(q, m) = Append(s \o q, m)
<1>1. /\ s \o q \in Seq(Nat) /\ Len(s \o q) = Len(s) + Len(q) /\ Len(s) \in Nat /\ Len(q) \in Nat
      /\ Append(q, m) \in Seq(Nat) /\ Len(Append(q, m)) = Len(q) + 1
  OBVIOUS
<1>2. ASSUME NEW k \in 1..Len(s) + Len(q) + 1
      PROVE  (s \o Append(q, m))[k] = Append(s \o q, m)[k]
  <2>1. CASE k <= Len(s)
    BY <1>1, <2>1
  <2>2. CASE k > Len(s) /\ k <= Len(s) + Len(q)
    BY <1>1, <2>2
  <2>3. CASE k = Len(s) + Len(q) + 1
    BY <1>1, <2>3
  <2>. QED
    BY <1>1, <2>1, <2>2, <2>3
<1>. QED
  BY SMTT(40), <1>1, <1>2

\* What was read is the first part of what was told, and of the same shape.
LEMMA ToldFirst ==
    ASSUME NEW s \in Seq(Nat), NEW q \in Seq(Nat)
    PROVE  /\ s \o q \in Seq(Nat) /\ Len(s \o q) = Len(s) + Len(q)
           /\ \A k \in DOMAIN s : k \in DOMAIN (s \o q) /\ (s \o q)[k] = s[k]
           /\ Shape(s \o q) => Shape(s)
<1>1. /\ s \o q \in Seq(Nat) /\ Len(s \o q) = Len(s) + Len(q) /\ Len(s) \in Nat /\ Len(q) \in Nat
      /\ DOMAIN s = 1..Len(s) /\ DOMAIN (s \o q) = 1..Len(s) + Len(q)
  OBVIOUS
<1>2. \A k \in DOMAIN s : k \in DOMAIN (s \o q) /\ (s \o q)[k] = s[k]
  BY <1>1
<1>3. Shape(s \o q) => Shape(s)
  BY <1>1, <1>2 DEF Shape
<1>. QED
  BY <1>1, <1>2, <1>3

\* Told is a list of messages.
LEMMA ToldType == Types => Told \in Seq(Nat)
  BY ToldFirst DEF Types, Told, Pipes

\* Two lists put together.
LEMMA Joined ==
    ASSUME NEW S, NEW s \in Seq(S), NEW t \in Seq(S)
    PROVE  /\ s \o t \in Seq(S) /\ Len(s \o t) = Len(s) + Len(t)
           /\ \A k \in 1..Len(s) + Len(t) :
                  (s \o t)[k] = IF k <= Len(s) THEN s[k] ELSE t[k - Len(s)]
  OBVIOUS

\* A pin taken out of a list leaves the others in their order.
LEMMA RemoveFromList ==
    ASSUME NEW s \in Seq(Nat \ {0}), NEW r \in DOMAIN s
    PROVE  /\ RemoveAt(s, r) \in Seq(Nat \ {0}) /\ Len(RemoveAt(s, r)) = Len(s) - 1
           /\ \A k \in DOMAIN RemoveAt(s, r) :
                  IF k < r THEN k \in DOMAIN s /\ RemoveAt(s, r)[k] = s[k]
                           ELSE k + 1 \in DOMAIN s /\ RemoveAt(s, r)[k] = s[k + 1]
<1>1. r \in Nat \ {0} /\ r <= Len(s) /\ Len(s) \in Nat /\ DOMAIN s = 1..Len(s)
  OBVIOUS
<1> DEFINE left == SubSeq(s, 1, r - 1)
           right == SubSeq(s, r + 1, Len(s))
<1>2. /\ left \in Seq(Nat \ {0}) /\ Len(left) = r - 1
      /\ \A k \in 1..r - 1 : left[k] = s[k]
  BY <1>1
<1>3. /\ right \in Seq(Nat \ {0}) /\ Len(right) = Len(s) - r
      /\ \A k \in 1..Len(s) - r : right[k] = s[r + k]
  <2>1. r + 1 \in Nat /\ r + 1 >= 1 /\ Len(s) <= Len(s) /\ r + 1 <= Len(s) + 1
    BY <1>1
  <2>2. right \in Seq(Nat \ {0})
    BY <1>1, <2>1
  <2>3. Len(right) = Len(s) - r
    BY <1>1, <2>1
  <2>4. ASSUME NEW k \in 1..Len(s) - r PROVE right[k] = s[r + k]
    BY <1>1, <2>1, <2>3
  <2>. QED
    BY <2>2, <2>3, <2>4
<1>4. RemoveAt(s, r) = left \o right
  BY DEF RemoveAt
<1> HIDE DEF left, right
<1>5. /\ left \o right \in Seq(Nat \ {0}) /\ Len(left \o right) = Len(s) - 1
      /\ \A k \in 1..Len(s) - 1 :
             (left \o right)[k] = IF k <= r - 1 THEN left[k] ELSE right[k - (r - 1)]
  <2>1. /\ left \o right \in Seq(Nat \ {0}) /\ Len(left \o right) = Len(s) - 1
        /\ Len(left) \in Nat /\ Len(right) \in Nat /\ Len(left) + Len(right) = Len(s) - 1
    <3>1. left \o right \in Seq(Nat \ {0}) /\ Len(left \o right) = Len(left) + Len(right)
      BY <1>2, <1>3, Joined
    <3>. QED
      BY <1>1, <1>2, <1>3, <3>1
  <2>2. \A k \in 1..Len(left) + Len(right) :
            (left \o right)[k] = IF k <= Len(left) THEN left[k] ELSE right[k - Len(left)]
    <3>1. left \in Seq(Nat \ {0}) /\ right \in Seq(Nat \ {0})
      BY <1>2, <1>3
    <3>. QED
      BY <3>1, Joined
  <2>. QED
    BY <1>2, <2>1, <2>2
<1>6. ASSUME NEW k \in 1..Len(s) - 1
      PROVE  IF k < r THEN k \in DOMAIN s /\ (left \o right)[k] = s[k]
                      ELSE k + 1 \in DOMAIN s /\ (left \o right)[k] = s[k + 1]
  <2>1. CASE k < r
    BY <1>1, <1>2, <1>5, <2>1
  <2>2. CASE ~(k < r)
    <3>1. k - (r - 1) \in 1..Len(s) - r /\ r + (k - (r - 1)) = k + 1 /\ ~(k <= r - 1)
      BY <1>1, <2>2
    <3>2. right[k - (r - 1)] = s[k + 1]
      BY <1>3, <3>1
    <3>. QED
      <4>1. (left \o right)[k] = right[k - (r - 1)]
        BY <1>5, <3>1
      <4>. QED
        BY <1>1, <2>2, <3>2, <4>1
  <2>. QED
    BY <2>1, <2>2
<1>7. DOMAIN (left \o right) = 1..Len(s) - 1
  BY <1>5
<1>. QED
  BY <1>4, <1>5, <1>6, <1>7

\* The filter's variables keep their types.
LEMMA TypesStep == ASSUME Types, ListOfPins, [Next]_vars PROVE Types'
<1>0. /\ << >> \in Seq(Nat) /\ EndMessage \in Nat /\ << >> \in Seq(Nat \ {0})
      /\ \A c \in {"self", "source"} : Opened(c) \in Pipes(Nat)
      /\ {NoPipe, Listening, ClientClosed, Disconnected} \subseteq Pipes(Nat)
  BY PipeValues DEF EndMessage, Clients
<1>00. /\ pipe.queue # << >> => ReadMsg(pipe) \in Pipes(Nat) /\ Head(pipe.queue) \in Nat
       /\ \A m \in Nat : Written(pipe, m) \in Pipes(Nat)
  <2>1. pipe \in Pipes(Nat) /\ pipe.queue \in Seq(Nat)
    BY DEF Types, Pipes
  <2>2. pipe.queue # << >> => Head(pipe.queue) \in Nat
    BY <2>1
  <2>. QED
    BY <2>1, <2>2, ReadPipe, WritePipe
<1>1. ASSUME NEW p \in Pins, Connect(p) PROVE Types'
  <2>1. nextPin + 1 \in Nat \ {0}
    BY DEF Types
  <2>2. Append(m_pinList, nextPin + 1) \in Seq(Nat \ {0})
    BY <2>1 DEF Types
  <2>. QED
    BY <1>1, <2>1, <2>2 DEF Connect, AddInputPin, Types, appVars, serverVars
<1>2. ASSUME NEW p \in Pins, Disconnect(p) PROVE Types'
  BY <1>0, <1>00, <1>2 DEF Disconnect, Types, pinVars, history, appVars, serverVars
<1>3. CASE SetStreamName
  BY <1>0, <1>00, <1>3 DEF SetStreamName, Types, pinVars, history, appVars, serverVars
<1>4. CASE Pause
  BY <1>0, <1>00, <1>4 DEF Pause, InitializePipe, Types, pinVars, history, appVars, serverVars
<1>5. CASE Run
  BY <1>0, <1>00, <1>5 DEF Run, Types, pinVars, history, appVars, serverVars
<1>6. CASE Stop
  BY <1>0, <1>00, <1>6 DEF Stop, Types, pinVars, history, appVars, serverVars
<1>7. CASE Delete
  BY <1>0, <1>00, <1>7 DEF Delete, Types, pinVars, history, appVars, serverVars
<1>8. CASE StopOpen
  BY <1>0, <1>00, <1>8 DEF StopOpen, AppUnchanged, Types, pinVars, history, appVars, serverVars
<1>9. CASE StopClose
  BY <1>0, <1>00, <1>9 DEF StopClose, AppUnchanged, Types, pinVars, history, appVars, serverVars
<1>10. CASE StopServerGone
  BY <1>0, <1>00, <1>10 DEF StopServerGone, AppUnchanged, Types, pinVars, history, appVars,
     serverVars
<1>11. CASE StopTimeout
  BY <1>0, <1>00, <1>11 DEF StopTimeout, CatalogueOver, Types, pinVars, history, appVars, serverVars
<1>12. CASE StopCloseHandle
  BY <1>0, <1>00, <1>12 DEF StopCloseHandle, AppUnchanged, Types, pinVars, history, appVars,
     serverVars
<1>13. CASE CreatePipe
  BY <1>0, <1>00, <1>13 DEF CreatePipe, AppUnchanged, Types, pinVars, history, appVars, serverVars
<1>14. CASE RunPauses
  BY <1>0, <1>00, <1>14 DEF RunPauses, InitializePipe, Types, pinVars, history, appVars, serverVars
<1>15. CASE RunRuns
  BY <1>0, <1>00, <1>15 DEF RunRuns, Types, pinVars, history, appVars, serverVars
<1>16. CASE ServerStart
  BY <1>0, <1>00, <1>16 DEF ServerStart, ServerUnchanged, Types, pinVars, history, appVars,
     serverVars
<1>17. CASE ServerLoop
  BY <1>0, <1>00, <1>17 DEF ServerLoop, ServerUnchanged, Types, pinVars, history, appVars, serverVars
<1>18. CASE ServerListen
  BY <1>0, <1>00, <1>18 DEF ServerListen, ServerUnchanged, Types, pinVars, history, appVars,
     serverVars
<1>19. CASE ServerAccepted
  BY <1>0, <1>00, <1>19 DEF ServerAccepted, ServerUnchanged, Types, pinVars, history, appVars,
     serverVars
<1>20. CASE ServerServe
  BY <1>0, <1>00, <1>20 DEF ServerServe, ServerUnchanged, Types, pinVars, history, appVars,
     serverVars
<1>21. CASE ServerList
  BY <1>0, <1>00, <1>21 DEF ServerList, ServerUnchanged, Types, pinVars, history, appVars
<1>22. CASE ServerPin
  BY <1>0, <1>00, <1>22 DEF ServerPin, ServerUnchanged, Types, pinVars, history, appVars, serverVars
<1>23. CASE ServerWrite
  BY <1>0, <1>00, <1>23 DEF ServerWrite, ServerUnchanged, Types, pinVars, history, appVars,
     serverVars
<1>24. CASE ServerEnd
  BY <1>0, <1>00, <1>24 DEF ServerEnd, ServerUnchanged, Types, pinVars, history, appVars, serverVars
<1>25. CASE ServerFlush
  BY <1>0, <1>00, <1>25 DEF ServerFlush, CatalogueOver, ServerUnchanged, Types, pinVars, history,
     appVars, serverVars
<1>26. CASE ServerExit
  BY <1>0, <1>00, <1>26 DEF ServerExit, ServerUnchanged, Types, pinVars, history, appVars, serverVars
<1>27. CASE ClientOpen
  BY <1>0, <1>00, <1>27 DEF ClientOpen, ClientUnchanged, Types, pinVars, history, appVars, serverVars
<1>28. CASE ClientRead
  BY <1>0, <1>00, <1>28 DEF ClientRead, ClientUnchanged, Types, pinVars, history, appVars, serverVars
<1>29. CASE ClientClose
  BY <1>0, <1>00, <1>29 DEF ClientClose, ClientUnchanged, Types, pinVars, history, appVars,
     serverVars
<1>30. CASE UNCHANGED vars
  BY <1>0, <1>00, <1>30 DEF vars, Types, pinVars, history, appVars, serverVars
<1>31. CASE RenameDelete
  BY <1>0, <1>00, <1>31 DEF RenameDelete, RenameUnchanged, Types, pinVars, history, appVars, serverVars
<1>33. CASE RenameClear
  BY <1>0, <1>00, <1>33 DEF RenameClear, RenameUnchanged, Types, pinVars, history, appVars, serverVars
<1>32. CASE RenameErase
  <2>1. m_pinList' \in Seq(Nat \ {0})
    BY <1>32, RemoveFromList DEF RenameErase, Types, ListOfPins
  <2>. QED
    BY <1>32, <2>1 DEF RenameErase, RenameUnchanged, Types, history, serverVars
<1>34. CASE RenameAdd
  <2>1. nextPin + 1 \in Nat \ {0}
    BY DEF Types
  <2>2. Append(m_pinList, nextPin + 1) \in Seq(Nat \ {0})
    BY <2>1 DEF Types
  <2>. QED
    BY <1>0, <1>34, <2>1, <2>2 DEF RenameAdd, RenameUnchanged, AddInputPin, Types, history,
       serverVars
<1>35. CASE ServerItem
  <2>1. cur' \in Nat
    <3>1. CASE i <= Len(m_pinList)
      <4>1. i \in DOMAIN m_pinList /\ cur' = m_pinList[i]
        BY <1>35, <3>1 DEF ServerItem, Types
      <4>. QED
        BY <4>1 DEF Types
    <3>2. CASE ~(i <= Len(m_pinList))
      BY <1>35, <3>2 DEF ServerItem
    <3>. QED
      BY <3>1, <3>2
  <2>. QED
    BY <1>35, <2>1 DEF ServerItem, ServerUnchanged, Types, pinVars, history, appVars
<1>. QED
  BY <1>1, <1>2, <1>3, <1>4, <1>5, <1>6, <1>7, <1>8, <1>9, <1>10, <1>11, <1>12, <1>13,
     <1>14, <1>15, <1>16, <1>17, <1>18, <1>19, <1>20, <1>21, <1>22, <1>23, <1>24, <1>25,
     <1>26, <1>27, <1>28, <1>29, <1>30, <1>31, <1>32, <1>33, <1>34, <1>35
  DEF Next, Renaming, Stopping, Server

\* The application closes the pipe once the thread is gone, and makes a thread only
\* with a new pipe.
LEMMA PipeOfServerStep ==
    ASSUME Types, PipeOfServer, [Next]_vars
    PROVE  PipeOfServer'
<1>1. ASSUME NEW p \in Pins, Connect(p) PROVE PipeOfServer'
  BY <1>1 DEF Connect, AddInputPin, AppReady, Types, PipeOfServer, pinVars, history, appVars,
     serverVars
<1>2. ASSUME NEW p \in Pins, Disconnect(p) PROVE PipeOfServer'
  BY <1>2 DEF Disconnect, AppReady, Types, PipeOfServer, pinVars, history, appVars, serverVars
<1>3. CASE SetStreamName
  BY <1>3 DEF SetStreamName, AppReady, Types, PipeOfServer, pinVars, history, appVars, serverVars
<1>4. CASE Pause
  BY <1>4 DEF Pause, InitializePipe, AppReady, Types, PipeOfServer, pinVars, history, appVars,
     serverVars
<1>5. CASE Run
  BY <1>5 DEF Run, AppReady, Types, PipeOfServer, pinVars, history, appVars, serverVars
<1>6. CASE Stop
  BY <1>6 DEF Stop, AppReady, Types, PipeOfServer, pinVars, history, appVars, serverVars
<1>7. CASE Delete
  BY <1>7 DEF Delete, AppReady, Types, PipeOfServer, pinVars, history, appVars, serverVars
<1>8. CASE StopOpen
  BY <1>8 DEF StopOpen, AppUnchanged, AppReady, Types, PipeOfServer, pinVars, history, appVars,
     serverVars
<1>9. CASE StopClose
  BY <1>9 DEF StopClose, AppUnchanged, AppReady, Types, PipeOfServer, pinVars, history, appVars,
     serverVars
<1>10. CASE StopServerGone
  BY <1>10 DEF StopServerGone, AppUnchanged, AppReady, Types, PipeOfServer, pinVars, history,
     appVars, serverVars
<1>11. CASE StopTimeout
  BY <1>11 DEF StopTimeout, CatalogueOver, AppReady, Types, PipeOfServer, pinVars, history, appVars,
     serverVars
<1>12. CASE StopCloseHandle
  BY <1>12 DEF StopCloseHandle, AppUnchanged, AppReady, Types, PipeOfServer, pinVars, history,
     appVars, serverVars
<1>13. CASE CreatePipe
  BY <1>13 DEF CreatePipe, AppUnchanged, AppReady, Types, PipeOfServer, pinVars, history, appVars,
     serverVars
<1>14. CASE RunPauses
  BY <1>14 DEF RunPauses, InitializePipe, AppReady, Types, PipeOfServer, pinVars, history, appVars,
     serverVars
<1>15. CASE RunRuns
  BY <1>15 DEF RunRuns, AppReady, Types, PipeOfServer, pinVars, history, appVars, serverVars
<1>16. CASE ServerStart
  BY <1>16 DEF ServerStart, ServerUnchanged, AppReady, Types, PipeOfServer, pinVars, history,
     appVars, serverVars
<1>17. CASE ServerLoop
  BY <1>17 DEF ServerLoop, ServerUnchanged, AppReady, Types, PipeOfServer, pinVars, history,
     appVars, serverVars
<1>18. CASE ServerListen
  BY <1>18 DEF ServerListen, ServerUnchanged, AppReady, Types, PipeOfServer, pinVars, history,
     appVars, serverVars
<1>19. CASE ServerAccepted
  BY <1>19 DEF ServerAccepted, ServerUnchanged, AppReady, Types, PipeOfServer, pinVars, history,
     appVars, serverVars
<1>20. CASE ServerServe
  BY <1>20 DEF ServerServe, ServerUnchanged, AppReady, Types, PipeOfServer, pinVars, history,
     appVars, serverVars
<1>21. CASE ServerList
  BY <1>21 DEF ServerList, ServerUnchanged, AppReady, Types, PipeOfServer, pinVars, history,
     appVars, serverVars
<1>22. CASE ServerPin
  BY <1>22 DEF ServerPin, ServerUnchanged, AppReady, Types, PipeOfServer, pinVars, history, appVars,
     serverVars
<1>23. CASE ServerWrite
  BY <1>23 DEF ServerWrite, ServerUnchanged, AppReady, Types, PipeOfServer, pinVars, history,
     appVars, serverVars
<1>24. CASE ServerEnd
  BY <1>24 DEF ServerEnd, ServerUnchanged, AppReady, Types, PipeOfServer, pinVars, history, appVars,
     serverVars
<1>25. CASE ServerFlush
  BY <1>25 DEF ServerFlush, CatalogueOver, ServerUnchanged, AppReady, Types, PipeOfServer,
     pinVars, history, appVars, serverVars
<1>26. CASE ServerExit
  BY <1>26 DEF ServerExit, ServerUnchanged, AppReady, Types, PipeOfServer, pinVars, history,
     appVars, serverVars
<1>27. CASE ClientOpen
  BY <1>27 DEF ClientOpen, ClientUnchanged, AppReady, Types, PipeOfServer, pinVars, history,
     appVars, serverVars
<1>28. CASE ClientRead
  BY <1>28 DEF ClientRead, ClientUnchanged, AppReady, Types, PipeOfServer, pinVars, history,
     appVars, serverVars
<1>29. CASE ClientClose
  BY <1>29 DEF ClientClose, ClientUnchanged, AppReady, Types, PipeOfServer, pinVars, history,
     appVars, serverVars
<1>30. CASE UNCHANGED vars
  BY <1>30 DEF vars, AppReady, Types, PipeOfServer, pinVars, history, appVars, serverVars
<1>31. CASE RenameDelete
  BY <1>31 DEF RenameDelete, RenameUnchanged, AppReady, Types, PipeOfServer, pinVars, history,
     appVars, serverVars
<1>32. CASE RenameErase
  BY <1>32 DEF RenameErase, RenameUnchanged, AppReady, Types, PipeOfServer, pinVars, history,
     appVars, serverVars
<1>33. CASE RenameClear
  BY <1>33 DEF RenameClear, RenameUnchanged, AppReady, Types, PipeOfServer, pinVars, history,
     appVars, serverVars
<1>34. CASE RenameAdd
  BY <1>34 DEF RenameAdd, AddInputPin, RenameUnchanged, AppReady, Types, PipeOfServer, pinVars, history,
     appVars, serverVars
<1>35. CASE ServerItem
  BY <1>35 DEF ServerItem, ServerUnchanged, AppReady, Types, PipeOfServer, pinVars, history,
     appVars, serverVars
<1>. QED
  BY <1>1, <1>2, <1>3, <1>4, <1>5, <1>6, <1>7, <1>8, <1>9, <1>10, <1>11, <1>12, <1>13,
     <1>14, <1>15, <1>16, <1>17, <1>18, <1>19, <1>20, <1>21, <1>22, <1>23, <1>24, <1>25,
     <1>26, <1>27, <1>28, <1>29, <1>30, <1>31, <1>32, <1>33, <1>34, <1>35
  DEF Next, Renaming, Stopping, Server

\* The allocator is let go with the connection it came from.
LEMMA AllocatorStep ==
    ASSUME AllocatorOfConnectedPin, [Next]_vars
    PROVE  AllocatorOfConnectedPin'
<1>1. ASSUME NEW p \in Pins, Connect(p) PROVE AllocatorOfConnectedPin'
  BY <1>1 DEF Connect, AddInputPin, AllocatorOfConnectedPin, pinVars, history
<1>2. ASSUME NEW p \in Pins, Disconnect(p) PROVE AllocatorOfConnectedPin'
  BY <1>2 DEF Disconnect, AllocatorOfConnectedPin, pinVars, history
<1>3. CASE SetStreamName
  BY <1>3 DEF SetStreamName, AllocatorOfConnectedPin, pinVars, history
<1>4. CASE Pause
  BY <1>4 DEF Pause, InitializePipe, AllocatorOfConnectedPin, pinVars, history
<1>5. CASE Run
  BY <1>5 DEF Run, AllocatorOfConnectedPin, pinVars, history
<1>6. CASE Stop
  BY <1>6 DEF Stop, AllocatorOfConnectedPin, pinVars, history
<1>7. CASE Delete
  BY <1>7 DEF Delete, AllocatorOfConnectedPin, pinVars, history
<1>8. CASE StopOpen
  BY <1>8 DEF StopOpen, AppUnchanged, AllocatorOfConnectedPin, pinVars, history
<1>9. CASE StopClose
  BY <1>9 DEF StopClose, AppUnchanged, AllocatorOfConnectedPin, pinVars, history
<1>10. CASE StopServerGone
  BY <1>10 DEF StopServerGone, AppUnchanged, AllocatorOfConnectedPin, pinVars, history
<1>11. CASE StopTimeout
  BY <1>11 DEF StopTimeout, CatalogueOver, AllocatorOfConnectedPin, pinVars, history
<1>12. CASE StopCloseHandle
  BY <1>12 DEF StopCloseHandle, AppUnchanged, AllocatorOfConnectedPin, pinVars, history
<1>13. CASE CreatePipe
  BY <1>13 DEF CreatePipe, AppUnchanged, AllocatorOfConnectedPin, pinVars, history
<1>14. CASE RunPauses
  BY <1>14 DEF RunPauses, InitializePipe, AllocatorOfConnectedPin, pinVars, history
<1>15. CASE RunRuns
  BY <1>15 DEF RunRuns, AllocatorOfConnectedPin, pinVars, history
<1>16. CASE ServerStart
  BY <1>16 DEF ServerStart, ServerUnchanged, AllocatorOfConnectedPin, pinVars, history
<1>17. CASE ServerLoop
  BY <1>17 DEF ServerLoop, ServerUnchanged, AllocatorOfConnectedPin, pinVars, history
<1>18. CASE ServerListen
  BY <1>18 DEF ServerListen, ServerUnchanged, AllocatorOfConnectedPin, pinVars, history
<1>19. CASE ServerAccepted
  BY <1>19 DEF ServerAccepted, ServerUnchanged, AllocatorOfConnectedPin, pinVars, history
<1>20. CASE ServerServe
  BY <1>20 DEF ServerServe, ServerUnchanged, AllocatorOfConnectedPin, pinVars, history
<1>21. CASE ServerList
  BY <1>21 DEF ServerList, ServerUnchanged, AllocatorOfConnectedPin, pinVars, history
<1>22. CASE ServerPin
  BY <1>22 DEF ServerPin, ServerUnchanged, AllocatorOfConnectedPin, pinVars, history
<1>23. CASE ServerWrite
  BY <1>23 DEF ServerWrite, ServerUnchanged, AllocatorOfConnectedPin, pinVars, history
<1>24. CASE ServerEnd
  BY <1>24 DEF ServerEnd, ServerUnchanged, AllocatorOfConnectedPin, pinVars, history
<1>25. CASE ServerFlush
  BY <1>25 DEF ServerFlush, CatalogueOver, ServerUnchanged, AllocatorOfConnectedPin, pinVars, history
<1>26. CASE ServerExit
  BY <1>26 DEF ServerExit, ServerUnchanged, AllocatorOfConnectedPin, pinVars, history
<1>27. CASE ClientOpen
  BY <1>27 DEF ClientOpen, ClientUnchanged, AllocatorOfConnectedPin, pinVars, history
<1>28. CASE ClientRead
  BY <1>28 DEF ClientRead, ClientUnchanged, AllocatorOfConnectedPin, pinVars, history
<1>29. CASE ClientClose
  BY <1>29 DEF ClientClose, ClientUnchanged, AllocatorOfConnectedPin, pinVars, history
<1>30. CASE UNCHANGED vars
  BY <1>30 DEF vars, AllocatorOfConnectedPin, pinVars, history
<1>31. CASE RenameDelete
  BY <1>31 DEF RenameDelete, RenameUnchanged, AllocatorOfConnectedPin, pinVars, history
<1>32. CASE RenameErase
  BY <1>32 DEF RenameErase, RenameUnchanged, AllocatorOfConnectedPin, pinVars, history
<1>33. CASE RenameClear
  BY <1>33 DEF RenameClear, RenameUnchanged, AllocatorOfConnectedPin, pinVars, history
<1>34. CASE RenameAdd
  BY <1>34 DEF RenameAdd, AddInputPin, RenameUnchanged, AllocatorOfConnectedPin, pinVars, history
<1>35. CASE ServerItem
  BY <1>35 DEF ServerItem, ServerUnchanged, AllocatorOfConnectedPin, pinVars, history
<1>. QED
  BY <1>1, <1>2, <1>3, <1>4, <1>5, <1>6, <1>7, <1>8, <1>9, <1>10, <1>11, <1>12, <1>13,
     <1>14, <1>15, <1>16, <1>17, <1>18, <1>19, <1>20, <1>21, <1>22, <1>23, <1>24, <1>25,
     <1>26, <1>27, <1>28, <1>29, <1>30, <1>31, <1>32, <1>33, <1>34, <1>35
  DEF Next, Renaming, Stopping, Server

\* A pin that is added is younger than those there are.
LEMMA AddStep ==
    ASSUME Types, ListOfPins, NEW conn, AddInputPin(m_pinList, conn)
    PROVE  /\ \A a, b \in DOMAIN m_pinList' : a < b => m_pinList'[a] < m_pinList'[b]
           /\ \A a \in DOMAIN m_pinList' : m_pinList'[a] <= nextPin'
           /\ live \subseteq live'
<1>1. CASE UNCHANGED <<m_pinList, nextPin, live>>
  BY <1>1 DEF ListOfPins
<1>2. CASE /\ m_pinList' = Append(m_pinList, nextPin + 1) /\ nextPin' = nextPin + 1
           /\ live' = live \cup {nextPin + 1}
  <2>1. /\ DOMAIN m_pinList = 1..Len(m_pinList) /\ Len(m_pinList) \in Nat
        /\ DOMAIN m_pinList' = 1..Len(m_pinList) + 1
        /\ m_pinList'[Len(m_pinList) + 1] = nextPin + 1
        /\ \A k \in DOMAIN m_pinList : m_pinList'[k] = m_pinList[k] /\ m_pinList[k] \in Nat
    BY <1>2 DEF Types
  <2>2. \A a \in DOMAIN m_pinList' : m_pinList'[a] <= nextPin'
    BY <1>2, <2>1 DEF ListOfPins, Types
  <2>3. \A a \in DOMAIN m_pinList : m_pinList[a] < nextPin + 1
    BY <2>1 DEF ListOfPins, Types
  <2>4. \A a, b \in DOMAIN m_pinList' : a < b => m_pinList'[a] < m_pinList'[b]
    BY <2>1, <2>3 DEF ListOfPins
  <2>. QED
    BY <1>2, <2>2, <2>4
<1>. QED
  BY <1>1, <1>2 DEF AddInputPin

\* Pins are added behind the others, and those that are left keep their order.
LEMMA ListStep ==
    ASSUME Types, ListOfPins, [Next]_vars
    PROVE  ListOfPins'
<1>1. ASSUME NEW p \in Pins, Connect(p) PROVE ListOfPins'
  BY <1>1, AddStep DEF Connect, AppReady, ListOfPins, appVars, history
<1>2. ASSUME NEW p \in Pins, Disconnect(p) PROVE ListOfPins'
  BY <1>2 DEF Disconnect, ListOfPins, pinVars, history, appVars
<1>3. CASE SetStreamName
  BY <1>3 DEF SetStreamName, ListOfPins, pinVars, history
<1>4. CASE Pause
  BY <1>4 DEF Pause, InitializePipe, AppReady, ListOfPins, pinVars, history, appVars
<1>5. CASE Run
  BY <1>5 DEF Run, AppReady, ListOfPins, pinVars, history, appVars
<1>6. CASE Stop
  BY <1>6 DEF Stop, ListOfPins, pinVars, history, appVars
<1>7. CASE Delete
  BY <1>7 DEF Delete, AppReady, ListOfPins, pinVars, history, appVars
<1>8. CASE StopOpen
  BY <1>8 DEF StopOpen, AppUnchanged, ListOfPins, pinVars, history, appVars
<1>9. CASE StopClose
  BY <1>9 DEF StopClose, AppUnchanged, ListOfPins, pinVars, history, appVars
<1>10. CASE StopServerGone
  BY <1>10 DEF StopServerGone, AppUnchanged, ListOfPins, pinVars, history, appVars
<1>11. CASE StopTimeout
  BY <1>11 DEF StopTimeout, CatalogueOver, ListOfPins, pinVars, history, appVars
<1>12. CASE StopCloseHandle
  BY <1>12 DEF StopCloseHandle, AppUnchanged, ListOfPins, pinVars, history, appVars
<1>13. CASE CreatePipe
  BY <1>13 DEF CreatePipe, AppUnchanged, ListOfPins, pinVars, history, appVars
<1>14. CASE RunPauses
  BY <1>14 DEF RunPauses, InitializePipe, ListOfPins, pinVars, history, appVars
<1>15. CASE RunRuns
  BY <1>15 DEF RunRuns, ListOfPins, pinVars, history, appVars
<1>16. CASE ServerStart
  BY <1>16 DEF ServerStart, ServerUnchanged, ListOfPins, pinVars, history, appVars
<1>17. CASE ServerLoop
  BY <1>17 DEF ServerLoop, ServerUnchanged, ListOfPins, pinVars, history, appVars
<1>18. CASE ServerListen
  BY <1>18 DEF ServerListen, ServerUnchanged, ListOfPins, pinVars, history, appVars
<1>19. CASE ServerAccepted
  BY <1>19 DEF ServerAccepted, ServerUnchanged, ListOfPins, pinVars, history, appVars
<1>20. CASE ServerServe
  BY <1>20 DEF ServerServe, ServerUnchanged, ListOfPins, pinVars, history, appVars
<1>21. CASE ServerList
  BY <1>21 DEF ServerList, ServerUnchanged, ListOfPins, pinVars, history, appVars
<1>22. CASE ServerPin
  BY <1>22 DEF ServerPin, ServerUnchanged, ListOfPins, pinVars, history, appVars
<1>23. CASE ServerWrite
  BY <1>23 DEF ServerWrite, ServerUnchanged, ListOfPins, pinVars, history, appVars
<1>24. CASE ServerEnd
  BY <1>24 DEF ServerEnd, ServerUnchanged, ListOfPins, pinVars, history, appVars
<1>25. CASE ServerFlush
  BY <1>25 DEF ServerFlush, CatalogueOver, ServerUnchanged, ListOfPins, pinVars, history, appVars
<1>26. CASE ServerExit
  BY <1>26 DEF ServerExit, ServerUnchanged, ListOfPins, pinVars, history, appVars
<1>27. CASE ClientOpen
  BY <1>27 DEF ClientOpen, ClientUnchanged, ListOfPins, pinVars, history, appVars
<1>28. CASE ClientRead
  BY <1>28 DEF ClientRead, ClientUnchanged, ListOfPins, pinVars, history, appVars
<1>29. CASE ClientClose
  BY <1>29 DEF ClientClose, ClientUnchanged, ListOfPins, pinVars, history, appVars
<1>30. CASE UNCHANGED vars
  BY <1>30 DEF vars, ListOfPins, pinVars, history, appVars
<1>31. CASE RenameDelete
  <2>1. m_pinList' = m_pinList /\ nextPin' = nextPin /\ renameAt' = renameAt /\ pcApp' = "erase"
    BY <1>31 DEF RenameDelete
  <2>2. renameAt \in DOMAIN m_pinList
    BY <1>31 DEF RenameDelete, ListOfPins, Types
  <2>3. stable' \subseteq connected' /\ connected' \subseteq live'
    BY <1>31 DEF RenameDelete, ListOfPins
  <2>. QED
    BY <2>1, <2>2, <2>3 DEF ListOfPins
<1>32. CASE RenameErase
  <2>1. renameAt \in DOMAIN m_pinList /\ m_pinList' = RemoveAt(m_pinList, renameAt)
    BY <1>32 DEF RenameErase, ListOfPins
  <2>2. /\ Len(m_pinList') \in Nat /\ DOMAIN m_pinList' = 1..Len(m_pinList')
        /\ \A k \in DOMAIN m_pinList' :
               IF k < renameAt THEN k \in DOMAIN m_pinList /\ m_pinList'[k] = m_pinList[k]
               ELSE k + 1 \in DOMAIN m_pinList /\ m_pinList'[k] = m_pinList[k + 1]
    BY <2>1, RemoveFromList DEF Types
  <2>3. \A k \in DOMAIN m_pinList' : m_pinList'[k] <= nextPin
    BY <2>2 DEF ListOfPins
  <2>4. \A a, b \in DOMAIN m_pinList' : a < b => m_pinList'[a] < m_pinList'[b]
    <3> SUFFICES ASSUME NEW a \in DOMAIN m_pinList', NEW b \in DOMAIN m_pinList', a < b
                 PROVE  m_pinList'[a] < m_pinList'[b]
      OBVIOUS
    <3>1. a \in Nat /\ b \in Nat /\ renameAt \in Nat
      BY <2>2 DEF Types
    <3>2. CASE b < renameAt
      BY <2>2, <3>1, <3>2 DEF ListOfPins
    <3>3. CASE a < renameAt /\ ~(b < renameAt)
      <4>1. a \in DOMAIN m_pinList /\ b + 1 \in DOMAIN m_pinList /\ a < b + 1
        BY <2>2, <3>1, <3>3
      <4>. QED
        BY <2>2, <3>3, <4>1 DEF ListOfPins
    <3>4. CASE ~(a < renameAt)
      <4>1. /\ a + 1 \in DOMAIN m_pinList /\ b + 1 \in DOMAIN m_pinList /\ a + 1 < b + 1
            /\ ~(b < renameAt)
        BY <2>2, <3>1, <3>4
      <4>. QED
        BY <2>2, <3>4, <4>1 DEF ListOfPins
    <3>. QED
      BY <3>1, <3>2, <3>3, <3>4
  <2>5. renameAt' > 0 /\ pcApp' = "rename" /\ UNCHANGED <<nextPin, stable, connected, live>>
    BY <1>32 DEF RenameErase, Types
  <2>. QED
    BY <2>3, <2>4, <2>5 DEF ListOfPins
<1>33. CASE RenameClear
  BY <1>33 DEF RenameClear, ListOfPins
<1>34. CASE RenameAdd
  <2>1. \/ pcApp' = "create" \/ pcApp' = "idle"
    BY <1>34 DEF RenameAdd
  <2>. QED
    BY <1>34, <2>1, AddStep DEF RenameAdd, ListOfPins, history
<1>35. CASE ServerItem
  BY <1>35 DEF ServerItem, ServerUnchanged, ListOfPins, pinVars, history, appVars
<1>. QED
  BY <1>1, <1>2, <1>3, <1>4, <1>5, <1>6, <1>7, <1>8, <1>9, <1>10, <1>11, <1>12, <1>13,
     <1>14, <1>15, <1>16, <1>17, <1>18, <1>19, <1>20, <1>21, <1>22, <1>23, <1>24, <1>25,
     <1>26, <1>27, <1>28, <1>29, <1>30, <1>31, <1>32, <1>33, <1>34, <1>35
  DEF Next, Renaming, Stopping, Server

\* What a client is told begins when it opens the pipe, which the server has just then
\* begun to listen on.
LEMMA NewClientStep ==
    ASSUME Types, PipeOfServer, NewClient, [Next]_vars
    PROVE  NewClient'
<1>0. /\ \A p \in {NoPipe, Listening, ClientClosed, Disconnected} : p.client = "nobody"
      /\ \A p \in {NoPipe, ClientClosed, Disconnected} : p.state # "listening"
      /\ \A c \in {"self", "source"} : /\ Opened(c).client = c /\ Opened(c).queue = << >>
                                       /\ Opened(c).state = "connected"
  BY PipeValues DEF Clients
<1>00. /\ pipe.queue # << >> => /\ ReadMsg(pipe).client = pipe.client
                                /\ ReadMsg(pipe).state = pipe.state
       /\ \A m \in Nat : /\ Written(pipe, m).client = pipe.client
                         /\ Written(pipe, m).state = pipe.state
       /\ cur \in Nat /\ EndMessage \in Nat
  BY ReadPipe, WritePipe DEF Types, EndMessage
<1>1. ASSUME NEW p \in Pins, Connect(p) PROVE NewClient'
  BY <1>0, <1>00, <1>1 DEF Connect, AddInputPin, CanOpen, NewClient, PipeOfServer, pinVars, history,
     appVars, serverVars
<1>2. ASSUME NEW p \in Pins, Disconnect(p) PROVE NewClient'
  BY <1>0, <1>00, <1>2 DEF Disconnect, CanOpen, NewClient, PipeOfServer, pinVars, history, appVars,
     serverVars
<1>3. CASE SetStreamName
  BY <1>0, <1>00, <1>3 DEF SetStreamName, CanOpen, NewClient, PipeOfServer, pinVars, history,
     appVars, serverVars
<1>4. CASE Pause
  BY <1>0, <1>00, <1>4 DEF Pause, InitializePipe, CanOpen, NewClient, PipeOfServer,
     pinVars, history, appVars, serverVars
<1>5. CASE Run
  BY <1>0, <1>00, <1>5 DEF Run, CanOpen, NewClient, PipeOfServer, pinVars, history, appVars,
     serverVars
<1>6. CASE Stop
  BY <1>0, <1>00, <1>6 DEF Stop, CanOpen, NewClient, PipeOfServer, pinVars, history, appVars,
     serverVars
<1>7. CASE Delete
  BY <1>0, <1>00, <1>7 DEF Delete, CanOpen, NewClient, PipeOfServer, pinVars, history, appVars,
     serverVars
<1>8. CASE StopOpen
  BY <1>0, <1>00, <1>8 DEF StopOpen, AppUnchanged, CanOpen, NewClient, PipeOfServer,
     pinVars, history, appVars, serverVars
<1>9. CASE StopClose
  BY <1>0, <1>00, <1>9 DEF StopClose, AppUnchanged, CanOpen, NewClient, PipeOfServer,
     pinVars, history, appVars, serverVars
<1>10. CASE StopServerGone
  BY <1>0, <1>00, <1>10 DEF StopServerGone, AppUnchanged, CanOpen, NewClient, PipeOfServer,
     pinVars, history, appVars, serverVars
<1>11. CASE StopTimeout
  BY <1>0, <1>00, <1>11 DEF StopTimeout, CatalogueOver, CanOpen, NewClient, PipeOfServer,
     pinVars, history, appVars, serverVars
<1>12. CASE StopCloseHandle
  BY <1>0, <1>00, <1>12 DEF StopCloseHandle, AppUnchanged, CanOpen, NewClient,
     PipeOfServer, pinVars, history, appVars, serverVars
<1>13. CASE CreatePipe
  BY <1>0, <1>00, <1>13 DEF CreatePipe, AppUnchanged, CanOpen, NewClient, PipeOfServer,
     pinVars, history, appVars, serverVars
<1>14. CASE RunPauses
  BY <1>0, <1>00, <1>14 DEF RunPauses, InitializePipe, CanOpen, NewClient, PipeOfServer,
     pinVars, history, appVars, serverVars
<1>15. CASE RunRuns
  BY <1>0, <1>00, <1>15 DEF RunRuns, CanOpen, NewClient, PipeOfServer, pinVars, history, appVars,
     serverVars
<1>16. CASE ServerStart
  BY <1>0, <1>00, <1>16 DEF ServerStart, ServerUnchanged, CanOpen, NewClient, PipeOfServer,
     pinVars, history, appVars, serverVars
<1>17. CASE ServerLoop
  BY <1>0, <1>00, <1>17 DEF ServerLoop, ServerUnchanged, CanOpen, NewClient, PipeOfServer,
     pinVars, history, appVars, serverVars
<1>18. CASE ServerListen
  BY <1>0, <1>00, <1>18 DEF ServerListen, ServerUnchanged, CanOpen, NewClient,
     PipeOfServer, pinVars, history, appVars, serverVars
<1>19. CASE ServerAccepted
  BY <1>0, <1>00, <1>19 DEF ServerAccepted, ServerUnchanged, CanOpen, NewClient,
     PipeOfServer, pinVars, history, appVars, serverVars
<1>20. CASE ServerServe
  BY <1>0, <1>00, <1>20 DEF ServerServe, ServerUnchanged, CanOpen, NewClient, PipeOfServer,
     pinVars, history, appVars, serverVars
<1>21. CASE ServerList
  BY <1>0, <1>00, <1>21 DEF ServerList, ServerUnchanged, CanOpen, NewClient, PipeOfServer,
     pinVars, history, appVars, serverVars
<1>22. CASE ServerPin
  BY <1>0, <1>00, <1>22 DEF ServerPin, ServerUnchanged, CanOpen, NewClient, PipeOfServer,
     pinVars, history, appVars, serverVars
<1>23. CASE ServerWrite
  BY <1>0, <1>00, <1>23 DEF ServerWrite, ServerUnchanged, CanOpen, NewClient, PipeOfServer,
     pinVars, history, appVars, serverVars
<1>24. CASE ServerEnd
  BY <1>0, <1>00, <1>24 DEF ServerEnd, ServerUnchanged, CanOpen, NewClient, PipeOfServer,
     pinVars, history, appVars, serverVars
<1>25. CASE ServerFlush
  BY <1>0, <1>00, <1>25 DEF ServerFlush, CatalogueOver, ServerUnchanged, CanOpen,
     NewClient, PipeOfServer, pinVars, history, appVars, serverVars
<1>26. CASE ServerExit
  BY <1>0, <1>00, <1>26 DEF ServerExit, ServerUnchanged, CanOpen, NewClient, PipeOfServer,
     pinVars, history, appVars, serverVars
<1>27. CASE ClientOpen
  BY <1>0, <1>00, <1>27 DEF ClientOpen, ClientUnchanged, CanOpen, NewClient, PipeOfServer,
     pinVars, history, appVars, serverVars
<1>28. CASE ClientRead
  BY <1>0, <1>00, <1>28 DEF ClientRead, ClientUnchanged, CanOpen, NewClient, PipeOfServer,
     pinVars, history, appVars, serverVars
<1>29. CASE ClientClose
  BY <1>0, <1>00, <1>29 DEF ClientClose, ClientUnchanged, CanOpen, NewClient, PipeOfServer,
     pinVars, history, appVars, serverVars
<1>30. CASE UNCHANGED vars
  BY <1>0, <1>00, <1>30 DEF vars, CanOpen, NewClient, PipeOfServer, pinVars, history, appVars,
     serverVars
<1>31. CASE RenameDelete
  BY <1>0, <1>00, <1>31 DEF RenameDelete, RenameUnchanged, CanOpen, NewClient,
     PipeOfServer, pinVars, history, appVars, serverVars
<1>32. CASE RenameErase
  BY <1>0, <1>00, <1>32 DEF RenameErase, RenameUnchanged, CanOpen, NewClient,
     PipeOfServer, pinVars, history, appVars, serverVars
<1>33. CASE RenameClear
  BY <1>0, <1>00, <1>33 DEF RenameClear, RenameUnchanged, CanOpen, NewClient,
     PipeOfServer, pinVars, history, appVars, serverVars
<1>34. CASE RenameAdd
  BY <1>0, <1>00, <1>34 DEF RenameAdd, AddInputPin, RenameUnchanged, CanOpen, NewClient,
     PipeOfServer, pinVars, history, appVars, serverVars
<1>35. CASE ServerItem
  BY <1>0, <1>00, <1>35 DEF ServerItem, ServerUnchanged, CanOpen, NewClient,
     PipeOfServer, pinVars, history, appVars, serverVars
<1>. QED
  BY <1>1, <1>2, <1>3, <1>4, <1>5, <1>6, <1>7, <1>8, <1>9, <1>10, <1>11, <1>12, <1>13,
     <1>14, <1>15, <1>16, <1>17, <1>18, <1>19, <1>20, <1>21, <1>22, <1>23, <1>24, <1>25,
     <1>26, <1>27, <1>28, <1>29, <1>30, <1>31, <1>32, <1>33, <1>34, <1>35
  DEF Next, Renaming, Stopping, Server

\* A client that reads was told what it reads before.
LEMMA ReadStep ==
    ASSUME Types, ClientRead
    PROVE  Told' = Told /\ pipe'.client = pipe.client
<1>1. got \in Seq(Nat) /\ pipe \in Pipes(Nat) /\ pipe.queue \in Seq(Nat)
  BY DEF Types, Pipes
<1>2. /\ pipe.client = "source" /\ pipe.queue # << >> /\ pipe' = ReadMsg(pipe)
      /\ got' = Append(got, Head(pipe.queue))
  BY DEF ClientRead
<1>3. pipe'.client = "source" /\ pipe'.queue = Tail(pipe.queue)
  BY <1>1, <1>2, ReadPipe
<1>. QED
  BY <1>1, <1>2, <1>3, ToldRead DEF Told

\* What the server writes is told to the client that has the pipe open.
LEMMA WriteStep ==
    ASSUME Types, NewClient, NEW m \in Nat, got' = got,
           pipe' = IF WriteFails(pipe) THEN pipe ELSE Written(pipe, m)
    PROVE  /\ pipe'.client = pipe.client
           /\ Told' = IF pipe.client = "source" THEN Append(Told, m) ELSE Told
<1>1. got \in Seq(Nat) /\ pipe \in Pipes(Nat) /\ pipe.queue \in Seq(Nat)
  BY DEF Types, Pipes
<1>2. pipe' = Written(pipe, m) => pipe'.client = pipe.client /\ pipe'.queue = Append(pipe.queue, m)
  BY <1>1, WritePipe
<1>3. pipe.client = "source" => pipe' = Written(pipe, m)
  BY DEF NewClient, WriteFails
<1>. QED
  BY ZenonT(60), <1>1, <1>2, <1>3, ToldWritten DEF Told

\* What a client was told grows with what the server writes, or is forgotten.
LEMMA ToldStep ==
    ASSUME Types, NewClient, [Next]_vars
    PROVE  \/ Told' = Told /\ pipe'.client = pipe.client
           \/ Told' = << >> /\ ClientOpen
           \/ pipe'.client # "source" /\ Told' \in {got, << >>}
           \/ ServerWrite /\ pipe.client = "source" /\ Told' = Append(Told, cur)
           \/ ServerEnd /\ pipe.client = "source" /\ Told' = Append(Told, EndMessage)
<1>0. /\ \A p \in {NoPipe, Listening, ClientClosed, Disconnected} : p.client = "nobody"
      /\ \A c \in {"self", "source"} : Opened(c).client = c /\ Opened(c).queue = << >>
      /\ << >> \o << >> = << >>
  BY PipeValues DEF Clients
<1>00. cur \in Nat /\ EndMessage \in Nat
  BY DEF Types, EndMessage
<1> DEFINE Result ==
        \/ Told' = Told /\ pipe'.client = pipe.client
        \/ Told' = << >> /\ ClientOpen
        \/ pipe'.client # "source" /\ Told' \in {got, << >>}
        \/ ServerWrite /\ pipe.client = "source" /\ Told' = Append(Told, cur)
        \/ ServerEnd /\ pipe.client = "source" /\ Told' = Append(Told, EndMessage)
<1> SUFFICES Result
  OBVIOUS
<1>01. UNCHANGED <<pipe, got>> => Result
  BY DEF Told
<1>02. /\ got' = got \/ got' = << >>
       /\ pipe' \in {NoPipe, Listening, ClientClosed, Disconnected, Opened("self")}
       => Result
  BY <1>0 DEF Told
<1> HIDE DEF Result
<1>1. ASSUME NEW p \in Pins, Connect(p) PROVE Result
  BY <1>01, <1>02, <1>1 DEF Connect, AddInputPin, pinVars, history, appVars, serverVars
<1>2. ASSUME NEW p \in Pins, Disconnect(p) PROVE Result
  BY <1>01, <1>02, <1>2 DEF Disconnect, pinVars, history, appVars, serverVars
<1>3. CASE SetStreamName
  BY <1>01, <1>02, <1>3 DEF SetStreamName, pinVars, history, appVars, serverVars
<1>4. CASE Pause
  BY <1>01, <1>02, <1>4 DEF Pause, InitializePipe, pinVars, history, appVars, serverVars
<1>5. CASE Run
  BY <1>01, <1>02, <1>5 DEF Run, pinVars, history, appVars, serverVars
<1>6. CASE Stop
  BY <1>01, <1>02, <1>6 DEF Stop, pinVars, history, appVars, serverVars
<1>7. CASE Delete
  BY <1>01, <1>02, <1>7 DEF Delete, pinVars, history, appVars, serverVars
<1>8. CASE StopOpen
  BY <1>01, <1>02, <1>8 DEF StopOpen, AppUnchanged, pinVars, history, appVars, serverVars
<1>9. CASE StopClose
  BY <1>01, <1>02, <1>9 DEF StopClose, AppUnchanged, pinVars, history, appVars, serverVars
<1>10. CASE StopServerGone
  BY <1>01, <1>02, <1>10 DEF StopServerGone, AppUnchanged, pinVars, history, appVars, serverVars
<1>11. CASE StopTimeout
  BY <1>01, <1>02, <1>11 DEF StopTimeout, CatalogueOver, pinVars, history, appVars, serverVars
<1>12. CASE StopCloseHandle
  BY <1>01, <1>02, <1>12 DEF StopCloseHandle, AppUnchanged, pinVars, history, appVars, serverVars
<1>13. CASE CreatePipe
  BY <1>01, <1>02, <1>13 DEF CreatePipe, AppUnchanged, pinVars, history, appVars, serverVars
<1>14. CASE RunPauses
  BY <1>01, <1>02, <1>14 DEF RunPauses, InitializePipe, pinVars, history, appVars, serverVars
<1>15. CASE RunRuns
  BY <1>01, <1>02, <1>15 DEF RunRuns, pinVars, history, appVars, serverVars
<1>16. CASE ServerStart
  BY <1>01, <1>02, <1>16 DEF ServerStart, ServerUnchanged, pinVars, history, appVars, serverVars
<1>17. CASE ServerLoop
  BY <1>01, <1>02, <1>17 DEF ServerLoop, ServerUnchanged, pinVars, history, appVars, serverVars
<1>18. CASE ServerListen
  BY <1>01, <1>02, <1>18 DEF ServerListen, ServerUnchanged, pinVars, history, appVars, serverVars
<1>19. CASE ServerAccepted
  BY <1>01, <1>02, <1>19 DEF ServerAccepted, ServerUnchanged, pinVars, history, appVars, serverVars
<1>20. CASE ServerServe
  BY <1>01, <1>02, <1>20 DEF ServerServe, ServerUnchanged, pinVars, history, appVars, serverVars
<1>21. CASE ServerList
  BY <1>01, <1>02, <1>21 DEF ServerList, ServerUnchanged, pinVars, history, appVars, serverVars
<1>22. CASE ServerPin
  BY <1>01, <1>02, <1>22 DEF ServerPin, ServerUnchanged, pinVars, history, appVars, serverVars
<1>23. CASE ServerWrite
  <2>1. pipe' = (IF WriteFails(pipe) THEN pipe ELSE Written(pipe, cur)) /\ got' = got
    BY <1>23 DEF ServerWrite, ServerUnchanged
  <2>. QED
    BY <1>00, <1>23, <2>1, WriteStep DEF Result
<1>24. CASE ServerEnd
  <2>1. pipe' = (IF WriteFails(pipe) THEN pipe ELSE Written(pipe, EndMessage)) /\ got' = got
    BY <1>24 DEF ServerEnd, ServerUnchanged
  <2>. QED
    BY <1>00, <1>24, <2>1, WriteStep DEF Result
<1>25. CASE ServerFlush
  BY <1>01, <1>02, <1>25 DEF ServerFlush, CatalogueOver, ServerUnchanged, pinVars, history, appVars,
     serverVars
<1>26. CASE ServerExit
  BY <1>01, <1>02, <1>26 DEF ServerExit, ServerUnchanged, pinVars, history, appVars, serverVars
<1>27. CASE ClientOpen
  <2>1. pipe' = Opened("source") /\ got' = << >>
    BY <1>27 DEF ClientOpen
  <2>. QED
    BY <1>0, <1>27, <2>1 DEF Result, Told
<1>28. CASE ClientRead
  BY <1>28, ReadStep DEF Result
<1>29. CASE ClientClose
  BY <1>01, <1>02, <1>29 DEF ClientClose, ClientUnchanged, pinVars, history, appVars, serverVars
<1>30. CASE UNCHANGED vars
  BY <1>01, <1>02, <1>30 DEF vars, pinVars, history, appVars, serverVars
<1>31. CASE RenameDelete
  BY <1>01, <1>02, <1>31 DEF RenameDelete, RenameUnchanged, pinVars, history, appVars,
     serverVars
<1>32. CASE RenameErase
  BY <1>01, <1>02, <1>32 DEF RenameErase, RenameUnchanged, pinVars, history, appVars,
     serverVars
<1>33. CASE RenameClear
  BY <1>01, <1>02, <1>33 DEF RenameClear, RenameUnchanged, pinVars, history, appVars,
     serverVars
<1>34. CASE RenameAdd
  BY <1>01, <1>02, <1>34 DEF RenameAdd, AddInputPin, RenameUnchanged, pinVars, history, appVars,
     serverVars
<1>35. CASE ServerItem
  BY <1>01, <1>02, <1>35 DEF ServerItem, ServerUnchanged, pinVars, history, appVars,
     serverVars
<1>. QED
  BY <1>1, <1>2, <1>3, <1>4, <1>5, <1>6, <1>7, <1>8, <1>9, <1>10, <1>11, <1>12, <1>13,
     <1>14, <1>15, <1>16, <1>17, <1>18, <1>19, <1>20, <1>21, <1>22, <1>23, <1>24, <1>25,
     <1>26, <1>27, <1>28, <1>29, <1>30, <1>31, <1>32, <1>33, <1>34, <1>35
  DEF Next, Renaming, Stopping, Server

\* A catalogue that was cut short stays so until the next begins.
LEMMA RenamedStep == ASSUME Types, [Next]_vars, renamed, ~renamed' PROVE pcServer = "serve"
<1>1. ASSUME renamed' = renamed \/ renamed' PROVE pcServer = "serve"
  BY <1>1
<1>2. CASE \E p \in Pins : Connect(p) \/ Disconnect(p)
  BY <1>1, <1>2 DEF Connect, Disconnect, history
<1>3. CASE SetStreamName \/ Pause \/ Run \/ Stop \/ Delete
  BY <1>1, <1>3 DEF SetStreamName, Pause, Run, Stop, Delete, history
<1>4. CASE Renaming
  BY <1>1, <1>4 DEF Renaming, RenameDelete, RenameErase, RenameClear, RenameAdd, history
<1>5. CASE Stopping
  BY <1>1, <1>5 DEF Stopping, StopOpen, StopClose, StopServerGone, StopTimeout,
     StopCloseHandle, CreatePipe, RunPauses, RunRuns, AppUnchanged, history
<1>6. CASE Server
  BY <1>1, <1>6 DEF Server, ServerStart, ServerLoop, ServerListen, ServerAccepted,
     ServerServe, ServerList, ServerItem, ServerPin, ServerWrite, ServerEnd, ServerFlush,
     ServerExit, history
<1>7. CASE ClientOpen \/ ClientRead \/ ClientClose \/ UNCHANGED vars
  BY <1>1, <1>7 DEF ClientOpen, ClientRead, ClientClose, ClientUnchanged, vars, history
<1>. QED
  BY <1>2, <1>3, <1>4, <1>5, <1>6, <1>7 DEF Next

\* Whatever is told keeps its shape: a pin is written behind older ones, and nothing
\* behind the end.
LEMMA ShapeStep ==
    ASSUME Types, NewClient, Whole => Shape(Told), Owed, [Next]_vars, Whole'
    PROVE  Shape(Told')
<1>0. ~renamed' /\ pipe'.client = "source"
  BY DEF Whole
<1>1. Told \in Seq(Nat) /\ got \in Seq(Nat) /\ cur \in Nat
  BY ToldType DEF Types
<1>2. ASSUME NEW m \in Nat, EndMessage \notin Members(Told),
             m # EndMessage => \A p \in Members(Told) : p < m, Whole
      PROVE  Shape(Append(Told, m))
  <2>1. /\ DOMAIN Told = 1..Len(Told) /\ Len(Told) \in Nat
        /\ DOMAIN Append(Told, m) = 1..Len(Told) + 1 /\ Append(Told, m)[Len(Told) + 1] = m
        /\ \A k \in DOMAIN Told : Append(Told, m)[k] = Told[k]
        /\ Len(Append(Told, m)) = Len(Told) + 1
    BY <1>1
  <2>2. \A k \in DOMAIN Told : Told[k] \in Members(Told)
    BY DEF Members
  <2>3. ASSUME NEW a \in DOMAIN Append(Told, m), NEW b \in DOMAIN Append(Told, m), a < b,
               Append(Told, m)[b] # EndMessage
        PROVE  Append(Told, m)[a] < Append(Told, m)[b]
    <3>1. a \in DOMAIN Told
      BY <2>1, <2>3
    <3>2. CASE b \in DOMAIN Told
      BY <1>2, <2>1, <2>3, <3>1, <3>2 DEF Shape
    <3>3. CASE b = Len(Told) + 1
      BY <1>2, <2>1, <2>2, <2>3, <3>1, <3>3
    <3>. QED
      BY <2>1, <3>2, <3>3
  <2>4. ASSUME NEW a \in DOMAIN Append(Told, m), Append(Told, m)[a] = EndMessage
        PROVE  a = Len(Append(Told, m))
    BY <1>2, <2>1, <2>2, <2>4
  <2>. QED
    BY <2>3, <2>4 DEF Shape
<1>3. Shape(<< >>)
  BY DEF Shape
<1>4. CASE Told' = Told /\ pipe'.client = pipe.client
  <2>1. CASE ~renamed
    BY <1>0, <1>4, <2>1 DEF Whole
  <2>2. CASE renamed
    <3>1. pcServer = "serve"
      BY <1>0, <2>2, RenamedStep
    <3>2. Told = << >> \o << >>
      BY <1>0, <1>4, <3>1 DEF NewClient, Told
    <3>. QED
      BY <1>3, <1>4, <3>2
  <2>. QED
    BY <2>1, <2>2
<1>5. CASE ServerWrite /\ pipe.client = "source" /\ Told' = Append(Told, cur)
  <2>1. pcServer = "write" /\ Whole
    BY <1>0, <1>5 DEF ServerWrite, Whole, history
  <2>2. EndMessage \notin Members(Told) /\ \A p \in Members(Told) : p < cur
    BY <2>1 DEF Owed, Older
  <2>. QED
    BY <1>1, <1>2, <1>5, <2>1, <2>2
<1>6. CASE ServerEnd /\ pipe.client = "source" /\ Told' = Append(Told, EndMessage)
  <2>1. pcServer = "end" /\ Whole
    BY <1>0, <1>6 DEF ServerEnd, Whole, history
  <2>2. EndMessage \notin Members(Told) /\ EndMessage \in Nat
    BY <2>1 DEF Owed, Older, EndMessage
  <2>. QED
    BY <1>2, <1>6, <2>1, <2>2
<1>7. CASE Told' = << >>
  BY <1>3, <1>7
<1>. QED
  BY <1>0, <1>4, <1>5, <1>6, <1>7, ToldStep

\* A pin added at the end of the list is owed to nobody.
LEMMA OwedAdd ==
    ASSUME Types, ListOfPins, Owed, NEW conn, AddInputPin(m_pinList, conn),
           UNCHANGED <<pcServer, i, cur, stable, renamed>>, Told' = Told,
           pipe'.client = pipe.client
    PROVE  Owed'
<1>1. /\ UNCHANGED <<pcServer, i, cur, stable, renamed>> /\ Told' = Told
      /\ pipe'.client = pipe.client
  OBVIOUS
<1>06. /\ Told \in Seq(Nat) /\ Members(Told) \subseteq Nat
       /\ DOMAIN m_pinList = 1..Len(m_pinList) /\ Len(m_pinList) \in Nat
       /\ \A k \in DOMAIN m_pinList : m_pinList[k] \in Nat \ {0}
       /\ i \in Nat /\ cur \in Nat /\ nextPin \in Nat /\ EndMessage = 0
  <2>1. Told \in Seq(Nat)
    BY ToldType
  <2>2. Members(Told) \subseteq Nat
    BY <2>1 DEF Members
  <2>. QED
    BY <2>1, <2>2 DEF Types, EndMessage
<1> HIDE DEF Owed
<1>2. CASE UNCHANGED <<m_pinList, nextPin>>
  BY <1>1, <1>2 DEF Owed, From, Older, Whole
<1>3. CASE m_pinList' = Append(m_pinList, nextPin + 1) /\ nextPin' = nextPin + 1
  <2>1. /\ DOMAIN m_pinList' = DOMAIN m_pinList \cup {Len(m_pinList) + 1}
        /\ m_pinList'[Len(m_pinList) + 1] = nextPin + 1
        /\ \A k \in DOMAIN m_pinList : m_pinList'[k] = m_pinList[k]
    BY SMTT(40), <1>06, <1>3 DEF Types
  <2>2. ASSUME NEW k \in Nat
        PROVE  From(k) \subseteq From(k)' /\ From(k)' \subseteq From(k) \cup {nextPin + 1}
    BY <2>1 DEF From
  <2>3. i + 1 \in Nat
    BY <1>06
  <2>4. /\ From(i)' \subseteq From(i) \cup {nextPin + 1} /\ From(i) \subseteq From(i)'
        /\ From(i + 1)' \subseteq From(i + 1) \cup {nextPin + 1}
        /\ From(i + 1) \subseteq From(i + 1)'
    <3>1. PICK k \in Nat, l \in Nat : k = i /\ l = i + 1
      BY <1>06, <2>3
    <3>2. From(i)' = From(k)' /\ From(i + 1)' = From(l)'
      BY <1>1, <3>1 DEF From
    <3>3. From(i) = From(k) /\ From(i + 1) = From(l)
      BY <3>1
    <3>. QED
      BY <2>2, <3>2, <3>3
  <2>5. \A told \in SUBSET Nat : Older(told) =>
            Older(told)' /\ \A q \in told : q < nextPin + 1
    BY <1>06, <1>3 DEF Older
  <2>6. Members(Told) \cup {cur} \in SUBSET Nat
    BY <1>06
  <2>7. Len(m_pinList') \in Nat /\ Len(m_pinList) <= Len(m_pinList')
    BY <1>06, <1>3 DEF Types
  <2>8. Whole' = Whole /\ (i <= Len(m_pinList) => i <= Len(m_pinList'))
    BY <1>06, <1>1, <2>7 DEF Whole
  <2>. QED
    BY <1>06, <1>1, <2>4, <2>5, <2>6, <2>8 DEF Owed
<1>. QED
  BY <1>2, <1>3 DEF AddInputPin

\* The catalogue goes on owing every pin that stays connected, until it is told: the
\* list grows at its end and is walked on by one, unless it is cut short.
LEMMA OwedStep ==
    ASSUME Types, ListOfPins, NewClient, Owed, [Next]_vars
    PROVE  Owed'
<1>01. /\ UNCHANGED <<pcServer, i, cur, m_pinList, nextPin, renamed>>
       /\ Told' = Told /\ pipe'.client = pipe.client /\ stable' \subseteq stable
       => Owed'
  BY DEF Owed, From, Older, Whole
<1>02. pcServer' \notin {"list", "item", "pin", "write", "end", "flush"} => Owed'
  BY DEF Owed
<1>03. pipe'.client # "source" \/ renamed' => Owed'
  BY DEF Owed, Whole
<1>04. UNCHANGED <<pipe, got>> => Told' = Told /\ pipe'.client = pipe.client
  BY DEF Told
<1>05. \A p \in {NoPipe, Listening, ClientClosed, Disconnected, Opened("self")} :
           p.client # "source"
  BY PipeValues DEF Clients
<1>06. /\ Told \in Seq(Nat) /\ Members(Told) \subseteq Nat
       /\ DOMAIN m_pinList = 1..Len(m_pinList) /\ Len(m_pinList) \in Nat
       /\ \A k \in DOMAIN m_pinList : m_pinList[k] \in Nat \ {0}
       /\ i \in Nat /\ cur \in Nat /\ nextPin \in Nat /\ EndMessage = 0
  <2>1. Told \in Seq(Nat)
    BY ToldType
  <2>2. Members(Told) \subseteq Nat
    BY <2>1 DEF Members
  <2>. QED
    BY <2>1, <2>2 DEF Types, EndMessage
<1> HIDE DEF Owed
<1>1. ASSUME NEW p \in Pins, Connect(p) PROVE Owed'
  <2>1. /\ UNCHANGED <<pcServer, i, cur, stable, renamed>> /\ Told' = Told
        /\ pipe'.client = pipe.client
    BY <1>04, <1>1 DEF Connect, serverVars, history
  <2>. QED
    BY <1>1, <2>1, OwedAdd DEF Connect
<1>2. ASSUME NEW p \in Pins, Disconnect(p) PROVE Owed'
  BY <1>01, <1>02, <1>03, <1>04, <1>05, <1>2 DEF Disconnect, pinVars, history, appVars, serverVars
<1>3. CASE SetStreamName
  BY <1>01, <1>04, <1>3 DEF SetStreamName, pinVars, history, serverVars
<1>4. CASE Pause
  BY <1>01, <1>02, <1>03, <1>04, <1>05, <1>4 DEF Pause, InitializePipe, pinVars, history, appVars,
     serverVars
<1>5. CASE Run
  BY <1>01, <1>02, <1>03, <1>04, <1>05, <1>5 DEF Run, pinVars, history, appVars, serverVars
<1>6. CASE Stop
  BY <1>01, <1>02, <1>03, <1>04, <1>05, <1>6 DEF Stop, pinVars, history, appVars, serverVars
<1>7. CASE Delete
  BY <1>01, <1>02, <1>03, <1>04, <1>05, <1>7 DEF Delete, pinVars, history, appVars, serverVars
<1>8. CASE StopOpen
  BY <1>01, <1>02, <1>03, <1>04, <1>05, <1>8 DEF StopOpen, AppUnchanged, pinVars, history, appVars,
     serverVars
<1>9. CASE StopClose
  BY <1>01, <1>02, <1>03, <1>04, <1>05, <1>9 DEF StopClose, AppUnchanged, pinVars, history, appVars,
     serverVars
<1>10. CASE StopServerGone
  BY <1>01, <1>02, <1>03, <1>04, <1>05, <1>10 DEF StopServerGone, AppUnchanged, pinVars, history,
     appVars, serverVars
<1>11. CASE StopTimeout
  BY <1>01, <1>02, <1>03, <1>04, <1>05, <1>11 DEF StopTimeout, CatalogueOver, pinVars, history,
     appVars, serverVars
<1>12. CASE StopCloseHandle
  BY <1>01, <1>02, <1>03, <1>04, <1>05, <1>12 DEF StopCloseHandle, AppUnchanged, pinVars, history,
     appVars, serverVars
<1>13. CASE CreatePipe
  BY <1>01, <1>02, <1>03, <1>04, <1>05, <1>13 DEF CreatePipe, AppUnchanged, pinVars, history,
     appVars, serverVars
<1>14. CASE RunPauses
  BY <1>01, <1>02, <1>03, <1>04, <1>05, <1>14 DEF RunPauses, InitializePipe, pinVars, history,
     appVars, serverVars
<1>15. CASE RunRuns
  BY <1>01, <1>02, <1>03, <1>04, <1>05, <1>15 DEF RunRuns, pinVars, history, appVars, serverVars
<1>16. CASE ServerStart
  BY <1>01, <1>02, <1>03, <1>04, <1>05, <1>16 DEF ServerStart, ServerUnchanged, pinVars, history,
     appVars, serverVars
<1>17. CASE ServerLoop
  BY <1>01, <1>02, <1>03, <1>04, <1>05, <1>17 DEF ServerLoop, ServerUnchanged, pinVars, history,
     appVars, serverVars
<1>18. CASE ServerListen
  BY <1>01, <1>02, <1>03, <1>04, <1>05, <1>18 DEF ServerListen, ServerUnchanged, pinVars, history,
     appVars, serverVars
<1>19. CASE ServerAccepted
  BY <1>01, <1>02, <1>03, <1>04, <1>05, <1>19 DEF ServerAccepted, ServerUnchanged, pinVars, history,
     appVars, serverVars
<1>20. CASE ServerServe
  <2>1. CASE m_bConnected /\ m_bServerRunning
    <3>1. /\ pcServer = "serve" /\ pcServer' = "list" /\ i' = 1 /\ stable' \subseteq Listed
          /\ UNCHANGED <<m_pinList, nextPin>> /\ Told' = Told /\ pipe'.client = pipe.client
      BY <1>04, <1>20, <2>1 DEF ServerServe, ServerUnchanged, pinVars
    <3>2. pipe.client = "source" => Members(Told) = {}
      BY <3>1 DEF NewClient, Told, Members
    <3>3. Listed \subseteq From(i)'
      BY <1>06, <3>1 DEF Listed, From
    <3>. QED
      BY <3>1, <3>2, <3>3 DEF Owed, Older, Whole
  <2>2. CASE ~(m_bConnected /\ m_bServerRunning)
    BY <1>02, <1>20, <2>2 DEF ServerServe
  <2>. QED
    BY <2>1, <2>2
<1>21. CASE ServerList
  <2>1. /\ pcServer = "list" /\ i > 0 /\ Told' = Told /\ pipe'.client = pipe.client
        /\ UNCHANGED <<m_pinList, nextPin, i, stable, renamed>>
    BY <1>04, <1>21 DEF ServerList, ServerUnchanged, pinVars, history, Types
  <2>2. From(i)' = From(i) /\ Whole' = Whole
    BY <2>1 DEF From, Whole
  <2>3. CASE i <= Len(m_pinList)
    <3>1. pcServer' = "item" /\ i' <= Len(m_pinList')
      BY <1>21, <2>1, <2>3 DEF ServerList
    <3>. QED
      BY <2>1, <2>2, <3>1 DEF Owed, Older
  <2>4. CASE ~(i <= Len(m_pinList))
    <3>1. pcServer' = "end" /\ From(i) = {}
      BY <1>06, <1>21, <2>4 DEF ServerList, From
    <3>. QED
      BY <2>1, <2>2, <3>1 DEF Owed, Older
  <2>. QED
    BY <2>3, <2>4
<1>22. CASE ServerPin
  <2>1. /\ pcServer = "pin" /\ Told' = Told /\ pipe'.client = pipe.client
        /\ UNCHANGED <<m_pinList, nextPin, cur, stable>> /\ Whole' = Whole
    BY <1>04, <1>22 DEF ServerPin, ServerUnchanged, pinVars, history, Whole
  <2>2. CASE pcServer' = "write" /\ i' = i
    BY <2>1, <2>2 DEF Owed, From, Older
  <2>3. CASE cur \notin connected /\ pcServer' = "list" /\ i' = i + 1
    <3>1. pcServer' = "list" /\ i' = i + 1 /\ cur \notin stable
      BY <2>3 DEF ListOfPins
    <3>2. From(i)' = From(i + 1)
      BY <2>1, <3>1 DEF From
    <3>3. ASSUME NEW p \in Members(Told), NEW q \in From(i + 1), p < cur, cur < q PROVE p < q
      <4>1. p \in Nat /\ q \in Nat
        BY <1>06 DEF From
      <4>. QED
        BY <1>06, <3>3, <4>1
    <3>. QED
      BY <2>1, <3>1, <3>2, <3>3 DEF Owed, Older
  <2>. QED
    BY <1>22, <2>2, <2>3 DEF ServerPin
<1>23. CASE ServerWrite
  <2>1. /\ pcServer = "write" /\ pcServer' = "list" /\ i' = i + 1
        /\ UNCHANGED <<m_pinList, nextPin, stable, renamed>> /\ got' = got
        /\ pipe' = IF WriteFails(pipe) THEN pipe ELSE Written(pipe, cur)
    BY <1>23 DEF ServerWrite, ServerUnchanged, pinVars, history
  <2>2. /\ pipe'.client = pipe.client
        /\ pipe.client = "source" => Members(Told)' = Members(Told) \cup {cur}
    <3>1. Members(Append(Told, cur)) = Members(Told) \cup {cur}
      BY <1>06, AppendMembers
    <3>2. /\ pipe'.client = pipe.client
          /\ Told' = IF pipe.client = "source" THEN Append(Told, cur) ELSE Told
      BY <1>06, <2>1, WriteStep
    <3>. QED
      BY <3>1, <3>2 DEF Members
  <2>3. From(i)' = From(i + 1)
    BY <2>1 DEF From
  <2>4. ASSUME NEW p \in Members(Told), NEW q \in From(i + 1), p < cur, cur < q PROVE p < q
    <3>1. p \in Nat /\ q \in Nat
      BY <1>06 DEF From
    <3>. QED
      BY <1>06, <2>4, <3>1
  <2>5. Whole' => Older(Members(Told))' /\ Whole
    BY <2>1, <2>2 DEF Owed, Older, Whole
  <2>. QED
    BY <2>1, <2>2, <2>3, <2>4, <2>5 DEF Owed, Whole
<1>24. CASE ServerEnd
  <2>1. /\ pcServer = "end" /\ pcServer' = "flush" /\ got' = got
        /\ stable' = stable /\ renamed' = renamed
        /\ pipe' = IF WriteFails(pipe) THEN pipe ELSE Written(pipe, EndMessage)
    BY <1>24 DEF ServerEnd, ServerUnchanged, history
  <2>2. /\ pipe'.client = pipe.client
        /\ pipe.client = "source" => Members(Told)' = Members(Told) \cup {EndMessage}
    <3>1. Members(Append(Told, EndMessage)) = Members(Told) \cup {EndMessage}
      BY <1>06, AppendMembers
    <3>2. /\ pipe'.client = pipe.client
          /\ Told' = IF pipe.client = "source" THEN Append(Told, EndMessage) ELSE Told
      BY <1>06, <2>1, WriteStep
    <3>. QED
      BY <3>1, <3>2 DEF Members
  <2>. QED
    BY <2>1, <2>2 DEF Owed, Whole
<1>25. CASE ServerFlush
  BY <1>01, <1>02, <1>03, <1>04, <1>05, <1>25 DEF ServerFlush, CatalogueOver,
     ServerUnchanged, pinVars, history, appVars, serverVars
<1>26. CASE ServerExit
  BY <1>01, <1>02, <1>03, <1>04, <1>05, <1>26 DEF ServerExit, ServerUnchanged, pinVars, history,
     appVars, serverVars
<1>27. CASE ClientOpen
  BY <1>02, <1>27 DEF ClientOpen, CanOpen, NewClient, ClientUnchanged, serverVars
<1>28. CASE ClientRead
  BY <1>01, <1>28, ReadStep DEF ClientRead, ClientUnchanged, serverVars, pinVars, history
<1>29. CASE ClientClose
  BY <1>01, <1>02, <1>03, <1>04, <1>05, <1>29 DEF ClientClose, ClientUnchanged, pinVars, history,
     appVars, serverVars
<1>30. CASE UNCHANGED vars
  BY <1>01, <1>02, <1>03, <1>04, <1>05, <1>30 DEF vars, pinVars, history, appVars, serverVars
<1>31. CASE RenameDelete
  <2>1. stable' \subseteq stable
    BY <1>31 DEF RenameDelete
  <2>. QED
    BY <1>01, <1>04, <1>31, <2>1 DEF RenameDelete, RenameUnchanged, serverVars
<1>32. CASE RenameErase
  BY <1>03, <1>32 DEF RenameErase
<1>33. CASE RenameClear
  BY <1>03, <1>33 DEF RenameClear
<1>34. CASE RenameAdd
  <2>1. /\ UNCHANGED <<pcServer, i, cur, stable, renamed>> /\ Told' = Told
        /\ pipe'.client = pipe.client
    BY <1>04, <1>34 DEF RenameAdd, RenameUnchanged, serverVars, history
  <2>. QED
    BY <1>34, <2>1, OwedAdd DEF RenameAdd
<1>35. CASE ServerItem
  <2>1. /\ pcServer = "item" /\ pcServer' = "pin" /\ i > 0 /\ Told' = Told
        /\ pipe'.client = pipe.client
        /\ UNCHANGED <<m_pinList, nextPin, i, stable, renamed>>
    BY <1>04, <1>35 DEF ServerItem, ServerUnchanged, pinVars, history, Types
  <2>2. From(i + 1)' = From(i + 1) /\ Whole' = Whole
    BY <2>1 DEF From, Whole
  <2>3. CASE i <= Len(m_pinList)
    <3>1. i \in DOMAIN m_pinList /\ cur' = m_pinList[i]
      BY <1>06, <1>35, <2>1, <2>3 DEF ServerItem
    <3>2. cur' \in From(i)
      BY <1>06, <3>1 DEF From
    <3>3. From(i) \subseteq {cur'} \cup From(i + 1)
      BY <1>06, <3>1 DEF From
    <3>4. \A q \in From(i + 1) : cur' < q
      BY SMTT(40), <1>06, <3>1 DEF From, ListOfPins
    <3>5. cur' # EndMessage /\ cur' <= nextPin
      BY <1>06, <3>1 DEF ListOfPins
    <3>. QED
      BY <2>1, <2>2, <3>1, <3>2, <3>3, <3>4, <3>5 DEF Owed, Older
  <2>4. CASE ~(i <= Len(m_pinList))
    BY <2>1, <2>2, <2>4 DEF Owed
  <2>. QED
    BY <2>3, <2>4
<1>. QED
  BY <1>1, <1>2, <1>3, <1>4, <1>5, <1>6, <1>7, <1>8, <1>9, <1>10, <1>11, <1>12, <1>13,
     <1>14, <1>15, <1>16, <1>17, <1>18, <1>19, <1>20, <1>21, <1>22, <1>23, <1>24, <1>25,
     <1>26, <1>27, <1>28, <1>29, <1>30, <1>31, <1>32, <1>33, <1>34, <1>35
  DEF Next, Renaming, Stopping, Server
-----------------------------------------------------------------------------
\* The theorems.

\* A new filter has one pin and no pipe.
LEMMA InitInv == Init => IInv
<1> SUFFICES ASSUME Init PROVE IInv
  OBVIOUS
<1>1. Types
  BY PipeValues DEF Init, Types
<1>2. Told = << >>
  BY PipeValues DEF Init, Told
<1>3. PipeOfServer /\ AllocatorOfConnectedPin /\ NewClient
  BY PipeValues DEF Init, PipeOfServer, AllocatorOfConnectedPin, NewClient
<1>4. ListOfPins
  BY DEF Init, ListOfPins, Members
<1>5. Owed /\ Shape(Told)
  BY <1>2, PipeValues DEF Init, Owed, Whole, Shape
<1>. QED
  BY <1>1, <1>3, <1>4, <1>5 DEF IInv

\* The invariant is inductive.
LEMMA InvStep == IInv /\ [Next]_vars => IInv'
<1> SUFFICES ASSUME IInv, [Next]_vars PROVE IInv'
  OBVIOUS
<1>1. Types' /\ PipeOfServer' /\ ListOfPins' /\ NewClient' /\ Owed' /\ AllocatorOfConnectedPin'
  BY TypesStep, PipeOfServerStep, ListStep, NewClientStep, OwedStep, AllocatorStep DEF IInv
<1>2. Whole' => Shape(Told')
  BY ShapeStep DEF IInv
<1>3. (Whole => Shape(Told))'
  BY <1>2 DEF Shape
<1>. QED
  BY <1>1, <1>3 DEF IInv

\* The invariant holds of every sink filter.
THEOREM Invariance == Spec => []IInv
  BY InitInv, InvStep, PTL DEF Spec

\* The allocator that the filter holds for all its pins is that of a connected one, or
\* of one that a rename deleted under its connection (VirtualStreamSinkInputPin.cpp
\* lines 80 to 130, VirtualStreamSink.h lines 77 to 93).
THEOREM AllocatorHeld == Spec => []AllocatorOfConnectedPin
  BY Invariance, PTL DEF IInv

\* The server thread has a pipe as long as it lives, and a client that has read the
\* end of a catalogue has read every pin of the list that was connected all the while,
\* in the order of the list, however pins were added, connected and let go meanwhile:
\* unless a rename, with whatever connected, cut the list short in the middle
\* (VirtualStreamSink.cpp lines 290 to 363 and 400 to 440).
THEOREM CatalogueRead == Spec => []CatalogueComplete
<1>1. IInv => CatalogueComplete
  <2> SUFFICES ASSUME IInv PROVE CatalogueComplete
    OBVIOUS
  <2>1. ServerOwnsPipe
    BY DEF IInv, Types, PipeOfServer, ServerOwnsPipe
  <2>2. got \in Seq(Nat) /\ pipe.queue \in Seq(Nat)
    BY DEF IInv, Types, Pipes
  <2>3. Whole => Shape(got)
    BY <2>2, ToldFirst DEF IInv, Told, Whole
  <2>4. ASSUME NEW a \in DOMAIN got, got[a] = EndMessage, pcServer = "flush", Whole
        PROVE  stable \subseteq Members(got)
    <3>1. Told = got \o pipe.queue /\ a \in DOMAIN Told /\ Told[a] = EndMessage
      BY <2>2, <2>4, ToldFirst DEF Told, Whole
    <3>2. a = Len(Told) /\ Len(Told) = Len(got) + Len(pipe.queue)
      BY <2>2, <2>4, <3>1, ToldFirst DEF IInv, Shape
    <3>3. a <= Len(got) /\ Len(got) \in Nat /\ Len(pipe.queue) \in Nat
      BY <2>2
    <3>4. DOMAIN Told = DOMAIN got /\ \A k \in DOMAIN got : Told[k] = got[k]
      BY <2>2, <3>1, <3>2, <3>3, ToldFirst
    <3>5. Members(Told) = Members(got)
      BY <3>4 DEF Members
    <3>. QED
      BY <2>4, <3>5 DEF IInv, Owed
  <2>. QED
    BY <2>1, <2>3, <2>4 DEF CatalogueComplete, Shape, Members, Whole
<1>. QED
  BY <1>1, Invariance, PTL
=============================================================================
