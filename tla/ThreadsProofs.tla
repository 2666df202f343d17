-------------------------- MODULE ThreadsProofs ----------------------------
(***************************************************************************)
(* Threads that wait for each other, one part after the other, for every   *)
(* value of their constants.                                               *)
(*                                                                         *)
(* The source filter's pins, for any catalogue and every interleaving of   *)
(* CreateOutputPins, a caller of FindPin, the sink and the pipe's other    *)
(* clients: the two lists of pins and the count agree whenever no pin is   *)
(* being removed, and the pins are those of the catalogue, in its order.   *)
(* The two lists are kept by different classes, so the invariant follows   *)
(* them through RemovePin's steps (Removal); and what is still to be   *)
(* read, in the pipe and in the sink, goes on where the list ends (Coming).*)
(*                                                                         *)
(* Then the parts that MCThreads puts beside it, each with the invariant   *)
(* that makes its order inductive, and together what the run asks of them. *)
(***************************************************************************)
EXTENDS MCThreads, SequenceTheorems, TLAPS

\* The pins of the list from place k on, as a sequence and as a set.
Rest(k) == SubSeq(m_pinList, k, Len(m_pinList))
From(k) == {m_pinList[m] : m \in k..Len(m_pinList)}

\* What this client will read, if the sink does not go.
Pending == pipe.queue \o sending

Types ==
    /\ m_pinList \in Seq(Nat) /\ m_iPins \in Nat /\ nextPin \in Nat /\ i \in Nat
    /\ described \in [Pins -> Nat]
    /\ pipe \in Pipes(Nat) /\ sending \in Seq(Nat)
    /\ catalogue \in Seq(BOOLEAN) /\ Len(catalogue) <= MaxCatalogue
    /\ ended \in BOOLEAN

\* Places in the order in which the pins were made from the messages.
Ordered ==
    /\ \A a, b \in DOMAIN m_pinList : a < b => m_pinList[a] < m_pinList[b]
    /\ \A k \in DOMAIN m_pinList : m_pinList[k] \in 1..nextPin /\ described[m_pinList[k]] = k

\* There are pins enough for what may still be read.
Enough ==
    /\ nextPin <= MaxPins
    /\ pcCreate \in {"remove", "shift", "count", "delete", "open", "wait", "mode"} =>
           nextPin + MaxCatalogue <= MaxPins
    /\ pcCreate = "read" => nextPin + MaxCatalogue <= MaxPins + Len(m_pinList)

\* While the pins of the list are removed, the array and the count have the others; while
\* one is, those behind it move down to where they will be, and then the count follows.
Removal ==
    /\ pcCreate \in {"remove", "shift", "count", "delete"} => i \in 1..Len(m_pinList) + 1
    /\ pcCreate = "shift" =>
           /\ i <= Len(m_pinList) /\ live = From(i) /\ m_iPins = Len(m_pinList) + 1 - i
           /\ shift \in 1..m_iPins - 1 /\ m_paStreams \in Seq(Nat) /\ Len(m_paStreams) = m_iPins
           /\ \A j \in 1..m_iPins :
                  m_paStreams[j] = m_pinList[IF j < shift THEN i + j ELSE i + j - 1]
    /\ pcCreate = "remove" =>
           m_paStreams = Rest(i) /\ m_iPins = Len(m_pinList) + 1 - i /\ live = From(i)
    /\ pcCreate = "count" =>
           /\ i <= Len(m_pinList) /\ live = From(i)
           /\ m_iPins = Len(m_pinList) + 1 - i /\ SubSeq(m_paStreams, 1, m_iPins - 1) = Rest(i + 1)
    /\ pcCreate = "delete" =>
           /\ i <= Len(m_pinList) /\ live = From(i)
           /\ m_iPins = Len(m_pinList) - i /\ m_paStreams = Rest(i + 1)

\* This client has the pipe from CreateFile to CloseHandle, and finds nothing in it.
Connection ==
    /\ pipe.client = "source" =>
           pipe.state = "connected" /\ pcCreate \in {"mode", "read", "close"}
    /\ pipe.client # "source" => pipe.queue = << >>
    /\ pipe.state = "listening" => sending = << >>
    /\ pipe.client = "source" /\ pcCreate = "mode" => Pending = << >>
    /\ hPipe = "open" => pcCreate \in {"mode", "read", "close"}
    /\ pcCreate \in {"open", "wait", "mode"} => m_pinList = << >>

\* The messages to come go on where the pins end, up to the empty one.
Coming ==
    /\ pcCreate = "read" /\ pipe.client = "source" /\ Pending # << >> =>
           /\ Len(Pending) = Len(catalogue) + 1 - Len(m_pinList)
           /\ \A k \in DOMAIN Pending :
                  Pending[k] = IF k = Len(Pending) THEN 0 ELSE Len(m_pinList) + k
    /\ ended => \/ pcCreate \in {"close", "idle"} /\ Len(m_pinList) = Len(catalogue)
                \/ pcCreate = "gone"

IInv == Types /\ Ordered /\ Enough /\ ListsAgree /\ Removal /\ Connection /\ Coming
-----------------------------------------------------------------------------
\* Lists.

\* The rest of a list, from one place to the next.
LEMMA RestOf ==
    ASSUME NEW s \in Seq(Nat), NEW k \in 1..Len(s)
    PROVE  /\ SubSeq(s, k, Len(s)) \in Seq(Nat) /\ Len(SubSeq(s, k, Len(s))) = Len(s) + 1 - k
           /\ SubSeq(s, k + 1, Len(s)) \in Seq(Nat) /\ Len(SubSeq(s, k + 1, Len(s))) = Len(s) - k
           /\ SubSeq(s, k, Len(s))[1] = s[k]
           /\ \A j \in 1..Len(s) + 1 - k : SubSeq(s, k, Len(s))[j] = s[k + j - 1]
           /\ \A j \in 1..Len(s) - k : SubSeq(s, k + 1, Len(s))[j] = s[k + j]
<1>1. Len(s) \in Nat /\ \A j \in 1..Len(s) : s[j] \in Nat
  OBVIOUS
<1>2. ASSUME NEW q \in Seq(Nat), NEW m \in 1..Len(q) + 1
      PROVE  /\ SubSeq(q, m, Len(q)) \in Seq(Nat) /\ Len(SubSeq(q, m, Len(q))) = Len(q) + 1 - m
             /\ \A j \in 1..Len(q) + 1 - m : SubSeq(q, m, Len(q))[j] = q[m + j - 1]
  <2>1. Len(q) \in Nat /\ m \in Int /\ m >= 1 /\ \A j \in m..Len(q) : q[j] \in Nat
    OBVIOUS
  <2>2. /\ SubSeq(q, m, Len(q)) \in Seq(Nat)
        /\ Len(SubSeq(q, m, Len(q))) = IF m <= Len(q) THEN Len(q) - m + 1 ELSE 0
        /\ \A j \in 1..Len(q) - m + 1 : SubSeq(q, m, Len(q))[j] = q[m + j - 1]
    BY <2>1, SubSeqProperties
  <2>3. Len(q) + 1 - m = Len(q) - m + 1 /\ (~(m <= Len(q)) => Len(q) - m + 1 = 0)
    BY SMTT(40), <2>1
  <2>. QED
    BY <2>2, <2>3
<1> DEFINE r == SubSeq(s, k, Len(s))  t == SubSeq(s, k + 1, Len(s))
<1>3. r \in Seq(Nat) /\ Len(r) = Len(s) + 1 - k /\ \A j \in 1..Len(s) + 1 - k : r[j] = s[k + j - 1]
  BY <1>1, <1>2
<1>4. t \in Seq(Nat) /\ Len(t) = Len(s) - k /\ \A j \in 1..Len(s) - k : t[j] = s[k + j]
  <2>1. k + 1 \in 1..Len(s) + 1 /\ Len(s) + 1 - (k + 1) = Len(s) - k
    BY <1>1
  <2>2. \A j \in 1..Len(s) - k : k + 1 + j - 1 = k + j
    BY <1>1
  <2>. QED
    BY <1>2, <2>1, <2>2
<1> HIDE DEF r
<1>5. r[1] = s[k]
  BY <1>1, <1>3
<1>. QED
  BY <1>3, <1>4, <1>5 DEF r, t

\* The least of the numbers from one on, if one is among them.
LEMMA LeastIsOne ==
    ASSUME NEW I, 1 \in I, \A m \in I : m \in Nat /\ 1 <= m
    PROVE  Min(I) = 1
<1>1. \A x \in I : (\A y \in I : x <= y) => x = 1
  OBVIOUS
<1>. QED
  BY <1>1 DEF Min

\* The end of the array after its elements have moved down.
LEMMA LastDropped ==
    ASSUME NEW a \in Seq(Nat), NEW r \in Seq(Nat), Len(a) = Len(r) + 1,
           \A j \in 1..Len(r) : a[j] = r[j]
    PROVE  SubSeq(a, 1, Len(r)) = r
<1>1. Len(r) \in Nat /\ SubSeq(a, 1, Len(r)) \in Seq(Nat) /\ Len(SubSeq(a, 1, Len(r))) = Len(r)
  OBVIOUS
<1>2. \A j \in 1..Len(r) : SubSeq(a, 1, Len(r))[j] = r[j]
  OBVIOUS
<1>3. QED
  BY <1>1, <1>2, SeqEqual

\* A pin at the end of the list.
LEMMA Appended ==
    ASSUME NEW s \in Seq(Nat), NEW m \in Nat
    PROVE  /\ Append(s, m) \in Seq(Nat) /\ Len(Append(s, m)) = Len(s) + 1 /\ Len(s) \in Nat
           /\ DOMAIN Append(s, m) = 1..Len(s) + 1 /\ DOMAIN s = 1..Len(s)
           /\ Append(s, m)[Len(s) + 1] = m /\ \A k \in DOMAIN s : Append(s, m)[k] = s[k]
           /\ ToSet(Append(s, m)) = ToSet(s) \cup {m}
<1>1. /\ Append(s, m) \in Seq(Nat) /\ Len(Append(s, m)) = Len(s) + 1 /\ Len(s) \in Nat
      /\ DOMAIN Append(s, m) = 1..Len(s) + 1 /\ DOMAIN s = 1..Len(s)
      /\ Append(s, m)[Len(s) + 1] = m /\ \A k \in DOMAIN s : Append(s, m)[k] = s[k]
  OBVIOUS
<1>. QED
  BY <1>1 DEF ToSet
-----------------------------------------------------------------------------
\* The pipe.

\* A pipe that is made, opened or left holds no message.
LEMMA PipeValues ==
    /\ << >> \in Seq(Nat)
    /\ NoPipe \in Pipes(Nat) /\ Listening \in Pipes(Nat)
    /\ ClientClosed \in Pipes(Nat) /\ Disconnected \in Pipes(Nat)
    /\ \A p \in {NoPipe, Listening, ClientClosed, Disconnected} :
           p.client = "nobody" /\ p.queue = << >>
    /\ \A p \in {NoPipe, ClientClosed, Disconnected} : p.state # "listening"
    /\ \A c \in Clients : /\ Opened(c) \in Pipes(Nat) /\ Opened(c).queue = << >>
                          /\ Opened(c).client = c /\ Opened(c).state = "connected"
<1>0. << >> \in Seq(Nat)
  OBVIOUS
<1>1. \A s \in PipeStates : Idle(s) \in Pipes(Nat) /\ Idle(s).client = "nobody"
                            /\ Idle(s).queue = << >> /\ Idle(s).state = s
  BY <1>0 DEF Idle, Pipes, Clients
<1>2. \A c \in Clients : /\ Opened(c) \in Pipes(Nat) /\ Opened(c).queue = << >>
                         /\ Opened(c).client = c /\ Opened(c).state = "connected"
  BY <1>0 DEF Opened, Pipes, PipeStates
<1>. QED
  BY <1>0, <1>1, <1>2 DEF NoPipe, Listening, ClientClosed, Disconnected, PipeStates

\* Reading and writing change the queue alone.
LEMMA ReadPipe ==
    ASSUME NEW p \in Pipes(Nat), p.queue # << >>
    PROVE  /\ ReadMsg(p) \in Pipes(Nat) /\ ReadMsg(p).queue = Tail(p.queue)
           /\ ReadMsg(p).client = p.client /\ ReadMsg(p).state = p.state
<1>1. Tail(p.queue) \in Seq(Nat)
  BY DEF Pipes
<1>. QED
  BY <1>1 DEF Pipes, ReadMsg

LEMMA WritePipe ==
    ASSUME NEW p \in Pipes(Nat), NEW m \in Nat
    PROVE  /\ Written(p, m) \in Pipes(Nat) /\ Written(p, m).queue = Append(p.queue, m)
           /\ Written(p, m).client = p.client /\ Written(p, m).state = p.state
<1>1. Append(p.queue, m) \in Seq(Nat)
  BY DEF Pipes
<1>. QED
  BY <1>1 DEF Pipes, Written

\* Writing what is on its way does not change what is to be read.
LEMMA PendingWritten ==
    ASSUME NEW s \in Seq(Nat), NEW q \in Seq(Nat), q # << >>
    PROVE  Append(s, Head(q)) \o Tail(q) = s \o q
<1>1. /\ Append(s, Head(q)) \in Seq(Nat) /\ Tail(q) \in Seq(Nat)
      /\ Len(Append(s, Head(q))) = Len(s) + 1 /\ Len(Tail(q)) = Len(q) - 1
      /\ Len(s) \in Nat /\ Len(q) \in Nat \ {0}
  OBVIOUS
<1>2. ASSUME NEW k \in 1..Len(s) + Len(q)
      PROVE  (Append(s, Head(q)) \o Tail(q))[k] = (s \o q)[k]
  <2>1. CASE k <= Len(s)
    BY <1>1, <2>1
  <2>2. CASE k = Len(s) + 1
    BY <1>1, <2>2
  <2>3. CASE k > Len(s) + 1
    BY <1>1, <2>3
  <2>. QED
    BY <1>1, <2>1, <2>2, <2>3
<1>. QED
  BY SMTT(40), <1>1, <1>2

\* Reading takes the first of it.
LEMMA PendingRead ==
    ASSUME NEW q \in Seq(Nat), NEW s \in Seq(Nat), q # << >>
    PROVE  /\ q \o s \in Seq(Nat) /\ Len(q \o s) \in Nat \ {0} /\ (q \o s)[1] = Head(q)
           /\ DOMAIN (q \o s) = 1..Len(q \o s)
           /\ Tail(q) \o s \in Seq(Nat) /\ Len(Tail(q) \o s) = Len(q \o s) - 1
           /\ \A k \in 1..Len(q \o s) - 1 : (Tail(q) \o s)[k] = (q \o s)[k + 1]
<1>1. /\ Tail(q) \in Seq(Nat) /\ Len(Tail(q)) = Len(q) - 1 /\ Len(s) \in Nat
      /\ Len(q) \in Nat \ {0} /\ Len(q \o s) = Len(q) + Len(s)
      /\ \A k \in 1..Len(q) - 1 : Tail(q)[k] = q[k + 1]
  OBVIOUS
<1>2. \A k \in 1..Len(q) + Len(s) - 1 : (Tail(q) \o s)[k] = (q \o s)[k + 1]
  BY <1>1
<1>. QED
  BY SMTT(40), <1>1, <1>2
-----------------------------------------------------------------------------
\* The steps.

\* FindPin and the sink change neither the pins nor where the creating thread is.
LEMMA Elsewhere ==
    Find \/ Sink \/ UNCHANGED vars => UNCHANGED <<pinVars, shift, pcCreate, i, hPipe, ended>>
<1>1. Find => UNCHANGED <<pinVars, shift, pcCreate, i, hPipe, ended>>
  BY DEF Find, GetPin, FindPin, GetPinTest, GetPinFetch, FindAddRef, FindUnchanged
<1>2. Sink => UNCHANGED <<pinVars, shift, pcCreate, i, hPipe, ended>>
  BY DEF Sink, SinkListens, OtherOpens, OtherCloses, SinkStarts, SinkWrites, SinkEnds,
     SinkUnchanged
<1>. QED
  BY <1>1, <1>2 DEF vars

\* What is read makes one pin.
LEMMA Read ==
    ASSUME Types, ReadPin
    PROVE  \E k \in Nat \ {0} :
               /\ pipe.queue # << >> /\ k = Head(pipe.queue) /\ nextPin' = nextPin + 1
               /\ m_pinList' = Append(m_pinList, nextPin + 1) /\ live' = live \cup {nextPin + 1}
               /\ m_paStreams' = Append(m_paStreams, nextPin + 1) /\ m_iPins' = m_iPins + 1
               /\ described' = [described EXCEPT ![nextPin + 1] = k]
               /\ pcCreate = "read" /\ pcCreate' \in {"read", "close"} /\ pipe' = ReadMsg(pipe)
               /\ UNCHANGED <<shift, i, hPipe, ended, sending, busy, catalogue, findVars>>
<1>1. pipe.queue # << >> /\ Head(pipe.queue) # 0 /\ pipe.queue \in Seq(Nat)
  BY DEF Types, Pipes, ReadPin
<1>2. Head(pipe.queue) \in Nat \ {0}
  BY <1>1
<1>. QED
  BY <1>1, <1>2 DEF ReadPin, AddPin

\* A catalogue is a sequence.
LEMMA CatalogueIsSequence ==
    \A c \in Catalogues : c \in Seq(BOOLEAN) /\ Len(c) <= MaxCatalogue
<1>1. ASSUME NEW k \in 0..MaxCatalogue, NEW c \in [1..k -> BOOLEAN]
      PROVE  c \in Seq(BOOLEAN) /\ Len(c) <= MaxCatalogue
  BY BoundsAssumption
<1>. QED
  BY <1>1 DEF Catalogues

LEMMA TypesStep ==
    ASSUME Types, Removal, [Next]_vars
    PROVE  Types'
<1>0. pipe \in Pipes(Nat) /\ pipe.queue \in Seq(Nat) /\ sending \in Seq(Nat)
  BY DEF Types, Pipes
<1>1. CASE CreateOutputPins
  BY <1>1 DEF CreateOutputPins, Types, pinVars, pipeVars
<1>2. CASE RemovePin \/ ShiftPin \/ DeletePin
  BY <1>2 DEF RemovePin, ShiftPin, DeletePin, Types, pipeVars
<1>3. CASE RemoveCount
  BY <1>3 DEF RemoveCount, Removal, Types, pipeVars
<1>4. CASE ClearPins
  BY <1>4, PipeValues DEF ClearPins, Types, pipeVars
<1>5. CASE OpenPipe \/ WaitPipe \/ SetMode \/ ClosePipe
  <2>1. Opened("source") \in Pipes(Nat)
    BY PipeValues DEF Clients
  <2>. QED
    BY <1>5, <2>1, PipeValues DEF OpenPipe, WaitPipe, SetMode, ClosePipe, CreateUnchanged,
       Types, pinVars, pipeVars
<1>6. CASE ReadPin
  <2>1. PICK k \in Nat \ {0} :
            /\ pipe.queue # << >> /\ nextPin' = nextPin + 1
            /\ m_pinList' = Append(m_pinList, nextPin + 1) /\ m_iPins' = m_iPins + 1
            /\ described' = [described EXCEPT ![nextPin + 1] = k] /\ pipe' = ReadMsg(pipe)
            /\ UNCHANGED <<shift, i, ended, sending, catalogue>>
    BY <1>6, Read DEF findVars
  <2>2. pipe' \in Pipes(Nat)
    BY <1>0, <2>1, ReadPipe
  <2>3. m_pinList' \in Seq(Nat) /\ nextPin' \in Nat /\ m_iPins' \in Nat
    BY <2>1, Appended DEF Types
  <2>4. described' \in [Pins -> Nat]
    BY <2>1 DEF Types
  <2>. QED
    BY <2>1, <2>2, <2>3, <2>4 DEF Types
<1>7. CASE ReadEnd
  BY <1>0, <1>7, ReadPipe DEF ReadEnd, Types, pinVars
<1>8. CASE Delete
  BY <1>8, PipeValues DEF Delete, Types, pipeVars
<1>9. CASE Find \/ UNCHANGED vars
  <2>1. UNCHANGED pipeVars
    BY <1>9 DEF Find, GetPin, FindPin, GetPinTest, GetPinFetch, FindAddRef, FindUnchanged,
       vars
  <2>. QED
    BY <1>9, <2>1, Elsewhere DEF Types, pinVars, pipeVars
<1>10. CASE Sink
  <2>0. UNCHANGED <<pinVars, shift, i, ended>>
    BY <1>10, Elsewhere
  <2> SUFFICES pipe' \in Pipes(Nat) /\ sending' \in Seq(Nat) /\ catalogue' \in Seq(BOOLEAN)
               /\ Len(catalogue') <= MaxCatalogue
    BY <2>0 DEF Types, pinVars
  <2>1. CASE SinkListens \/ OtherCloses \/ SinkEnds
    BY <2>1, PipeValues DEF SinkListens, OtherCloses, SinkEnds, Types
  <2>2. CASE OtherOpens
    <3>1. Opened("self") \in Pipes(Nat)
      BY PipeValues DEF Clients
    <3>. QED
      BY <2>2, <3>1 DEF OtherOpens, Types
  <2>3. CASE SinkStarts
    <3>1. catalogue' \in Seq(BOOLEAN) /\ Len(catalogue') <= MaxCatalogue /\ pipe' = pipe
      BY <2>3, CatalogueIsSequence DEF SinkStarts
    <3>2. Len(catalogue') + 1 \in Nat /\ \A k \in 1..Len(catalogue') + 1 : k \in Nat
      BY <3>1
    <3>3. sending' = [k \in 1..Len(catalogue') + 1 |-> IF k > Len(catalogue') THEN 0 ELSE k]
      BY <2>3 DEF SinkStarts
    <3>4. sending' \in Seq(Nat)
      BY <3>2, <3>3
    <3>. QED
      BY <1>0, <3>1, <3>4
  <2>4. CASE SinkWrites
    <3>1. sending # << >> /\ pipe' = Written(pipe, Head(sending)) /\ sending' = Tail(sending)
          /\ catalogue' = catalogue
      BY <2>4 DEF SinkWrites
    <3>2. Head(sending) \in Nat /\ Tail(sending) \in Seq(Nat)
      BY <1>0, <3>1
    <3>. QED
      BY <1>0, <3>1, <3>2, WritePipe DEF Types
  <2>. QED
    BY <1>10, <2>1, <2>2, <2>3, <2>4 DEF Sink
<1>. QED
  BY <1>1, <1>2, <1>3, <1>4, <1>5, <1>6, <1>7, <1>8, <1>9, <1>10 DEF Next, Create

\* The list of pins and its order change when it is cleared, read into or deleted.
LEMMA ListUnchanged ==
    [Next]_vars => \/ ClearPins \/ ReadPin \/ Delete
                   \/ UNCHANGED <<m_pinList, nextPin, described>>
<1>1. CreateOutputPins \/ RemovePin \/ ShiftPin \/ RemoveCount \/ DeletePin =>
          UNCHANGED <<m_pinList, nextPin, described>>
  BY DEF CreateOutputPins, RemovePin, ShiftPin, RemoveCount, DeletePin, pinVars
<1>2. OpenPipe \/ WaitPipe \/ SetMode \/ ReadEnd \/ ClosePipe =>
          UNCHANGED <<m_pinList, nextPin, described>>
  BY DEF OpenPipe, WaitPipe, SetMode, ReadEnd, ClosePipe, CreateUnchanged, pinVars
<1>3. Find \/ Sink \/ UNCHANGED vars => UNCHANGED <<m_pinList, nextPin, described>>
  BY Elsewhere DEF pinVars
<1>. QED
  BY <1>1, <1>2, <1>3 DEF Next, Create

\* A description that waits is of the pin after the last, and there is one for it.
LEMMA NextPin ==
    ASSUME Types, Enough, Connection, Coming, pcCreate = "read", pipe.queue # << >>
    PROVE  /\ Head(pipe.queue) # 0 => /\ Head(pipe.queue) = Len(m_pinList) + 1
                                      /\ nextPin + 1 \in Pins
           /\ Head(pipe.queue) = 0 => Len(m_pinList) = Len(catalogue)
           /\ pipe.client = "source"
<1>1. pipe.queue \in Seq(Nat) /\ sending \in Seq(Nat) /\ pipe.client = "source"
  BY DEF Types, Pipes, Connection
<1>2. /\ Len(Pending) \in Nat \ {0} /\ Pending[1] = Head(pipe.queue)
      /\ DOMAIN Pending = 1..Len(Pending) /\ Pending # << >> /\ 1 \in DOMAIN Pending
  <2>1. /\ Len(Pending) \in Nat \ {0} /\ Pending[1] = Head(pipe.queue)
        /\ DOMAIN Pending = 1..Len(Pending) /\ Pending \in Seq(Nat)
    BY <1>1, PendingRead DEF Pending
  <2>. QED
    BY <2>1
<1>3. /\ Len(Pending) = Len(catalogue) + 1 - Len(m_pinList)
      /\ Pending[1] = IF 1 = Len(Pending) THEN 0 ELSE Len(m_pinList) + 1
  BY <1>1, <1>2 DEF Coming
<1>4. /\ Len(m_pinList) \in Nat /\ Len(catalogue) \in Nat /\ nextPin \in Nat
      /\ Len(catalogue) <= MaxCatalogue /\ nextPin + MaxCatalogue <= MaxPins + Len(m_pinList)
  BY DEF Types, Enough
<1>. QED
  BY SMTT(40), <1>1, <1>2, <1>3, <1>4, BoundsAssumption DEF Pins

\* The pins are in the order of the messages, while the next message is the next pin's.
LEMMA OrderedStep ==
    ASSUME IInv, [Next]_vars
    PROVE  Ordered'
<1>1. CASE ClearPins
  BY <1>1 DEF ClearPins, Ordered
<1>2. CASE ReadPin
  <2>1. PICK k \in Nat \ {0} :
            /\ pipe.queue # << >> /\ k = Head(pipe.queue) /\ nextPin' = nextPin + 1
            /\ m_pinList' = Append(m_pinList, nextPin + 1) /\ pcCreate = "read"
            /\ described' = [described EXCEPT ![nextPin + 1] = k]
    BY <1>2, Read DEF IInv
  <2>2. k = Len(m_pinList) + 1 /\ nextPin + 1 \in Pins
    BY <2>1, NextPin DEF IInv
  <2>3. /\ Len(m_pinList) \in Nat /\ nextPin \in Nat
        /\ DOMAIN m_pinList' = 1..Len(m_pinList) + 1 /\ DOMAIN m_pinList = 1..Len(m_pinList)
        /\ m_pinList'[Len(m_pinList) + 1] = nextPin + 1
        /\ \A m \in DOMAIN m_pinList : m_pinList'[m] = m_pinList[m]
    BY SMTT(40), <2>1, Appended DEF IInv, Types
  <2>4. \A m \in DOMAIN m_pinList : m_pinList[m] \in 1..nextPin /\ described[m_pinList[m]] = m
    BY DEF IInv, Ordered
  <2>5. /\ described'[nextPin + 1] = k
        /\ \A m \in DOMAIN m_pinList : described'[m_pinList[m]] = described[m_pinList[m]]
    BY <2>1, <2>2, <2>3, <2>4 DEF IInv, Types
  <2>6. \A m \in DOMAIN m_pinList' :
            m_pinList'[m] \in 1..nextPin' /\ described'[m_pinList'[m]] = m
    BY <2>1, <2>2, <2>3, <2>4, <2>5
  <2>7. \A a, b \in DOMAIN m_pinList' : a < b => m_pinList'[a] < m_pinList'[b]
    BY <2>3, <2>4 DEF IInv, Ordered
  <2>. QED
    BY <2>6, <2>7 DEF Ordered
<1>3. CASE Delete
  BY <1>3 DEF Delete, Ordered
<1>4. CASE UNCHANGED <<m_pinList, nextPin, described>>
  BY <1>4 DEF IInv, Ordered
<1>. QED
  BY <1>1, <1>2, <1>3, <1>4, ListUnchanged

\* No more pins are made than there is room for.
LEMMA EnoughStep ==
    ASSUME IInv, [Next]_vars
    PROVE  Enough'
<1>0. nextPin \in Nat /\ Len(m_pinList) \in Nat
  BY DEF IInv, Types
<1>1. CASE ReadPin
  <2>1. /\ nextPin' = nextPin + 1 /\ pcCreate = "read" /\ pcCreate' \in {"read", "close"}
        /\ Len(m_pinList') = Len(m_pinList) + 1
    BY <1>1, Read, Appended DEF IInv, Types
  <2>2. nextPin + 1 \in Pins
    BY <1>1, NextPin, Read DEF IInv
  <2>. QED
    BY <1>0, <2>1, <2>2, BoundsAssumption DEF IInv, Enough, Pins
<1>2. CASE CreateOutputPins
  BY <1>2 DEF CreateOutputPins, pinVars, IInv, Enough
<1>3. CASE RemovePin \/ ShiftPin
  BY <1>3 DEF RemovePin, ShiftPin, IInv, Enough
<1>4. CASE RemoveCount
  BY <1>4 DEF RemoveCount, IInv, Enough
<1>5. CASE DeletePin
  BY <1>5 DEF DeletePin, IInv, Enough
<1>6. CASE ClearPins
  BY <1>6 DEF ClearPins, IInv, Enough
<1>7. CASE OpenPipe
  BY <1>7 DEF OpenPipe, CreateUnchanged, pinVars, IInv, Enough
<1>8. CASE WaitPipe
  BY <1>8 DEF WaitPipe, CreateUnchanged, pinVars, IInv, Enough
<1>9. CASE SetMode
  <2>1. /\ nextPin + MaxCatalogue <= MaxPins /\ nextPin <= MaxPins
        /\ UNCHANGED <<nextPin, m_pinList>> /\ pcCreate' \in {"read", "idle"}
    BY <1>9 DEF SetMode, CreateUnchanged, pinVars, IInv, Enough
  <2>. QED
    BY <1>0, <2>1, BoundsAssumption DEF Enough
<1>10. CASE ReadEnd
  BY <1>10 DEF ReadEnd, pinVars, IInv, Enough
<1>11. CASE ClosePipe
  BY <1>11 DEF ClosePipe, CreateUnchanged, pinVars, IInv, Enough
<1>12. CASE Delete
  BY <1>12 DEF Delete, IInv, Enough
<1>13. CASE Find \/ Sink \/ UNCHANGED vars
  BY <1>13, Elsewhere DEF pinVars, IInv, Enough
<1>. QED
  BY <1>1, <1>2, <1>3, <1>4, <1>5, <1>6, <1>7, <1>8, <1>9, <1>10, <1>11, <1>12, <1>13
  DEF Next, Create

\* RemovePin moves the pins behind the first down, one by one, and then counts one out;
\* in between some pin is there twice.
LEMMA RemovalStep ==
    ASSUME IInv, [Next]_vars
    PROVE  Removal' /\ ListsAgree'
<1>0. m_pinList \in Seq(Nat) /\ Len(m_pinList) \in Nat /\ i \in Nat
  BY DEF IInv, Types
<1>1. CASE CreateOutputPins
  <2>1. /\ m_paStreams = m_pinList /\ m_iPins = Len(m_pinList) /\ live = ToSet(m_pinList)
        /\ i' = 1 /\ pcCreate' = "remove" /\ UNCHANGED pinVars
    BY <1>1 DEF CreateOutputPins, IInv, ListsAgree
  <2>2. SubSeq(m_pinList, 1, Len(m_pinList)) = m_pinList
    BY <1>0
  <2>3. From(1) = ToSet(m_pinList)
    BY <1>0 DEF From, ToSet
  <2>4. Rest(i)' = m_pinList /\ From(i)' = From(1)
    BY <2>1, <2>2 DEF Rest, From, pinVars
  <2>5. 1 \in 1..Len(m_pinList) + 1 /\ Len(m_pinList) + 1 - 1 = Len(m_pinList)
    BY <1>0
  <2>6. Removal'
    BY <2>1, <2>3, <2>4, <2>5 DEF Removal, pinVars
  <2>. QED
    BY <2>1, <2>6 DEF ListsAgree
<1>2. CASE RemovePin
  <2>1. /\ i \in 1..Len(m_pinList) /\ m_paStreams = Rest(i) /\ live = From(i)
        /\ m_iPins = Len(m_pinList) + 1 - i
        /\ UNCHANGED <<m_pinList, m_iPins, live, i>>
    BY <1>0, <1>2 DEF RemovePin, IInv, Removal
  <2>2. /\ m_paStreams \in Seq(Nat) /\ Len(m_paStreams) = m_iPins
        /\ \A j \in 1..m_iPins : m_paStreams[j] = m_pinList[i + j - 1]
        /\ m_paStreams[1] = m_pinList[i]
    BY <2>1, <1>0, RestOf DEF Rest
  <2>3. m_paStreams # << >> /\ m_iPins \in Nat \ {0}
    BY <1>0, <2>1, <2>2
  <2>4. PlaceInArray = 1
    <3> DEFINE I == {m \in 1..Len(m_paStreams) : m_paStreams[m] = m_pinList[i]}
    <3>1. 1 \in I /\ \A m \in I : m \in Nat /\ 1 <= m
      BY <2>2, <2>3
    <3>2. Min(I) = 1
      BY <3>1, LeastIsOne
    <3>3. I # {}
      BY <3>1
    <3>4. QED
      BY <3>2, <3>3 DEF PlaceInArray, SelectInSeq
  <2>5. From(i)' = From(i) /\ Rest(i + 1)' = Rest(i + 1)
    BY <2>1 DEF From, Rest
  <2>6. CASE m_iPins = 1
    <3>1. pcCreate' = "count" /\ m_paStreams' = << >>
      BY <1>2, <2>4, <2>6 DEF RemovePin
    <3>2. Rest(i + 1) = << >>
      BY <1>0, <2>1, <2>6, RestOf DEF Rest
    <3>3. SubSeq(m_paStreams', 1, m_iPins' - 1) = Rest(i + 1)'
      <4>1. m_iPins' - 1 = 0 /\ SubSeq(<< >>, 1, 0) = << >>
        BY <2>1, <2>6
      <4>2. QED
        BY <2>5, <3>1, <3>2, <4>1
    <3>4. QED
      BY <1>0, <2>1, <2>5, <3>1, <3>3 DEF Removal, ListsAgree
  <2>7. CASE m_iPins # 1
    <3>1. pcCreate' = "shift" /\ shift' = 1 /\ m_paStreams' = m_paStreams
      BY <1>2, <2>3, <2>4, <2>7 DEF RemovePin
    <3>2. shift' \in 1..m_iPins' - 1
      BY <2>1, <2>3, <2>7, <3>1
    <3>3. \A j \in 1..m_iPins' :
              m_paStreams'[j] = m_pinList'[IF j < shift' THEN i' + j ELSE i' + j - 1]
      BY <2>1, <2>2, <2>3, <3>1
    <3>4. QED
      BY <1>0, <2>1, <2>2, <2>5, <3>1, <3>2, <3>3 DEF Removal, ListsAgree
  <2>. QED
    BY <2>6, <2>7
<1>10. CASE ShiftPin
  <2>1. /\ i \in 1..Len(m_pinList) /\ live = From(i) /\ m_iPins = Len(m_pinList) + 1 - i
        /\ shift \in 1..m_iPins - 1 /\ m_paStreams \in Seq(Nat) /\ Len(m_paStreams) = m_iPins
        /\ \A j \in 1..m_iPins :
               m_paStreams[j] = m_pinList[IF j < shift THEN i + j ELSE i + j - 1]
    BY <1>0, <1>10 DEF ShiftPin, IInv, Removal
  <2>2. /\ m_paStreams' = [m_paStreams EXCEPT ![shift] = m_paStreams[shift + 1]]
        /\ shift' = shift + 1 /\ UNCHANGED <<m_pinList, m_iPins, live, i>>
        /\ pcCreate' = IF shift' < m_iPins THEN "shift" ELSE "count"
    BY <1>10 DEF ShiftPin
  <2>3. m_iPins \in Nat /\ shift \in Nat /\ shift + 1 \in 1..m_iPins /\ shift \in 1..m_iPins
    BY <1>0, <2>1 DEF IInv, Types
  <2>4. m_paStreams' \in Seq(Nat) /\ Len(m_paStreams') = m_iPins
    BY <2>1, <2>2, <2>3
  <2>5. ASSUME NEW j \in 1..m_iPins
        PROVE  m_paStreams'[j] = m_pinList[IF j < shift + 1 THEN i + j ELSE i + j - 1]
    <3>1. CASE j = shift
      <4>1. m_paStreams'[j] = m_paStreams[shift + 1]
        BY <2>1, <2>2, <3>1
      <4>2. m_paStreams[shift + 1] = m_pinList[i + (shift + 1) - 1]
        <5>1. ~(shift + 1 < shift)
          BY <2>3
        <5>2. QED
          BY <2>1, <2>3, <5>1
      <4>3. i + (shift + 1) - 1 = i + j /\ j < shift + 1
        BY <1>0, <2>3, <3>1
      <4>4. QED
        BY <4>1, <4>2, <4>3
    <3>2. CASE j # shift
      <4>1. m_paStreams'[j] = m_paStreams[j]
        BY <2>1, <2>2, <3>2
      <4>2. j < shift + 1 <=> j < shift
        BY <2>3, <3>2
      <4>3. QED
        BY <2>1, <4>1, <4>2
    <3>3. QED
      BY <3>1, <3>2
  <2>6. From(i)' = From(i) /\ Rest(i + 1)' = Rest(i + 1)
    BY <2>2 DEF From, Rest
  <2>7. CASE shift' < m_iPins
    <3>1. shift' \in 1..m_iPins' - 1 /\ pcCreate' = "shift"
      BY <2>2, <2>3, <2>7
    <3>2. QED
      BY <1>0, <2>1, <2>2, <2>4, <2>5, <2>6, <3>1 DEF Removal, ListsAgree
  <2>8. CASE ~(shift' < m_iPins)
    <3>1. pcCreate' = "count" /\ shift + 1 = m_iPins
      BY <2>2, <2>3, <2>8
    <3>2. /\ Rest(i + 1) \in Seq(Nat) /\ Len(Rest(i + 1)) = Len(m_pinList) - i
          /\ \A j \in 1..Len(m_pinList) - i : Rest(i + 1)[j] = m_pinList[i + j]
      BY <1>0, <2>1, RestOf DEF Rest
    <3>3. Len(m_pinList) - i = m_iPins - 1 /\ m_iPins = Len(Rest(i + 1)) + 1
      <4>1. Len(m_pinList) - i = m_iPins - 1
        BY <1>0, <2>1
      <4>2. Len(Rest(i + 1)) = m_iPins - 1
        BY <3>2, <4>1
      <4>3. QED
        BY <2>3, <4>1, <4>2
    <3>4. ASSUME NEW j \in 1..Len(Rest(i + 1)) PROVE m_paStreams'[j] = Rest(i + 1)[j]
      <4>1. j \in 1..m_iPins /\ j < shift + 1 /\ j \in 1..Len(m_pinList) - i
        BY <2>3, <3>1, <3>2, <3>3
      <4>2. QED
        BY <2>5, <3>2, <4>1
    <3>5. SubSeq(m_paStreams', 1, Len(Rest(i + 1))) = Rest(i + 1)
      BY <2>4, <3>2, <3>3, <3>4, LastDropped
    <3>6. SubSeq(m_paStreams', 1, m_iPins' - 1) = Rest(i + 1)'
      BY <2>2, <2>6, <3>2, <3>3, <3>5
    <3>7. i' \in 1..Len(m_pinList') + 1 /\ i' <= Len(m_pinList')
      BY <1>0, <2>1, <2>2
    <3>8. live' = From(i)' /\ m_iPins' = Len(m_pinList') + 1 - i'
      BY <2>1, <2>2, <2>6
    <3>9. QED
      BY <3>1, <3>6, <3>7, <3>8 DEF Removal, ListsAgree
  <2>9. QED
    BY <2>7, <2>8
<1>3. CASE RemoveCount
  <2>1. /\ i \in 1..Len(m_pinList) /\ live = From(i) /\ m_iPins = Len(m_pinList) + 1 - i
        /\ m_paStreams' = Rest(i + 1) /\ m_iPins' = m_iPins - 1 /\ pcCreate' = "delete"
        /\ UNCHANGED <<m_pinList, live, i>>
    BY <1>0, <1>3 DEF RemoveCount, IInv, Removal
  <2>2. From(i)' = From(i) /\ Rest(i + 1)' = Rest(i + 1)
    BY <2>1 DEF From, Rest
  <2>. QED
    BY <1>0, <2>1, <2>2 DEF Removal, ListsAgree
<1>4. CASE DeletePin
  <2>1. /\ i \in 1..Len(m_pinList) /\ live = From(i) /\ m_iPins = Len(m_pinList) - i
        /\ m_paStreams = Rest(i + 1) /\ live' = live \ {m_pinList[i]}
        /\ pcCreate' = "remove" /\ i' = i + 1
        /\ UNCHANGED <<m_pinList, m_paStreams, m_iPins>>
    BY <1>0, <1>4 DEF DeletePin, IInv, Removal
  <2>2. From(i) \ {m_pinList[i]} = From(i + 1)
    <3>1. \A m \in i + 1..Len(m_pinList) : m_pinList[m] # m_pinList[i]
      <4>0. /\ DOMAIN m_pinList = 1..Len(m_pinList) /\ i \in 1..Len(m_pinList)
            /\ \A m \in i + 1..Len(m_pinList) : m \in 1..Len(m_pinList) /\ i < m
        BY <1>0, <2>1
      <4>1. \A m \in i + 1..Len(m_pinList) : m_pinList[i] < m_pinList[m]
        BY <4>0 DEF IInv, Ordered
      <4>2. \A m \in i..Len(m_pinList) : m_pinList[m] \in Nat
        BY SMTT(40), <1>0, <2>1
      <4>. QED
        BY <1>0, <2>1, <4>1, <4>2
    <3>2. From(i) = {m_pinList[i]} \cup From(i + 1)
      BY <1>0, <2>1 DEF From
    <3>3. m_pinList[i] \notin From(i + 1)
      BY <3>1 DEF From
    <3>. QED
      BY <3>2, <3>3
  <2>3. From(i)' = From(i + 1) /\ Rest(i)' = Rest(i + 1)
    BY <2>1 DEF From, Rest
  <2>. QED
    BY SMTT(40), <1>0, <2>1, <2>2, <2>3 DEF Removal, ListsAgree
<1>5. CASE ClearPins
  <2>1. /\ i = Len(m_pinList) + 1 /\ m_paStreams = Rest(i) /\ live = From(i) /\ m_iPins = 0
        /\ m_pinList' = << >> /\ pcCreate' = "open" /\ UNCHANGED <<m_paStreams, m_iPins, live>>
    BY <1>0, <1>5 DEF ClearPins, IInv, Removal
  <2>2. Rest(i) = << >> /\ From(i) = {} /\ ToSet(<< >>) = {}
    BY <1>0, <2>1 DEF Rest, From, ToSet
  <2>. QED
    BY <2>1, <2>2 DEF Removal, ListsAgree
<1>6. CASE OpenPipe \/ WaitPipe \/ SetMode \/ ReadEnd \/ ClosePipe
  <2>1. /\ pcCreate \in {"open", "wait", "mode", "read", "close"} /\ UNCHANGED pinVars
        /\ pcCreate' \notin {"remove", "shift", "count", "delete"}
    BY <1>6 DEF OpenPipe, WaitPipe, SetMode, ReadEnd, ClosePipe, CreateUnchanged
  <2>. QED
    BY <2>1 DEF IInv, Removal, ListsAgree, pinVars
<1>7. CASE ReadPin
  <2>1. /\ pcCreate = "read" /\ pcCreate' \in {"read", "close"} /\ nextPin \in Nat
        /\ m_pinList' = Append(m_pinList, nextPin + 1) /\ live' = live \cup {nextPin + 1}
        /\ m_paStreams' = Append(m_paStreams, nextPin + 1) /\ m_iPins' = m_iPins + 1
    BY <1>7, Read DEF IInv, Types
  <2>2. m_paStreams = m_pinList /\ m_iPins = Len(m_pinList) /\ live = ToSet(m_pinList)
    BY <2>1 DEF IInv, ListsAgree
  <2>. QED
    BY <1>0, <2>1, <2>2, Appended DEF Removal, ListsAgree
<1>8. CASE Delete
  <2>1. ToSet(<< >>) = {} /\ Len(<< >>) = 0
    BY DEF ToSet
  <2>. QED
    BY <1>8, <2>1 DEF Delete, Removal, ListsAgree
<1>9. CASE Find \/ Sink \/ UNCHANGED vars
  <2>1. UNCHANGED <<pinVars, shift, pcCreate, i>>
    BY <1>9, Elsewhere
  <2>. QED
    BY <2>1 DEF IInv, Removal, ListsAgree, Rest, From, pinVars
<1>. QED
  BY <1>1, <1>2, <1>3, <1>4, <1>5, <1>6, <1>7, <1>8, <1>9, <1>10 DEF Next, Create

\* The pipe is this client's from CreateFile to CloseHandle.
LEMMA ConnectionStep ==
    ASSUME IInv, [Next]_vars
    PROVE  Connection'
<1>0. pipe \in Pipes(Nat) /\ pipe.queue \in Seq(Nat) /\ sending \in Seq(Nat)
  BY DEF IInv, Types, Pipes
<1>1. CASE CreateOutputPins
  BY <1>1 DEF CreateOutputPins, IInv, Connection, Pending, pinVars, pipeVars
<1>2. CASE RemovePin \/ ShiftPin \/ RemoveCount \/ DeletePin
  BY <1>2 DEF RemovePin, ShiftPin, RemoveCount, DeletePin, IInv, Connection, Pending, pipeVars
<1>3. CASE ClearPins
  BY <1>3 DEF ClearPins, IInv, Connection, Pending, pipeVars
<1>4. CASE OpenPipe
  <2>1. /\ pcCreate = "open" /\ UNCHANGED <<m_pinList, sending>> /\ m_pinList = << >>
        /\ hPipe # "open" /\ pipe.client # "source"
    BY <1>4 DEF OpenPipe, CreateUnchanged, pinVars, IInv, Connection
  <2>2. CASE CanOpen(pipe)
    <3>1. pipe' = Opened("source") /\ pcCreate' = "mode" /\ sending = << >>
      BY <1>4, <2>2 DEF OpenPipe, CanOpen, IInv, Connection
    <3>2. /\ pipe'.queue = << >> /\ pipe'.client = "source" /\ pipe'.state = "connected"
      BY <3>1, PipeValues DEF Clients
    <3>3. << >> \o << >> = << >>
      OBVIOUS
    <3>. QED
      BY <2>1, <3>1, <3>2, <3>3 DEF Connection, Pending
  <2>3. CASE ~CanOpen(pipe)
    <3>1. UNCHANGED <<pipe, hPipe>> /\ pcCreate' \in {"idle", "wait"}
      BY <1>4, <2>3 DEF OpenPipe
    <3>. QED
      BY <2>1, <3>1 DEF IInv, Connection, Pending
  <2>. QED
    BY <2>2, <2>3
<1>5. CASE WaitPipe
  BY <1>5 DEF WaitPipe, CreateUnchanged, IInv, Connection, Pending, pinVars, pipeVars
<1>6. CASE SetMode
  BY <1>6 DEF SetMode, CreateUnchanged, IInv, Connection, Pending, pinVars, pipeVars
<1>7. CASE ReadPin
  <2>1. /\ pipe.queue # << >> /\ pipe' = ReadMsg(pipe) /\ UNCHANGED <<sending, hPipe>>
        /\ pcCreate' \in {"read", "close"}
    BY <1>7, Read DEF IInv
  <2>2. pipe'.client = pipe.client /\ pipe'.state = pipe.state
    BY <1>0, <2>1, ReadPipe
  <2>. QED
    BY <2>1, <2>2 DEF IInv, Connection
<1>8. CASE ReadEnd
  <2>1. /\ UNCHANGED <<sending, hPipe>> /\ pcCreate' = "close"
        /\ pipe' = pipe \/ (pipe' = ReadMsg(pipe) /\ pipe.queue # << >>)
    BY <1>8 DEF ReadEnd
  <2>2. CASE pipe' = pipe
    BY <2>1, <2>2 DEF IInv, Connection
  <2>3. CASE pipe' = ReadMsg(pipe) /\ pipe.queue # << >>
    <3>1. pipe'.client = pipe.client /\ pipe'.state = pipe.state
      BY <1>0, <2>3, ReadPipe
    <3>. QED
      BY <2>1, <2>3, <3>1 DEF IInv, Connection
  <2>. QED
    BY <2>1, <2>2, <2>3
<1>9. CASE ClosePipe
  <2>1. hPipe' = "none" /\ pcCreate' = "idle" /\ UNCHANGED sending
        /\ pipe' = IF pipe.client = "source" THEN ClientClosed ELSE pipe
    BY <1>9 DEF ClosePipe, CreateUnchanged
  <2>2. pipe'.client # "source" /\ pipe'.queue = << >>
        /\ (pipe'.state = "listening" => pipe.state = "listening")
    BY <2>1, PipeValues DEF IInv, Connection
  <2>. QED
    BY <2>1, <2>2 DEF IInv, Connection
<1>10. CASE Delete
  BY <1>10 DEF Delete, IInv, Connection, Pending, pipeVars
<1>11. CASE Find \/ UNCHANGED vars
  <2>1. UNCHANGED pipeVars /\ UNCHANGED <<pinVars, pcCreate, hPipe>>
    BY <1>11, Elsewhere DEF Find, GetPin, FindPin, GetPinTest, GetPinFetch, FindAddRef,
       FindUnchanged, vars
  <2>. QED
    BY <2>1 DEF IInv, Connection, Pending, pinVars, pipeVars
<1>12. CASE Sink
  <2>0. UNCHANGED <<m_pinList, pcCreate, hPipe>>
    BY <1>12, Elsewhere DEF pinVars
  <2>1. CASE SinkListens \/ SinkEnds
    <3>1. sending' = << >> /\ pipe' \in {NoPipe, Listening, Disconnected}
      BY <2>1 DEF SinkListens, SinkEnds
    <3>2. pipe'.client = "nobody" /\ pipe'.queue = << >>
      BY <3>1, PipeValues
    <3>. QED
      BY <2>0, <3>1, <3>2 DEF IInv, Connection
  <2>2. CASE OtherOpens
    <3>1. pipe' = Opened("self") /\ sending' = sending
      BY <2>2 DEF OtherOpens
    <3>2. pipe'.client = "self" /\ pipe'.queue = << >> /\ pipe'.state = "connected"
      BY <3>1, PipeValues DEF Clients
    <3>. QED
      BY <2>0, <3>1, <3>2 DEF IInv, Connection
  <2>3. CASE OtherCloses
    <3>1. pipe' = ClientClosed /\ sending' = sending
      BY <2>3 DEF OtherCloses
    <3>2. pipe'.client = "nobody" /\ pipe'.queue = << >> /\ pipe'.state # "listening"
      BY <3>1, PipeValues
    <3>. QED
      BY <2>0, <3>1, <3>2 DEF IInv, Connection
  <2>4. CASE SinkStarts
    <3>1. pipe.client = "source" /\ pipe' = pipe /\ pcCreate = "read"
      BY <2>4 DEF SinkStarts
    <3>. QED
      BY <2>0, <3>1 DEF IInv, Connection
  <2>5. CASE SinkWrites
    <3>1. /\ pipe.client = "source" /\ sending # << >> /\ sending' = Tail(sending)
          /\ pipe' = Written(pipe, Head(sending))
      BY <2>5 DEF SinkWrites
    <3>2. Head(sending) \in Nat
      BY <1>0, <3>1
    <3>3. pipe'.client = pipe.client /\ pipe'.state = pipe.state
          /\ pipe'.queue = Append(pipe.queue, Head(sending))
      BY <1>0, <3>1, <3>2, WritePipe
    <3>4. Pending' = Pending
      BY <1>0, <3>1, <3>3, PendingWritten DEF Pending
    <3>. QED
      BY <2>0, <3>1, <3>3, <3>4 DEF IInv, Connection
  <2>. QED
    BY <1>12, <2>1, <2>2, <2>3, <2>4, <2>5 DEF Sink
<1>. QED
  BY <1>1, <1>2, <1>3, <1>4, <1>5, <1>6, <1>7, <1>8, <1>9, <1>10, <1>11, <1>12
  DEF Next, Create

\* What is to come without its first message goes on one pin later.
LEMMA RestComing ==
    ASSUME NEW p, NEW q, NEW a \in Nat, NEW l \in Nat,
           \A m \in 1..a : q[m] = p[m + 1],
           \A m \in 1..a + 1 : p[m] = IF m = a + 1 THEN 0 ELSE l + m
    PROVE  \A m \in 1..a : q[m] = IF m = a THEN 0 ELSE (l + 1) + m
<1>1. ASSUME NEW m \in 1..a
      PROVE  q[m] = IF m = a THEN 0 ELSE (l + 1) + m
  <2>1. m + 1 \in 1..a + 1 /\ l + (m + 1) = (l + 1) + m /\ (m + 1 = a + 1 <=> m = a)
    OBVIOUS
  <2>2. q[m] = p[m + 1] /\ p[m + 1] = IF m + 1 = a + 1 THEN 0 ELSE l + (m + 1)
    BY <2>1
  <2>. QED
    BY <2>1, <2>2
<1>. QED
  BY <1>1

\* What is to come goes on where the pins end.
LEMMA ComingStep ==
    ASSUME IInv, [Next]_vars
    PROVE  Coming'
<1>0. /\ pipe \in Pipes(Nat) /\ pipe.queue \in Seq(Nat) /\ sending \in Seq(Nat)
      /\ m_pinList \in Seq(Nat) /\ Len(m_pinList) \in Nat /\ catalogue \in Seq(BOOLEAN)
      /\ Len(catalogue) \in Nat /\ nextPin \in Nat
  BY DEF IInv, Types, Pipes
<1>1. CASE CreateOutputPins
  BY <1>1 DEF CreateOutputPins, Coming
<1>2. CASE RemovePin \/ ShiftPin \/ RemoveCount \/ DeletePin
  BY <1>2 DEF RemovePin, ShiftPin, RemoveCount, DeletePin, IInv, Coming
<1>3. CASE ClearPins
  BY <1>3 DEF ClearPins, IInv, Coming
<1>4. CASE OpenPipe \/ WaitPipe
  BY <1>4 DEF OpenPipe, WaitPipe, CreateUnchanged, IInv, Coming
<1>5. CASE SetMode
  <2>1. /\ pcCreate = "mode" /\ pcCreate' \in {"read", "idle"} /\ UNCHANGED ended
        /\ UNCHANGED <<pipe, sending>>
    BY <1>5 DEF SetMode, CreateUnchanged, pipeVars
  <2>2. ~ended /\ (pipe.client = "source" => Pending = << >>) /\ Pending' = Pending
    BY <2>1 DEF IInv, Coming, Connection, Pending
  <2>. QED
    BY <2>1, <2>2 DEF Coming
<1>6. CASE ReadPin
  <2>1. PICK k \in Nat \ {0} :
            /\ pipe.queue # << >> /\ k = Head(pipe.queue) /\ pipe' = ReadMsg(pipe)
            /\ m_pinList' = Append(m_pinList, nextPin + 1) /\ pcCreate = "read"
            /\ UNCHANGED <<sending, catalogue, ended>>
    BY <1>6, Read DEF IInv
  <2>2. /\ ~ended /\ pipe.client = "source" /\ Len(m_pinList') = Len(m_pinList) + 1
    BY <1>0, <2>1, NextPin, Appended DEF IInv, Coming
  <2>3. /\ Pending \in Seq(Nat) /\ Len(Pending) \in Nat \ {0} /\ DOMAIN Pending = 1..Len(Pending)
        /\ Pending' \in Seq(Nat) /\ Len(Pending') = Len(Pending) - 1
        /\ \A m \in 1..Len(Pending) - 1 : Pending'[m] = Pending[m + 1]
    <3>1. pipe'.queue = Tail(pipe.queue) /\ sending' = sending
      BY <1>0, <2>1, ReadPipe
    <3>2. Pending' = Tail(pipe.queue) \o sending
      BY <3>1 DEF Pending
    <3>3. /\ pipe.queue \o sending \in Seq(Nat) /\ Len(pipe.queue \o sending) \in Nat \ {0}
          /\ DOMAIN (pipe.queue \o sending) = 1..Len(pipe.queue \o sending)
          /\ Tail(pipe.queue) \o sending \in Seq(Nat)
          /\ Len(Tail(pipe.queue) \o sending) = Len(pipe.queue \o sending) - 1
          /\ \A m \in 1..Len(pipe.queue \o sending) - 1 :
                 (Tail(pipe.queue) \o sending)[m] = (pipe.queue \o sending)[m + 1]
      BY <1>0, <2>1, PendingRead
    <3>. QED
      BY <3>2, <3>3 DEF Pending
  <2>4. Pending # << >>
    BY <2>3
  <2>5. /\ Len(Pending) = Len(catalogue) + 1 - Len(m_pinList)
        /\ \A m \in DOMAIN Pending :
               Pending[m] = IF m = Len(Pending) THEN 0 ELSE Len(m_pinList) + m
    BY <2>1, <2>2, <2>4 DEF IInv, Coming
  <2>6. Len(Pending') = Len(catalogue) + 1 - (Len(m_pinList) + 1)
    BY <1>0, <2>3, <2>5
  <2>7. /\ Len(Pending') \in Nat /\ Len(Pending) = Len(Pending') + 1
        /\ DOMAIN Pending' = 1..Len(Pending')
    BY <2>3
  <2>8. \A m \in 1..Len(Pending') : Pending'[m] = Pending[m + 1]
    BY <2>3, <2>7
  <2>9. \A m \in 1..Len(Pending') + 1 :
            Pending[m] = IF m = Len(Pending') + 1 THEN 0 ELSE Len(m_pinList) + m
    BY <2>3, <2>5, <2>7
  <2>10. \A m \in 1..Len(Pending') :
            Pending'[m] = IF m = Len(Pending') THEN 0 ELSE (Len(m_pinList) + 1) + m
    <3>1. PICK p, q, a, l : p = Pending /\ q = Pending' /\ a = Len(Pending') /\ l = Len(m_pinList)
      OBVIOUS
    <3>2. /\ a \in Nat /\ l \in Nat /\ \A m \in 1..a : q[m] = p[m + 1]
          /\ \A m \in 1..a + 1 : p[m] = IF m = a + 1 THEN 0 ELSE l + m
      BY <1>0, <2>7, <2>8, <2>9, <3>1
    <3>3. \A m \in 1..a : q[m] = IF m = a THEN 0 ELSE (l + 1) + m
      BY <3>2, RestComing
    <3>. QED
      BY <3>1, <3>3
  <2>. QED
    BY <2>1, <2>2, <2>6, <2>7, <2>10 DEF Coming
<1>7. CASE ReadEnd
  <2>1. /\ pcCreate = "read" /\ pcCreate' = "close" /\ UNCHANGED <<m_pinList, catalogue>>
        /\ ended' # ended => pipe.queue # << >> /\ Head(pipe.queue) = 0
    BY <1>7 DEF ReadEnd, pinVars
  <2>2. ended' # ended => Len(m_pinList) = Len(catalogue)
    BY <2>1, NextPin DEF IInv
  <2>3. ~ended
    BY <2>1 DEF IInv, Coming
  <2>. QED
    BY <2>1, <2>2, <2>3 DEF Coming
<1>8. CASE ClosePipe
  BY <1>8 DEF ClosePipe, CreateUnchanged, pinVars, IInv, Coming
<1>9. CASE Delete
  BY <1>9 DEF Delete, IInv, Coming
<1>10. CASE Find \/ UNCHANGED vars
  <2>1. UNCHANGED pipeVars /\ UNCHANGED <<pinVars, pcCreate, ended>>
    BY <1>10, Elsewhere DEF Find, GetPin, FindPin, GetPinTest, GetPinFetch, FindAddRef,
       FindUnchanged, vars
  <2>. QED
    BY <2>1 DEF IInv, Coming, Pending, pinVars, pipeVars
<1>11. CASE Sink
  <2>0. UNCHANGED <<m_pinList, pcCreate, ended>>
    BY <1>11, Elsewhere DEF pinVars
  <2>1. CASE SinkListens \/ SinkEnds \/ OtherOpens \/ OtherCloses
    <3>1. UNCHANGED catalogue
      BY <2>1 DEF SinkListens, SinkEnds, OtherOpens, OtherCloses
    <3>2. pipe' \in {NoPipe, Listening, Disconnected, ClientClosed, Opened("self")}
      BY <2>1 DEF SinkListens, SinkEnds, OtherOpens, OtherCloses
    <3>3. pipe'.client # "source"
      BY <3>2, PipeValues DEF Clients
    <3>. QED
      BY <2>0, <3>1, <3>3 DEF IInv, Coming
  <2>2. CASE SinkStarts
    <3>1. /\ pipe' = pipe /\ pipe.queue = << >> /\ m_pinList = << >> /\ ~ended
          /\ sending' = [k \in 1..Len(catalogue') + 1 |-> IF k > Len(catalogue') THEN 0 ELSE k]
          /\ Len(catalogue') \in Nat
      BY <2>2, CatalogueIsSequence DEF SinkStarts
    <3>2. /\ sending' \in Seq(Nat) /\ Len(sending') = Len(catalogue') + 1
          /\ DOMAIN sending' = 1..Len(sending')
          /\ \A k \in 1..Len(sending') :
                 sending'[k] = IF k = Len(sending') THEN 0 ELSE k
      BY <3>1
    <3>3. Pending' = sending'
      <4>1. << >> \o sending' = sending'
        BY <3>2
      <4>. QED
        BY <3>1, <4>1 DEF Pending
    <3>4. Len(m_pinList) = 0 /\ \A k \in 1..Len(sending') : 0 + k = k
      BY <3>1, <3>2
    <3>. QED
      BY <2>0, <3>1, <3>2, <3>3, <3>4 DEF Coming
  <2>3. CASE SinkWrites
    <3>1. /\ sending # << >> /\ sending' = Tail(sending) /\ UNCHANGED catalogue
          /\ pipe' = Written(pipe, Head(sending))
      BY <2>3 DEF SinkWrites
    <3>2. Head(sending) \in Nat
      BY <1>0, <3>1
    <3>3. pipe'.client = pipe.client /\ pipe'.queue = Append(pipe.queue, Head(sending))
      BY <1>0, <3>1, <3>2, WritePipe
    <3>4. Pending' = Pending
      BY <1>0, <3>1, <3>3, PendingWritten DEF Pending
    <3>. QED
      BY <2>0, <3>1, <3>3, <3>4 DEF IInv, Coming
  <2>. QED
    BY <1>11, <2>1, <2>2, <2>3 DEF Sink
<1>. QED
  BY <1>1, <1>2, <1>3, <1>4, <1>5, <1>6, <1>7, <1>8, <1>9, <1>10, <1>11 DEF Next, Create
-----------------------------------------------------------------------------
\* The theorems.

\* A new filter has no pins.
LEMMA InitInv == Init => IInv
<1> SUFFICES ASSUME Init PROVE IInv
  OBVIOUS
<1>1. Types
  <2>1. << >> \in Seq(BOOLEAN) /\ Len(<< >>) <= MaxCatalogue
    BY BoundsAssumption
  <2>2. described \in [Pins -> Nat]
    BY DEF Init
  <2>. QED
    BY <2>1, <2>2, PipeValues DEF Init, Types
<1>2. ToSet(<< >>) = {} /\ Len(<< >>) = 0
  BY DEF ToSet
<1>3. Ordered /\ Enough /\ ListsAgree /\ Removal
  BY <1>2, BoundsAssumption DEF Init, Ordered, Enough, ListsAgree, Removal
<1>4. Connection /\ Coming
  BY PipeValues DEF Init, Connection, Coming
<1>. QED
  BY <1>1, <1>3, <1>4 DEF IInv

\* The invariant is inductive.
LEMMA InvStep == IInv /\ [Next]_vars => IInv'
<1> SUFFICES ASSUME IInv, [Next]_vars PROVE IInv'
  OBVIOUS
<1>1. Types'
  BY TypesStep DEF IInv
<1>. QED
  BY <1>1, OrderedStep, EnoughStep, RemovalStep, ConnectionStep, ComingStep DEF IInv

\* The invariant holds of every source filter.
THEOREM Invariance == Spec => []IInv
  BY InitInv, InvStep, PTL DEF Spec

\* CSource's array and count and the filter's list name the same pins whenever no pin
\* is being removed, and those pins exist, however often the pins are made anew and
\* whatever the sink does (VirtualStreamSource.cpp lines 120 to 300, source.cpp lines 95
\* to 200).
THEOREM ListsInStep == Spec => []ListsAgree
  BY Invariance, PTL DEF IInv

\* The filter's pins are the sink's in the sink's order, all of them when the list was
\* read to its end, and the pipe has been let go of when they are there
\* (VirtualStreamSource.cpp lines 180 to 300).
THEOREM PinsAreCatalogue == Spec => []PinsOfCatalogue
<1>1. IInv => PinsOfCatalogue
  <2> SUFFICES ASSUME IInv PROVE PinsOfCatalogue
    OBVIOUS
  <2>1. PipeClosed
    BY DEF IInv, Connection, PipeClosed
  <2>. QED
    BY <2>1 DEF IInv, Ordered, Coming, PinsOfCatalogue
<1>. QED
  BY <1>1, Invariance, PTL
-----------------------------------------------------------------------------
\* The video transform (vtrans.cpp, transfrm.cpp).

\* Since the last references were lost, as many frames as asked for have been counted,
\* by the countdown to a key frame or shown or withheld.
WaitGoesOn ==
    IF m_nWaitForKey = 0 THEN withheld >= WaitForKey - 1
                         ELSE m_nWaitForKey + withheld >= WaitForKey

\* A frame whose references are lost is waited for, or stands at the key frame itself.
TransformInv ==
    /\ m_nWaitForKey \in Nat /\ withheld \in Nat /\ videoUpstream \in {"new", "sending", "failed"}
    /\ videoUpstream # "sending" => pcReceive = "out"
    /\ m_bSkipping => timed /\ pcReceive = "out"
    /\ pcReceive = "deliver" => m_nWaitForKey = 0
    /\ m_bFlushing <=> videoPcApp = "endFlush"
    /\ downFlushing <=> m_bFlushing
    /\ stale => m_bFlushing /\ pcReceive # "out"
    /\ lost => \/ m_bSkipping \/ videoUpstream # "sending" \/ WaitGoesOn
               \/ pcReceive = "buffer" /\ (frame.key \/ frame.discontinuity)

\* Every step of the transform keeps it.
LEMMA TransformStep == TransformInv /\ [Transform!Next]_Transformvars => TransformInv'
<1> SUFFICES ASSUME TransformInv, [Transform!Next]_Transformvars PROVE TransformInv'
  OBVIOUS
<1> USE TransformAssumption DEF TransformInv, WaitGoesOn
<1>1. CASE Transform!Receive
  <2> USE DEF Transform!MaySend, Transform!csReceiveFree, Transform!quality, Transform!observed,
              Transform!graph, Transform!control
  <2>1. PICK f \in Transform!Frames : Transform!Receive!(f)
    BY <1>1 DEF Transform!Receive
  <2>2. CASE f.newType
    BY <2>1, <2>2 DEF Transform!StartStreaming, Transform!ForgetQuality
  <2>3. CASE ~f.newType
    <3>1. PICK slow \in BOOLEAN : Transform!ShouldSkipFrame(f, slow)
      BY <2>1, <2>3
    <3>2. m_bSkipping' => timed
      BY <3>1 DEF Transform!ShouldSkipFrame
    <3>3. m_bSkipping /\ ~m_bSkipping' => f.key
      BY <3>1 DEF Transform!ShouldSkipFrame
    <3>4. /\ videoUpstream' = "sending" /\ pcReceive = "out"
          /\ UNCHANGED <<m_bFlushing, downFlushing, videoPcApp, stale, timed, m_nWaitForKey>>
      BY <2>1, <2>3
    <3>5. CASE m_bSkipping'
      <4>1. lost' = TRUE /\ withheld' = 0 /\ pcReceive' = pcReceive
        BY <2>1, <2>3, <3>2, <3>5
      <4>2. QED
        BY <3>2, <3>4, <3>5, <4>1
    <3>6. CASE ~m_bSkipping'
      <4>1. lost' = lost /\ withheld' = withheld /\ pcReceive' = "buffer" /\ frame' = f
        BY <2>1, <2>3, <3>6
      <4>2. videoUpstream = "new" => f.key \/ f.discontinuity
        BY <2>1
      <4>3. videoUpstream # "failed"
        BY <2>1
      <4>4. QED
        BY <3>3, <3>4, <3>6, <4>1, <4>2, <4>3
    <3>7. QED
      BY <3>5, <3>6
  <2>4. QED
    BY <2>2, <2>3
<1>2. CASE Transform!ReceiveRefused
  BY <1>2 DEF Transform!ReceiveRefused, Transform!csReceiveFree, Transform!quality,
       Transform!observed, Transform!graph, Transform!control
<1>3. CASE Transform!GetBufferFails \/ Transform!DecodeFails
  BY <1>3 DEF Transform!GetBufferFails, Transform!DecodeFails, Transform!Returned,
       Transform!quality, Transform!graph, Transform!control
<1>4. CASE Transform!Decode
  <2> USE DEF Transform!quality, Transform!graph, Transform!control
  <2>1. PICK newBuffer \in BOOLEAN : Transform!Decode!2!(newBuffer)
    BY <1>4 DEF Transform!Decode
  <2>2. /\ pcReceive = "buffer" /\ pcReceive' \in {"deliver", "out"} /\ videoUpstream' = videoUpstream
        /\ ~m_bSkipping /\ ~m_bSkipping' /\ (stale' => stale /\ pcReceive' # "out")
        /\ (pcReceive' = "deliver" => m_nWaitForKey' = 0)
        /\ UNCHANGED <<m_bFlushing, downFlushing, videoPcApp, timed>>
    BY <1>4, <2>1 DEF Transform!Decode, Transform!Returned, Transform!ForgetQuality
  <2>3. m_nWaitForKey' \in Nat /\ withheld' \in Nat
    BY <2>1 DEF Transform!Decoded, Transform!StillWaiting, Transform!Wait
  <2>4. ASSUME lost' PROVE WaitGoesOn'
    <3>1. ~frame.key /\ (lost \/ frame.discontinuity \/ newBuffer)
      BY <2>1, <2>4 DEF Transform!Decoded
    <3>2. CASE frame.discontinuity \/ newBuffer
      BY <2>1, <3>1, <3>2 DEF Transform!Decoded, Transform!StillWaiting, Transform!Wait
    <3>3. CASE ~(frame.discontinuity \/ newBuffer)
      <4>1. WaitGoesOn
        BY <2>2, <3>1, <3>3
      <4>2. QED
        BY <2>1, <3>1, <3>3, <4>1 DEF Transform!Decoded, Transform!StillWaiting, Transform!Wait
    <3>4. QED
      BY <3>2, <3>3
  <2>5. QED
    BY <2>2, <2>3, <2>4
<1>5. CASE Transform!Deliver
  BY <1>5 DEF Transform!Deliver, Transform!Returned, Transform!quality, Transform!observed,
       Transform!graph, Transform!control
<1>6. CASE Transform!AlterQuality
  BY <1>6 DEF Transform!AlterQuality, Transform!observed, Transform!graph, Transform!control
<1>7. CASE Transform!Control
  <2> USE DEF Transform!Idle, Transform!csReceiveFree, Transform!UnchangedStream,
              Transform!quality, Transform!observed, Transform!graph
  <2>1. CASE \E state \in {"Stopped", "Paused", "Running"} : Transform!DownstreamChanges(state)
    BY <2>1 DEF Transform!DownstreamChanges
  <2>2. CASE Transform!PauseOther \/ Transform!Run
    BY <2>2 DEF Transform!PauseOther, Transform!Run
  <2>3. CASE Transform!PauseFromStopped
    BY <2>3 DEF Transform!PauseFromStopped, Transform!StartStreaming, Transform!ForgetQuality
  <2>4. CASE Transform!Stop \/ Transform!StopReturns
    BY <2>4 DEF Transform!Stop, Transform!StopReturns
  <2>5. CASE Transform!BeginFlush
    BY <2>5 DEF Transform!BeginFlush
  <2>6. CASE Transform!EndFlush
    BY <2>6 DEF Transform!EndFlush, Transform!StartStreaming, Transform!ForgetQuality
  <2>7. QED
    BY <1>7, <2>1, <2>2, <2>3, <2>4, <2>5, <2>6 DEF Transform!Control
<1>8. CASE UNCHANGED Transformvars
  BY <1>8 DEF Transformvars
<1>9. QED
  BY <1>1, <1>2, <1>3, <1>4, <1>5, <1>6, <1>7, <1>8
     DEF Transform!Next, Transform!SourceThread, Transform!InReceive

\* What the transform shows can be decoded and is of this side of a flush.
LEMMA TransformSafe == TransformInv => Transform!ShowsDecodable /\ Transform!NothingStale
  BY TransformAssumption
     DEF TransformInv, WaitGoesOn, Transform!ShowsDecodable, Transform!NothingStale

LEMMA TransformInit == Transform!Init => TransformInv
  BY TransformAssumption DEF Transform!Init, TransformInv
-----------------------------------------------------------------------------
\* The transform in place (transip.cpp).

\* Connected pins have an allocator each, and a read-only one is the upstream filter's;
\* where both are connected their types agree and data that is modified is not
\* read-only, or the graph has been asked to reconnect.
InPlaceInv ==
    /\ InPlace!InConnected => allocIn # InPlace!None /\ (m_bReadOnly => allocIn = "up")
    /\ InPlace!OutConnected => allocOut # InPlace!None
    /\ InPlace!InConnected /\ InPlace!OutConnected =>
           /\ typeIn = typeOut \/ "out" \in reconnect \/ "in" \in reconnect
           /\ m_bModifiesData /\ m_bReadOnly =>
                  InPlace!UsingDifferentAllocators \/ "in" \in reconnect

\* Every connection, disconnection and reconnection keeps it.
LEMMA InPlaceStep == InPlaceInv /\ [InPlace!Next]_InPlacevars => InPlaceInv'
<1> SUFFICES ASSUME InPlaceInv, [InPlace!Next]_InPlacevars PROVE InPlaceInv'
  OBVIOUS
<1> USE DEF InPlace!InConnected, InPlace!OutConnected, InPlace!UsingDifferentAllocators
<1>1. ASSUME NEW filter, NEW type, InPlace!ConnectInput(filter, type)
      PROVE  /\ allocIn' # InPlace!None /\ typeIn' = type /\ inplaceUpstream' = filter
             /\ m_bReadOnly' => allocIn' = "up"
             /\ UNCHANGED <<m_bModifiesData, downstream, typeOut>>
             /\ downstream # InPlace!Nobody =>
                   /\ allocOut' # InPlace!None
                   /\ m_bModifiesData /\ m_bReadOnly' => allocIn' # allocOut'
  <2>1. PICK alloc \in {"temporary", "down", "up"} :
            \E out \in {allocOut, InPlace!OutWhenAsked} :
                \E readOnly : InPlace!NotifyAllocator(out, alloc, readOnly)
                               /\ (readOnly => alloc = "up")
    <3>1. CASE InPlace!Offered # InPlace!None
               /\ InPlace!NotifyAllocator(InPlace!OutWhenAsked, InPlace!Offered, FALSE)
      BY <3>1 DEF InPlace!Offered
    <3>2. CASE \E out \in {allocOut, InPlace!OutWhenAsked} :
                   InPlace!NotifyAllocator(out, "up", filter.readOnly)
      BY <3>2
    <3>3. QED
      BY <1>1, <3>1, <3>2 DEF InPlace!ConnectInput, InPlace!DecideUpstream
  <2>2. PICK out \in {allocOut, InPlace!OutWhenAsked} :
            \E readOnly : InPlace!NotifyAllocator(out, alloc, readOnly)
                           /\ (readOnly => alloc = "up")
    BY <2>1
  <2>r. PICK readOnly : InPlace!NotifyAllocator(out, alloc, readOnly)
                        /\ (readOnly => alloc = "up")
    BY <2>2
  <2>o. downstream # InPlace!Nobody => out # InPlace!None
    BY DEF InPlaceInv, InPlace!OutWhenAsked, InPlace!None
  <2>3. allocIn' = alloc /\ m_bReadOnly' = readOnly /\ alloc # InPlace!None
    BY <2>r DEF InPlace!NotifyAllocator, InPlace!None
  <2>4. ASSUME downstream # InPlace!Nobody
        PROVE  /\ allocOut' # InPlace!None
               /\ m_bModifiesData /\ readOnly => alloc # allocOut'
    <3>1. CASE readOnly /\ m_bModifiesData
      BY <2>r, <2>o, <2>4, <3>1 DEF InPlace!NotifyAllocator, InPlace!CopyNeeded
    <3>2. CASE ~(readOnly /\ m_bModifiesData)
      BY <2>r, <2>3, <2>4, <3>2 DEF InPlace!NotifyAllocator
    <3>3. QED
      BY <3>1, <3>2
  <2>5. QED
    BY <1>1, <2>r, <2>3, <2>4 DEF InPlace!ConnectInput
<1>2. ASSUME NEW filter, NEW type, InPlace!ConnectOutput(filter, type)
      PROVE  /\ allocOut' # InPlace!None /\ typeOut' = type /\ downstream' = filter
             /\ UNCHANGED <<m_bModifiesData, inplaceUpstream, typeIn, allocIn, m_bReadOnly>>
  BY <1>2 DEF InPlace!ConnectOutput, InPlace!DecideAllocator, InPlace!inPin, InPlace!None
<1>3. ASSUME NEW filter \in InPlace!Upstreams, NEW type \in MediaTypes, InPlace!Connect(filter, type)
      PROVE  InPlaceInv'
  <2>1. InPlace!ConnectInput(filter, type) /\ ("out" \in reconnect' \/ downstream = InPlace!Nobody \/ type = typeOut)
    BY <1>3 DEF InPlace!Connect, InPlace!ReconnectOutput
  <2>2. QED
    BY <1>1, <2>1 DEF InPlaceInv
<1>4. ASSUME NEW filter \in InPlace!Downstreams, NEW type \in MediaTypes, InPlace!Receive(filter, type)
      PROVE  InPlaceInv'
  <2>1. InPlace!ConnectOutput(filter, type) /\ "in" \in reconnect'
    BY <1>4 DEF InPlace!Receive, InPlace!ReconnectInput
  <2>2. QED
    BY <1>2, <2>1 DEF InPlaceInv
<1>5. CASE InPlace!DisconnectInput \/ InPlace!DisconnectOutput
  BY <1>5
     DEF InPlace!DisconnectInput, InPlace!DisconnectOutput, InPlace!inPin, InPlace!outPin,
         InPlaceInv
<1>6. CASE InPlace!GraphReconnectsInput
  <2>1. CASE \E type \in InPlace!Asked(typeOut) :
                 /\ InPlace!ConnectInput(inplaceUpstream, type)
                 /\ reconnect' = (reconnect \ {"in"}) \cup InPlace!ReconnectOutput(type)
    <3>1. PICK type \in InPlace!Asked(typeOut) :
                 /\ InPlace!ConnectInput(inplaceUpstream, type)
                 /\ reconnect' = (reconnect \ {"in"}) \cup InPlace!ReconnectOutput(type)
      BY <2>1
    <3>2. "out" \in reconnect' \/ downstream = InPlace!Nobody \/ type = typeOut
      BY <3>1 DEF InPlace!ReconnectOutput
    <3>3. QED
      BY <1>1, <3>1, <3>2 DEF InPlaceInv
  <2>2. CASE inplaceUpstream' = InPlace!Nobody /\ InPlace!DecidedNothing(inplaceUpstream)
             /\ UNCHANGED downstream
    BY <2>2 DEF InPlace!DecidedNothing, InPlace!OutWhenAsked, InPlace!None, InPlaceInv
  <2>3. QED
    BY <1>6, <2>1, <2>2 DEF InPlace!GraphReconnectsInput
<1>7. CASE InPlace!GraphReconnectsOutput
  <2>1. CASE \E type \in InPlace!Asked(typeIn) :
                 /\ InPlace!InConnected /\ InPlace!ConnectOutput(downstream, type)
                 /\ reconnect' = (reconnect \ {"out"}) \cup InPlace!ReconnectInput(type)
    BY <1>2, <2>1 DEF InPlaceInv, InPlace!ReconnectInput
  <2>2. QED
    BY <1>7, <2>1 DEF InPlace!GraphReconnectsOutput, InPlace!inPin, InPlaceInv
<1>8. CASE UNCHANGED InPlacevars
  BY <1>8 DEF InPlacevars, InPlaceInv
<1>10. CASE \E filter \in InPlace!Upstreams : InPlace!ConnectFails(filter)
  <2>1. allocOut' = allocOut \/ allocOut' = InPlace!OutWhenAsked
    BY <1>10 DEF InPlace!ConnectFails, InPlace!DecidedNothing
  <2>2. QED
    BY <1>10, <2>1 DEF InPlace!ConnectFails, InPlace!OutWhenAsked, InPlace!None, InPlaceInv
<1>11. CASE InPlace!GetAllocator
  BY <1>11 DEF InPlace!GetAllocator, InPlace!OutWhenAsked, InPlace!Offered, InPlace!None, InPlaceInv
<1>9. QED
  BY <1>3, <1>4, <1>5, <1>6, <1>7, <1>8, <1>10, <1>11 DEF InPlace!Next, InPlace!Reconnect

\* When no reconnection is outstanding, samples may be passed on.
LEMMA InPlaceSafe == InPlaceInv => InPlace!TransformsSafely
  BY DEF InPlaceInv, InPlace!TransformsSafely, InPlace!Settled


LEMMA InPlaceInit == InPlace!Init => InPlaceInv
  BY DEF InPlace!Init, InPlaceInv, InPlace!InConnected, InPlace!OutConnected
-----------------------------------------------------------------------------
\* Stream control (strmctl.cpp).

\* Nothing but the types: the rule that decides a sample is right in any plan.
ControlInv ==
    /\ {m_StreamState, m_StreamStateOnStop} \subseteq {"FLOWING", "DISCARDING"}
    /\ {m_tStartTime, m_tStopTime} \subseteq 0..Control!MAX_TIME

Plans == [state : {"FLOWING", "DISCARDING"}, onStop : {"FLOWING", "DISCARDING"},
          start : 0..Control!MAX_TIME, stop : 0..Control!MAX_TIME]

\* What a plan becomes when it is executed or cancelled is a plan.
LEMMA Executed ==
    ASSUME NEW p \in Plans
    PROVE  /\ Control!CancelStop(p) \in Plans /\ Control!CancelStart(p) \in Plans
           /\ Control!ExecuteStop(p) \in Plans /\ Control!ExecuteStart(p) \in Plans
<1> USE ControlAssumption DEF Plans, Control!MAX_TIME
<1>1. ASSUME NEW q \in Plans PROVE Control!CancelStop(q) \in Plans
  <2>1. [q EXCEPT !.stop = Control!MAX_TIME] \in Plans
    OBVIOUS
  <2>2. QED
    BY <2>1 DEF Control!CancelStop
<1>2. ASSUME NEW q \in Plans PROVE Control!CancelStart(q) \in Plans
  BY DEF Control!CancelStart
<1>3. ASSUME NEW s \in {"FLOWING", "DISCARDING"} PROVE [p EXCEPT !.state = s] \in Plans
  OBVIOUS
<1>4. p.onStop \in {"FLOWING", "DISCARDING"}
  OBVIOUS
<1> HIDE DEF Plans
<1>5. QED
  BY <1>1, <1>2, <1>3, <1>4 DEF Control!ExecuteStop, Control!ExecuteStart

\* A plan that is kept has the types.
LEMMA Planned ==
    ASSUME NEW p \in Plans, Control!SetPlan(p)
    PROVE  ControlInv'
  BY DEF Plans, Control!SetPlan, ControlInv, Control!MAX_TIME

\* Every command and every sample keeps them.
LEMMA ControlStep == ControlInv /\ [Control!Next]_Controlvars => ControlInv'
<1> SUFFICES ASSUME ControlInv, [Control!Next]_Controlvars PROVE ControlInv'
  OBVIOUS
<1> USE ControlAssumption
<1>1. Control!Current \in Plans
  BY DEF ControlInv, Control!Current, Control!Plan, Plans
<1>2. CASE Control!StopAt
  BY <1>2 DEF Control!StopAt, Control!SetPlan, Control!Current, Control!Plan, Control!Times,
     Control!MAX_TIME, ControlInv
<1>3. CASE Control!StopNow \/ Control!StopCancelled
  BY <1>1, <1>3, Executed, Planned DEF Control!StopNow, Control!StopCancelled, Plans
<1>4. CASE Control!StartAt
  BY <1>4 DEF Control!StartAt, Control!SetPlan, Control!Current, Control!Plan, Control!Times,
     Control!MAX_TIME, ControlInv
<1>5. CASE Control!StartNow \/ Control!StartCancelled
  BY <1>1, <1>5, Executed, Planned DEF Control!StartNow, Control!StartCancelled, Plans
<1>6. CASE Control!NotifyFilterState
  <2>1. Control!AllExecuted(Control!Current) \in Plans
    BY <1>1, Executed DEF Control!AllExecuted
  <2>2. [Control!AllExecuted(Control!Current) EXCEPT !.state = "FLOWING"] \in Plans
    BY <2>1 DEF Plans
  <2>3. QED
    BY <1>6, <2>2, Planned DEF Control!NotifyFilterState, Control!plan, ControlInv
<1>7. CASE Control!Flushing \/ Control!SetSyncSource \/ Control!Tick \/ Control!CheckStreamState
  BY <1>7 DEF Control!Flushing, Control!SetSyncSource, Control!Tick, Control!CheckStreamState,
     Control!plan, ControlInv
<1>8. CASE Control!CheckTimes
  <2>1. Control!Judged(Control!Current, sample[1], sample[2]) \in Plans
    BY <1>1, Executed DEF Control!Judged
  <2>2. QED
    BY <1>8, <2>1, Planned DEF Control!CheckTimes
<1>9. CASE Control!CheckFilter \/ Control!Woken \/ Control!TimedOut \/ UNCHANGED Controlvars
  BY <1>9 DEF Control!CheckFilter, Control!Woken, Control!TimedOut, Controlvars,
     Control!plan, ControlInv
<1>10. QED
  BY <1>2, <1>3, <1>4, <1>5, <1>6, <1>7, <1>8, <1>9 DEF Control!Next, Control!StreamingThread

\* A sample flows if the stream flows at its start, or is wanted before its end.
LEMMA ControlSafe == ControlInv => Control!FlowsIfAnyPartDoes
<1> SUFFICES ASSUME ControlInv, NEW first \in Control!Times, NEW last \in Control!Times, first < last
             PROVE  LET p == Control!Judged(Control!Current, first, last)
                    IN  /\ p.state = "FLOWING"
                             <=> \/ Control!FlowsAt(Control!Current, first)
                                 \/ m_tStartTime \in first..(last - 1)
                        /\ \A t \in last..Control!MAX_TIME :
                              Control!FlowsAt(p, t) = Control!FlowsAt(Control!Current, t)
  BY DEF Control!FlowsIfAnyPartDoes
<1> DEFINE p == Control!Judged(Control!Current, first, last)
<1> USE ControlAssumption DEF ControlInv, Control!Current, Control!Plan, Control!Times, Control!MAX_TIME,
     Control!Judged, Control!ExecuteStop, Control!ExecuteStart, Control!CancelStop, Control!CancelStart,
     Control!FlowsAt
<1>1. p.state = "FLOWING" <=> \/ Control!FlowsAt(Control!Current, first)
                              \/ m_tStartTime \in first..(last - 1)
  OBVIOUS
<1>2. ASSUME NEW t \in last..Control!MAX_TIME
      PROVE  Control!FlowsAt(p, t) = Control!FlowsAt(Control!Current, t)
  OBVIOUS
<1>3. QED
  BY <1>1, <1>2

LEMMA ControlInit == Control!Init => ControlInv
  BY ControlAssumption DEF Control!Init, ControlInv, Control!MAX_TIME
-----------------------------------------------------------------------------
\* The window (winutil.cpp).

SentMessages ==
    [kind : {"realize", "changed", "show", "destroy"}, from : {"app", "others", "renderer"}]
PostedMessages == [kind : {"realize", "destroy"}, from : {"app", "nobody"}]
Frames == [at : {"select", "realizing", "realized"},
           from : {"app", "others", "renderer", "nobody"}, foreground : BOOLEAN]

WindowTypes ==
    /\ sent \in Seq(SentMessages) /\ posted \in Seq(PostedMessages) /\ stack \in Seq(Frames)
    /\ windows \in Nat /\ freed \in Nat

NoneDestroys == \A k \in DOMAIN sent : sent[k].kind # "destroy"

\* The window's thread selects a palette at most in the last message it is in, and the
\* window is there then.  Where the message to destroy it is posted, it is there as long
\* as the thread is in a message.
LastSelects ==
    /\ \A j \in DOMAIN stack : stack[j].at = "select" => j = Len(stack) /\ m_hwnd
    /\ m_bDoPostToDestroy => (stack # << >> => m_hwnd)

\* A message to destroy it is sent only to a window that was constructed so, and the
\* window is gone when the one who asked for that is told.
DestroysOnce ==
    /\ m_bDoPostToDestroy => NoneDestroys
    /\ windowPcApp = "done" /\ m_evDone => ~m_hwnd

\* Both contexts are there with the window and one of each is freed with it; the
\* renderer, whose message waits, keeps the window from being destroyed.
WindowInv ==
    /\ WindowTypes /\ LastSelects /\ DestroysOnce
    /\ m_hdc = m_hwnd /\ m_MemoryDC = m_hwnd
    /\ IF m_MemoryDC THEN windows = freed + 1 ELSE windows = freed
    /\ pcRenderer = "realizing" => m_hwnd /\ \E k \in DOMAIN sent : sent[k].from = "renderer"

\* Who has something to be sent still has it when a message comes behind it.
LEMMA SentBehind ==
    ASSUME WindowInv, NEW m \in SentMessages, sent' = Append(sent, m)
    PROVE  /\ sent' \in Seq(SentMessages)
           /\ pcRenderer = "realizing" => \E k \in DOMAIN sent' : sent'[k].from = "renderer"
           /\ \E k \in DOMAIN sent' : sent'[k].from = m.from
           /\ m.kind # "destroy" => (NoneDestroys => NoneDestroys')
<1>1. /\ sent' \in Seq(SentMessages) /\ Len(sent') = Len(sent) + 1
      /\ sent'[Len(sent) + 1] = m
      /\ \A k \in DOMAIN sent : k \in DOMAIN sent' /\ sent'[k] = sent[k]
      /\ Len(sent) + 1 \in DOMAIN sent'
      /\ \A k \in DOMAIN sent' : k \in DOMAIN sent \/ k = Len(sent) + 1
  BY DEF WindowInv, WindowTypes
<1>2. QED
  BY <1>1 DEF WindowInv, NoneDestroys

\* What is left when the first message is taken.
LEMMA SentTaken ==
    ASSUME WindowInv, sent # << >>, sent' = Tail(sent)
    PROVE  /\ Head(sent) \in SentMessages /\ sent' \in Seq(SentMessages)
           /\ \A k \in DOMAIN sent : sent[k].from = "renderer" =>
                 Head(sent).from = "renderer" \/ \E j \in DOMAIN sent' : sent'[j].from = "renderer"
           /\ NoneDestroys => NoneDestroys'
<1>1. /\ Head(sent) = sent[1] /\ Head(sent) \in SentMessages /\ Tail(sent) \in Seq(SentMessages)
      /\ DOMAIN sent' = 1..(Len(sent) - 1) /\ DOMAIN sent = 1..Len(sent) /\ Len(sent) \in Nat
      /\ \A k \in DOMAIN sent' : sent'[k] = sent[k + 1]
  BY DEF WindowInv, WindowTypes
<1>2. ASSUME NEW k \in DOMAIN sent, k # 1 PROVE k - 1 \in DOMAIN sent' /\ sent'[k - 1] = sent[k]
  BY <1>1, <1>2
<1>3. NoneDestroys => NoneDestroys'
  BY <1>1 DEF NoneDestroys
<1>4. ASSUME NEW k \in DOMAIN sent, sent[k].from = "renderer"
      PROVE  Head(sent).from = "renderer" \/ \E j \in DOMAIN sent' : sent'[j].from = "renderer"
  <2>1. CASE k = 1
    BY <1>1, <1>4, <2>1
  <2>2. CASE k # 1
    BY <1>2, <1>4, <2>2
  <2>3. QED
    BY <2>1, <2>2
<1>5. QED
  BY <1>1, <1>3, <1>4

\* Into a message, out of one, and on in one.
LEMMA MessageBegun ==
    ASSUME WindowTypes, LastSelects, Window!Waiting, m_hwnd, m_hwnd' = m_hwnd,
           NEW f \in Frames, stack' = Append(stack, f)
    PROVE  stack' \in Seq(Frames) /\ LastSelects'
<1>1. /\ stack' \in Seq(Frames) /\ Len(stack') = Len(stack) + 1 /\ Len(stack) \in Nat
      /\ DOMAIN stack' = 1..Len(stack') /\ DOMAIN stack = 1..Len(stack)
      /\ \A j \in DOMAIN stack : stack'[j] = stack[j]
  BY DEF WindowTypes
<1>2. ASSUME NEW j \in DOMAIN stack PROVE stack[j].at # "select"
  <2>1. stack # << >>
    BY <1>1
  <2>2. stack[Len(stack)].at = "realizing"
    BY <2>1 DEF Window!Waiting, Window!Top
  <2>3. QED
    BY <2>2 DEF LastSelects
<1>3. \A j \in DOMAIN stack' : j \in DOMAIN stack \/ j = Len(stack')
  BY <1>1
<1>4. QED
  BY <1>1, <1>2, <1>3 DEF LastSelects

LEMMA MessageLeft ==
    ASSUME WindowTypes, LastSelects, UNCHANGED <<m_hwnd, m_bDoPostToDestroy>>, stack # << >>,
           stack' = SubSeq(stack, 1, Len(stack) - 1)
    PROVE  stack' \in Seq(Frames) /\ LastSelects'
<1>1. stack \in Seq(Frames) /\ Len(stack) \in Nat /\ Len(stack) # 0 /\ DOMAIN stack = 1..Len(stack)
  BY DEF WindowTypes
<1>2. stack' \in Seq(Frames) /\ Len(stack') = Len(stack) - 1
  BY <1>1
<1>3. ASSUME NEW j \in DOMAIN stack'
      PROVE  stack'[j] = stack[j] /\ j \in DOMAIN stack /\ j # Len(stack)
  BY <1>1, <1>2
<1>4. QED
  BY <1>2, <1>3 DEF LastSelects

LEMMA MessageOn ==
    ASSUME WindowTypes, LastSelects, UNCHANGED <<m_hwnd, m_bDoPostToDestroy>>, stack # << >>,
           NEW at \in {"realizing", "realized"}, stack' = [stack EXCEPT ![Len(stack)].at = at]
    PROVE  stack' \in Seq(Frames) /\ LastSelects'
<1> DEFINE f == [stack[Len(stack)] EXCEPT !.at = at]
<1>1. Len(stack) \in DOMAIN stack /\ DOMAIN stack = 1..Len(stack)
  BY DEF WindowTypes
<1>e. stack[Len(stack)] \in Frames
  BY <1>1 DEF WindowTypes
<1>2. f \in Frames /\ f.at = at
  <2>1. ASSUME NEW g \in Frames PROVE [g EXCEPT !.at = at] \in Frames /\ [g EXCEPT !.at = at].at = at
    BY DEF Frames
  <2>2. QED
    BY <1>e, <2>1
<1>3. stack' = [stack EXCEPT ![Len(stack)] = f]
  OBVIOUS
<1> HIDE DEF f
<1>4. /\ stack' \in Seq(Frames) /\ Len(stack') = Len(stack) /\ DOMAIN stack' = DOMAIN stack
      /\ \A j \in DOMAIN stack : j # Len(stack) => stack'[j] = stack[j]
      /\ stack'[Len(stack)] = f
  BY <1>1, <1>2, <1>3 DEF WindowTypes
<1>5. stack' # << >>
  BY <1>1, <1>4
<1>6. QED
  BY <1>2, <1>4, <1>5 DEF LastSelects

\* What the run asks of a window.
LEMMA WindowSafe == WindowInv => Window!NotDestroyedInUse /\ Window!DCsDeletedOnce
<1> SUFFICES ASSUME WindowInv PROVE Window!NotDestroyedInUse /\ Window!DCsDeletedOnce
  OBVIOUS
<1>1. Window!NotDestroyedInUse
  <2>1. m_hwnd => Window!There
    BY DEF WindowInv, Window!There
  <2>2. ASSUME NEW j \in DOMAIN stack PROVE stack # << >>
    OBVIOUS
  <2>3. QED
    BY <2>1, <2>2 DEF WindowInv, LastSelects, Window!NotDestroyedInUse
<1>2. CASE m_MemoryDC
  BY <1>1, <1>2 DEF WindowInv, Window!DCsDeletedOnce
<1>3. CASE ~m_MemoryDC
  <2>1. (IF m_MemoryDC THEN 1 ELSE 0) = 0
    BY <1>3
  <2>2. windows = freed + 0
    BY <1>3 DEF WindowInv, WindowTypes
  <2>3. QED
    BY <1>1, <2>1, <2>2 DEF WindowInv, Window!DCsDeletedOnce
<1>4. QED
  BY <1>2, <1>3

\* Every message and every call keeps it.
LEMMA WindowStep == WindowInv /\ [Window!Next]_Windowvars => WindowInv'
<1> SUFFICES ASSUME WindowInv, [Window!Next]_Windowvars PROVE WindowInv'
  OBVIOUS
<1> USE DEF Window!window, Window!palette, Window!messages, Window!app, Window!observed
<1>t. WindowTypes /\ LastSelects /\ DestroysOnce
  BY DEF WindowInv
<1>1. CASE Window!PrepareWindow
  BY <1>1 DEF Window!PrepareWindow, WindowInv, WindowTypes, LastSelects, DestroysOnce, NoneDestroys
<1>2. ASSUME NEW m, m.from \in {"app", "others", "renderer", "nobody"}, m.kind # "destroy",
             Window!Handle(m), Window!Waiting, UNCHANGED m_bDoPostToDestroy
      PROVE  /\ UNCHANGED <<m_hwnd, m_hdc, m_MemoryDC, freed, m_evDone>>
             /\ stack' \in Seq(Frames) /\ LastSelects'
             /\ windowPcApp' = "done" => windowPcApp = "done"
             /\ pcRenderer' = "realizing" => pcRenderer = "realizing" /\ m.from # "renderer"
  <2>1. CASE Window!OnPaletteChange(m)
    <3>1. /\ UNCHANGED <<m_hwnd, m_hdc, m_MemoryDC, freed, m_evDone>>
          /\ windowPcApp' = "done" => windowPcApp = "done"
          /\ pcRenderer' = "realizing" => pcRenderer = "realizing" /\ m.from # "renderer"
      BY <2>1 DEF Window!OnPaletteChange, Window!Answered, Window!Reply
    <3>2. CASE UNCHANGED stack
      BY <3>1, <3>2, <1>t, <1>2 DEF LastSelects, WindowTypes
    <3>3. CASE m_hwnd /\ stack' = Append(stack, Window!Frame("select", m.from, m.kind = "realize"))
      <4>1. Window!Frame("select", m.from, m.kind = "realize") \in Frames
        BY <1>2 DEF Window!Frame, Frames
      <4>2. QED
        BY <1>t, <1>2, <3>1, <3>3, <4>1, MessageBegun
    <3>4. QED
      BY <2>1, <3>1, <3>2, <3>3 DEF Window!OnPaletteChange, Window!Answered
  <2>2. CASE Window!OnShowStage(m)
    BY <2>2, <1>t, <1>2 DEF Window!OnShowStage, Window!Reply, LastSelects, WindowTypes
  <2>3. QED
    BY <1>2, <2>1, <2>2 DEF Window!Handle
<1>d. ASSUME NEW m, Window!OnDestroy(m), Window!Waiting, UNCHANGED <<windows, m_bDoPostToDestroy>>,
             m_bDoPostToDestroy => stack = << >>, sent' = << >>, posted' = << >>
      PROVE  WindowInv'
  <2>1. freed' \in Nat /\ windows' = freed' /\ windows' \in Nat
    BY <1>d DEF Window!OnDestroy, WindowInv, WindowTypes
  <2>2. /\ m_hwnd' = FALSE /\ m_hdc' = FALSE /\ m_MemoryDC' = FALSE
        /\ UNCHANGED <<stack, windowPcApp>>
    BY <1>d DEF Window!OnDestroy
  <2>3. pcRenderer' # "realizing"
    BY <1>d DEF Window!OnDestroy, WindowInv, Window!Senders
  <2>4. \A j \in DOMAIN stack : stack[j].at # "select"
    <3>1. ASSUME NEW j \in DOMAIN stack, stack[j].at = "select" PROVE FALSE
      <4>1. stack # << >> /\ j = Len(stack)
        BY <3>1, <1>t DEF LastSelects
      <4>2. QED
        BY <1>d, <3>1, <4>1 DEF Window!Waiting, Window!Top
    <3>2. QED
      BY <3>1
  <2>5. LastSelects'
    BY <1>d, <2>2, <2>4 DEF LastSelects
  <2>6. NoneDestroys'
    BY <1>d DEF NoneDestroys
  <2>7. WindowTypes'
    BY <1>t, <1>d, <2>1, <2>2 DEF WindowTypes
  <2>8. QED
    BY <2>1, <2>2, <2>3, <2>5, <2>6, <2>7 DEF WindowInv, DestroysOnce
<1>3. CASE Window!HandleSent
  <2>1. /\ sent # << >> /\ Window!Waiting /\ Window!Handle(Head(sent))
        /\ UNCHANGED <<windows, m_bDoPostToDestroy>>
        /\ sent' = (IF m_hwnd' THEN Tail(sent) ELSE << >>)
        /\ posted' = (IF m_hwnd' THEN posted ELSE << >>)
    BY <1>3 DEF Window!HandleSent
  <2>2. Head(sent) \in SentMessages /\ Head(sent) = sent[1] /\ 1 \in DOMAIN sent
    BY <2>1, <1>t DEF WindowTypes
  <2>3. CASE Head(sent).kind = "destroy"
    <3>1. Window!OnDestroy(Head(sent))
      BY <2>1, <2>3 DEF Window!Handle
    <3>2. ~m_bDoPostToDestroy
      BY <2>2, <2>3, <1>t DEF DestroysOnce, NoneDestroys
    <3>3. m_hwnd' = FALSE
      BY <3>1 DEF Window!OnDestroy
    <3>4. sent' = << >> /\ posted' = << >>
      BY <2>1, <3>3
    <3>5. QED
      BY <1>d, <2>1, <3>1, <3>2, <3>4
  <2>4. CASE Head(sent).kind # "destroy"
    <3>1. /\ UNCHANGED <<m_hwnd, m_hdc, m_MemoryDC, freed, m_evDone>>
          /\ stack' \in Seq(Frames) /\ LastSelects'
          /\ windowPcApp' = "done" => windowPcApp = "done"
          /\ pcRenderer' = "realizing" => pcRenderer = "realizing" /\ Head(sent).from # "renderer"
      <4>1. Head(sent).from \in {"app", "others", "renderer", "nobody"}
        BY <2>2 DEF SentMessages
      <4>2. QED
        BY <1>2, <2>1, <2>4, <4>1
    <3>2. posted' \in Seq(PostedMessages)
      BY <2>1, <1>t DEF WindowTypes
    <3>3. sent' \in Seq(SentMessages) /\ (NoneDestroys => NoneDestroys')
          /\ (pcRenderer' = "realizing" => m_hwnd /\ \E k \in DOMAIN sent' : sent'[k].from = "renderer")
      <4>1. CASE m_hwnd
        <5>1. sent' = Tail(sent)
          BY <2>1, <3>1, <4>1
        <5>2. QED
          BY <2>1, <3>1, <4>1, <5>1, SentTaken DEF WindowInv
      <4>2. CASE ~m_hwnd
        <5>1. sent' = << >>
          BY <2>1, <3>1, <4>2
        <5>2. QED
          BY <3>1, <4>2, <5>1 DEF WindowInv, NoneDestroys
      <4>3. QED
        BY <4>1, <4>2
    <3>4. QED
      BY <2>1, <2>4, <3>1, <3>2, <3>3 DEF WindowInv, WindowTypes, DestroysOnce
  <2>5. QED
    BY <2>3, <2>4
<1>4. CASE Window!HandlePosted
  <2>1. /\ Window!Handle(Head(posted)) /\ UNCHANGED <<sent, windows, m_bDoPostToDestroy>>
        /\ stack = << >> /\ sent = << >> /\ posted # << >> /\ pcRenderer # "realizing"
        /\ posted' = (IF m_hwnd' THEN Tail(posted) ELSE << >>)
    BY <1>4 DEF Window!HandlePosted, WindowInv
  <2>2. Head(posted) \in PostedMessages /\ Tail(posted) \in Seq(PostedMessages)
    BY <2>1, <1>t DEF WindowTypes
  <2>3. Window!Waiting
    BY <2>1 DEF Window!Waiting
  <2>4. CASE Head(posted).kind # "destroy"
    <3>1. /\ UNCHANGED <<m_hwnd, m_hdc, m_MemoryDC, freed, m_evDone>>
          /\ stack' \in Seq(Frames) /\ LastSelects'
          /\ windowPcApp' = "done" => windowPcApp = "done"
          /\ pcRenderer' # "realizing"
      <4>1. Head(posted).from \in {"app", "others", "renderer", "nobody"}
        BY <2>2 DEF PostedMessages
      <4>2. QED
        BY <1>2, <2>1, <2>3, <2>4, <4>1
    <3>2. posted' \in Seq(PostedMessages) /\ NoneDestroys'
      BY <2>1, <2>2 DEF NoneDestroys
    <3>3. QED
      BY <2>1, <3>1, <3>2 DEF WindowInv, WindowTypes, DestroysOnce
  <2>5. CASE Head(posted).kind = "destroy"
    <3>1. Window!OnDestroy(Head(posted))
      BY <2>1, <2>5 DEF Window!Handle
    <3>2. m_hwnd' = FALSE
      BY <3>1 DEF Window!OnDestroy
    <3>3. sent' = << >> /\ posted' = << >>
      BY <2>1, <3>2
    <3>4. QED
      BY <1>d, <2>1, <2>3, <3>1, <3>3
  <2>6. QED
    BY <2>4, <2>5
<1>5. CASE Window!SelectPalette \/ Window!OthersReply \/ Window!Realized
  <2>1. /\ UNCHANGED <<m_hwnd, m_hdc, m_MemoryDC, windows, freed, m_evDone, sent, posted>>
        /\ UNCHANGED m_bDoPostToDestroy
        /\ stack # << >>
        /\ windowPcApp' = "done" => windowPcApp = "done"
        /\ pcRenderer' = "realizing" => pcRenderer = "realizing"
    BY <1>5 DEF Window!SelectPalette, Window!OthersReply, Window!Realized, Window!Reply
  <2>2. \/ stack' = SubSeq(stack, 1, Len(stack) - 1)
        \/ \E at \in {"realizing", "realized"} : stack' = [stack EXCEPT ![Len(stack)].at = at]
    BY <1>5 DEF Window!SelectPalette, Window!OthersReply, Window!Realized
  <2>3. stack' \in Seq(Frames) /\ LastSelects'
    BY <1>t, <2>1, <2>2, MessageLeft, MessageOn
  <2>4. NoneDestroys => NoneDestroys'
    BY <2>1 DEF NoneDestroys
  <2>5. QED
    BY <2>1, <2>3, <2>4 DEF WindowInv, WindowTypes, DestroysOnce
<1>6. CASE Window!OthersChange
  <2>1. Window!Message("changed", "others") \in SentMessages
        /\ Window!Message("changed", "others").kind # "destroy"
    BY DEF Window!Message, SentMessages
  <2>2. QED
    BY <1>6, <2>1, SentBehind DEF Window!OthersChange, WindowInv, WindowTypes, LastSelects,
       DestroysOnce
<1>7. CASE Window!App
  <2>1. ASSUME NEW kind \in {"realize", "show"}
        PROVE  Window!Message(kind, "app") \in SentMessages
               /\ Window!Message(kind, "app").kind # "destroy"
    BY DEF Window!Message, SentMessages
  <2>2. CASE Window!SetPalette \/ Window!DoSetWindowForeground
    <3>1. /\ UNCHANGED <<m_hwnd, m_hdc, m_MemoryDC, windows, freed, m_evDone, stack, pcRenderer>>
          /\ UNCHANGED <<posted, m_bDoPostToDestroy>>
          /\ windowPcApp = "idle" /\ windowPcApp' # "done"
      BY <2>2 DEF Window!SetPalette, Window!DoSetWindowForeground, Window!Send
    <3>2. CASE UNCHANGED sent
      BY <3>1, <3>2 DEF WindowInv, WindowTypes, LastSelects, DestroysOnce, NoneDestroys
    <3>3. CASE ~ UNCHANGED sent
      <4>1. PICK kind \in {"realize", "show"} : sent' = Append(sent, Window!Message(kind, "app"))
        BY <2>2, <3>3 DEF Window!SetPalette, Window!DoSetWindowForeground, Window!Send
      <4>2. QED
        BY <2>1, <3>1, <4>1, SentBehind DEF WindowInv, WindowTypes, LastSelects, DestroysOnce
    <3>4. QED
      BY <3>2, <3>3
  <2>3. CASE Window!UnsetPalette \/ Window!PutBackgroundPalette
    <3>1. /\ UNCHANGED <<m_hwnd, m_hdc, m_MemoryDC, windows, freed, m_evDone, stack, pcRenderer>>
          /\ UNCHANGED <<sent, windowPcApp, m_bDoPostToDestroy>>
          /\ posted' = posted \/ posted' = <<Window!Message("realize", "nobody")>>
      BY <2>3 DEF Window!UnsetPalette, Window!PutBackgroundPalette
    <3>2. Window!Message("realize", "nobody") \in PostedMessages
      BY DEF Window!Message, PostedMessages
    <3>3. posted' \in Seq(PostedMessages)
      <4>1. ASSUME NEW S, NEW m \in S PROVE <<m>> \in Seq(S)
        OBVIOUS
      <4>2. QED
        BY <1>t, <3>1, <3>2, <4>1 DEF WindowTypes
    <3>4. QED
      BY <3>1, <3>3 DEF WindowInv, WindowTypes, LastSelects, DestroysOnce, NoneDestroys
  <2>4. CASE Window!DoneWithWindow
    <3>1. /\ UNCHANGED <<m_hwnd, m_hdc, m_MemoryDC, windows, freed, stack, pcRenderer>>
          /\ UNCHANGED m_bDoPostToDestroy
          /\ windowPcApp = "idle" /\ m_hwnd /\ pcRenderer = "idle" /\ m_evDone' = FALSE
      BY <2>4 DEF Window!DoneWithWindow
    <3>2. Window!Message("destroy", "app") \in SentMessages
          /\ Window!Message("destroy", "app") \in PostedMessages
      BY DEF Window!Message, SentMessages, PostedMessages
    <3>3. CASE Window!DestroyPosted
      <4>1. posted' \in Seq(PostedMessages) /\ sent' = sent /\ NoneDestroys'
        BY <1>t, <3>1, <3>2, <3>3 DEF Window!DestroyPosted, WindowTypes, DestroysOnce, NoneDestroys
      <4>2. QED
        BY <3>1, <4>1 DEF WindowInv, WindowTypes, LastSelects, DestroysOnce
    <3>4. CASE Window!DestroySent
      <4>1. sent' \in Seq(SentMessages) /\ posted' = posted /\ ~m_bDoPostToDestroy
        BY <3>2, <3>4, SentBehind DEF Window!DestroySent
      <4>2. QED
        BY <3>1, <4>1 DEF WindowInv, WindowTypes, LastSelects, DestroysOnce
    <3>5. QED
      BY <2>4, <3>3, <3>4 DEF Window!DoneWithWindow
  <2>5. QED
    BY <1>7, <2>2, <2>3, <2>4 DEF Window!App
<1>8. CASE Window!DoneReturns
  <2>1. ~m_hwnd
    BY <1>8, <1>t DEF Window!DoneReturns, DestroysOnce
  <2>2. QED
    BY <1>8, <2>1 DEF Window!DoneReturns, WindowInv, WindowTypes, LastSelects, DestroysOnce,
       NoneDestroys
<1>9. CASE Window!DoRealisePalette
  <2>1. /\ Window!Message("changed", "renderer") \in SentMessages
        /\ Window!Message("changed", "renderer").from = "renderer"
        /\ Window!Message("changed", "renderer").kind # "destroy"
    BY DEF Window!Message, SentMessages
  <2>2. QED
    BY <1>9, <2>1, SentBehind DEF Window!DoRealisePalette, WindowInv, WindowTypes, LastSelects,
       DestroysOnce
<1>10. CASE Window!RealiseReturns \/ UNCHANGED Windowvars
  BY <1>10 DEF Window!RealiseReturns, Windowvars, WindowInv, WindowTypes, LastSelects,
     DestroysOnce, NoneDestroys
<1>11. QED
  BY <1>1, <1>3, <1>4, <1>5, <1>6, <1>7, <1>8, <1>9, <1>10 DEF Window!Next, Window!WindowThread

LEMMA WindowInit == Window!Init => WindowInv
<1>1. << >> \in Seq(SentMessages) /\ << >> \in Seq(PostedMessages) /\ << >> \in Seq(Frames)
      /\ 0 \in Nat
  OBVIOUS
<1> SUFFICES ASSUME Window!Init PROVE WindowInv
  OBVIOUS
<1>2. WindowTypes
  BY <1>1 DEF Window!Init, WindowTypes
<1>3. LastSelects /\ DestroysOnce
  BY DEF Window!Init, LastSelects, DestroysOnce, NoneDestroys
<1>4. QED
  BY <1>2, <1>3 DEF Window!Init, WindowInv
-----------------------------------------------------------------------------
\* The thread with a queue of messages (wxutil.cpp).

\* The counter's cycle, for what is less than one away from it.
LEMMA Wrapped ==
    ASSUME NEW x \in Int, -Cycle <= x, x < 2 * Cycle
    PROVE  x % Cycle = IF x < 0 THEN x + Cycle ELSE IF x < Cycle THEN x ELSE x - Cycle
  BY CounterAssumption


ThreadMessages == [number : Int, from : Posters, kind : {"work", "quit"}]

\* The messages are numbered as they were put, and while the thread waits the semaphore
\* has a count when there is something in the queue.
ThreadInv ==
    /\ m_ThreadQueue \in Seq(ThreadMessages)
    /\ put \in Nat /\ m_lWaiting \in Nat /\ m_hSem \in Nat
    /\ \A k \in DOMAIN m_ThreadQueue : m_ThreadQueue[k].number = put - Len(m_ThreadQueue) + k
    /\ msg # Thread!NoMessage => msg.number = put - Len(m_ThreadQueue)
    /\ pcThread = "wait" => m_lWaiting + m_hSem = 1
    /\ pcThread = "wait" /\ m_ThreadQueue # << >> => m_hSem = 1
    /\ pcThread # "wait" => m_lWaiting = 0 /\ m_hSem = 0
    /\ pcPoster \in [Posters -> {"idle", "waiting", "left"}]

\* What a wait has taken and what is left of it are what was asked for, and the counter
\* is where it began and what was waited, or a cycle less.
WaitsInv ==
    /\ pcPoster \in [Posters -> {"idle", "waiting", "left"}]
    /\ timeGetTime \in 0..(Cycle - 1)
    /\ dwStartTime \in [Posters -> 0..(Cycle - 1)]
    /\ dwWaitTime \in [Posters -> Nat] /\ waited \in [Posters -> Nat]
    /\ \A p \in Thread!Waiting :
           /\ waited[p] + dwWaitTime[p] = Timeout
           /\ timeGetTime \in {dwStartTime[p] + waited[p], dwStartTime[p] + waited[p] - Cycle}

\* Every put, get and wait keeps the queue's part,
LEMMA ThreadStep == ThreadInv /\ [Thread!Next]_Threadvars => ThreadInv'
<1> SUFFICES ASSUME ThreadInv, [Thread!Next]_Threadvars PROVE ThreadInv'
  OBVIOUS
<1> USE DEF ThreadInv, Thread!queue, Thread!thread, Thread!waits
<1>1. ASSUME NEW p \in Posters, NEW kind \in {"work", "quit"}, NEW wait \in BOOLEAN,
             Thread!Post(p, kind, wait)
      PROVE  ThreadInv'
  <2> DEFINE m == Thread!Message(p, kind)
  <2>1. m \in ThreadMessages /\ m.number = put + 1
    BY DEF Thread!Message, ThreadMessages
  <2>2. /\ m_ThreadQueue' = Append(m_ThreadQueue, m)
        /\ m_hSem' = m_hSem + m_lWaiting /\ m_lWaiting' = 0 /\ put' = put + 1
        /\ UNCHANGED <<pcThread, msg>>
    BY <1>1 DEF Thread!Post, Thread!PutThreadMsg
  <2>3. pcPoster' \in [Posters -> {"idle", "waiting", "left"}]
    BY <1>1 DEF Thread!Post
  <2> HIDE DEF m
  <2>4. /\ m_ThreadQueue' \in Seq(ThreadMessages) /\ Len(m_ThreadQueue') = Len(m_ThreadQueue) + 1
        /\ \A k \in DOMAIN m_ThreadQueue' :
               m_ThreadQueue'[k] = IF k = Len(m_ThreadQueue) + 1 THEN m ELSE m_ThreadQueue[k]
        /\ \A k \in DOMAIN m_ThreadQueue' : k = Len(m_ThreadQueue) + 1 \/ k \in DOMAIN m_ThreadQueue
    BY <2>1, <2>2
  <2>5. \A k \in DOMAIN m_ThreadQueue' : m_ThreadQueue'[k].number = put' - Len(m_ThreadQueue') + k
    BY <2>1, <2>2, <2>4
  <2>6. QED
    BY <2>2, <2>3, <2>4, <2>5
<1>2. ASSUME NEW p \in Posters, Thread!SentMessage(p) \/ Thread!WaitMsgReturns(p) PROVE ThreadInv'
  BY <1>2 DEF Thread!SentMessage, Thread!WaitMsgReturns
<1>3. CASE Thread!Tick
  BY <1>3 DEF Thread!Tick
<1>4. CASE Thread!GetThreadMsg
  <2>1. CASE m_ThreadQueue = << >>
    BY <1>4, <2>1 DEF Thread!GetThreadMsg
  <2>2. CASE m_ThreadQueue # << >>
    <3>1. /\ m_ThreadQueue' = Tail(m_ThreadQueue) /\ msg' = m_ThreadQueue[1] /\ pcThread' = "handle"
          /\ UNCHANGED <<put, m_lWaiting, m_hSem, pcPoster>>
      BY <1>4, <2>2 DEF Thread!GetThreadMsg
    <3>2. /\ m_ThreadQueue' \in Seq(ThreadMessages) /\ Len(m_ThreadQueue') = Len(m_ThreadQueue) - 1
          /\ \A k \in DOMAIN m_ThreadQueue' :
                 m_ThreadQueue'[k] = m_ThreadQueue[k + 1] /\ k + 1 \in DOMAIN m_ThreadQueue
          /\ 1 \in DOMAIN m_ThreadQueue
      BY <2>2, <3>1
    <3>3. QED
      BY <1>4, <3>1, <3>2 DEF Thread!GetThreadMsg
  <2>3. QED
    BY <2>1, <2>2
<1>5. CASE Thread!Woken
  BY <1>5 DEF Thread!Woken
<1>6. CASE Thread!ThreadMessageProc
  BY <1>6 DEF Thread!ThreadMessageProc
<1>7. CASE UNCHANGED Threadvars
  BY <1>7 DEF Threadvars
<1>8. QED
  BY <1>1, <1>2, <1>3, <1>4, <1>5, <1>6, <1>7 DEF Thread!Next, Thread!Thread

\* and the waits'.
LEMMA WaitsStep == WaitsInv /\ [Thread!Next]_Threadvars => WaitsInv'
<1> SUFFICES ASSUME WaitsInv, [Thread!Next]_Threadvars PROVE WaitsInv'
  OBVIOUS
<1> USE CounterAssumption, TimeoutAssumption DEF WaitsInv, Thread!waits, Thread!Waiting
<1>1. ASSUME NEW p \in Posters, NEW kind \in {"work", "quit"}, NEW wait \in BOOLEAN,
             Thread!Post(p, kind, wait)
      PROVE  WaitsInv'
  BY <1>1 DEF Thread!Post
<1>2. ASSUME NEW p \in Posters, Thread!SentMessage(p) PROVE WaitsInv'
  <2> DEFINE elapsed == (timeGetTime - dwStartTime[p]) % Cycle
  <2>1. p \in Thread!Waiting
    BY <1>2 DEF Thread!SentMessage
  <2>2. elapsed = IF timeGetTime < dwStartTime[p] THEN timeGetTime - dwStartTime[p] + Cycle
                  ELSE timeGetTime - dwStartTime[p]
    BY Wrapped
  <2> HIDE DEF elapsed
  <2>3. elapsed = waited[p]
    BY <2>1, <2>2
  <2>4. dwWaitTime' = [dwWaitTime EXCEPT ![p] = IF elapsed >= Timeout THEN 0 ELSE Timeout - elapsed]
    BY <1>2 DEF Thread!SentMessage, elapsed
  <2>5. dwWaitTime' = dwWaitTime
    BY <2>1, <2>3, <2>4
  <2>6. QED
    BY <1>2, <2>5 DEF Thread!SentMessage
<1>3. ASSUME NEW p \in Posters, Thread!WaitMsgReturns(p) PROVE WaitsInv'
  BY <1>3 DEF Thread!WaitMsgReturns
<1>4. CASE Thread!Tick
  <2>1. timeGetTime' = IF timeGetTime + 1 < Cycle THEN timeGetTime + 1 ELSE 0
    <3>1. (timeGetTime + 1) % Cycle = IF timeGetTime + 1 < Cycle THEN timeGetTime + 1 ELSE 0
      BY Wrapped
    <3>2. QED
      BY <1>4, <3>1 DEF Thread!Tick
  <2>2. UNCHANGED <<pcPoster, dwStartTime>>
    BY <1>4 DEF Thread!Tick
  <2>3. dwWaitTime' \in [Posters -> Nat] /\ waited' \in [Posters -> Nat]
    BY <1>4 DEF Thread!Tick
  <2>4. ASSUME NEW p \in Thread!Waiting
        PROVE  /\ waited'[p] + dwWaitTime'[p] = Timeout
               /\ timeGetTime' \in {dwStartTime[p] + waited'[p], dwStartTime[p] + waited'[p] - Cycle}
    <3>1. waited'[p] = waited[p] + 1 /\ dwWaitTime'[p] = dwWaitTime[p] - 1 /\ p \in Posters
      BY <1>4, <2>4 DEF Thread!Tick
    <3>2. QED
      BY <2>1, <2>4, <3>1
  <2>5. QED
    BY <2>1, <2>2, <2>3, <2>4
<1>5. CASE Thread!Thread \/ UNCHANGED Threadvars
  BY <1>5
     DEF Thread!Thread, Thread!GetThreadMsg, Thread!Woken, Thread!ThreadMessageProc, Threadvars
<1>6. QED
  BY <1>1, <1>2, <1>3, <1>4, <1>5 DEF Thread!Next

\* What the run asks of the messages.
LEMMA ThreadSafe == ThreadInv /\ WaitsInv => Thread!MessagesInOrder /\ Thread!WaitsAsLongAsAsked
  BY DEF ThreadInv, WaitsInv, Thread!MessagesInOrder, Thread!WaitsAsLongAsAsked

LEMMA ThreadInit == Thread!Init => ThreadInv /\ WaitsInv
  BY CounterAssumption
     DEF Thread!Init, ThreadInv, WaitsInv, Thread!Waiting
-----------------------------------------------------------------------------
\* The reference clock and its schedule (refclock.cpp, schedule.cpp).

Packets == [time : Int, period : Int, cookie : Nat]

\* In the order of the times, and no cookie twice.
Scheduled(s) ==
    \A k, l \in DOMAIN s : k < l => s[k].time <= s[l].time /\ s[k].cookie # s[l].cookie

\* How far the clock was put forward since the thread asked for the time.
Ahead == IF adjusted > seen THEN adjusted - seen ELSE 0

\* The counter is as it was when the clock was last asked, and so is the time, if it was
\* never asked too late.
TimeInv ==
    /\ {ticks, asked} \subseteq Nat /\ {m_rtPrivateTime, adjusted} \subseteq Int
    /\ asked <= ticks /\ m_dwPrevSystemTime = asked % Cycle
    /\ overdue \/ m_rtPrivateTime = asked + adjusted

\* The packets are as many as counted, and their cookies were given out.
ScheduleInv ==
    /\ advises \in Seq(Packets) /\ m_dwAdviseCount = Len(advises) /\ m_dwNextCookie \in Nat
    /\ \A k \in DOMAIN advises : advises[k].cookie <= m_dwNextCookie
    /\ Scheduled(advises)

\* What the clock was put forward by is known to the thread, or wakes it.
SleepInv ==
    /\ {rtNow, dwWait, adjusted, seen, m_rtPrivateTime} \subseteq Int
    /\ clockPc = "advise" /\ ~m_ev /\ advises # << >> => adjusted <= seen
    /\ clockPc = "wait" /\ ~m_ev /\ advises # << >> => dwWait <= advises[1].time - rtNow - Ahead

\* What is inserted goes where its time is, and all the others stay in their order.
LEMMA InsertedInOrder ==
    ASSUME NEW s \in Seq(Packets), NEW p \in Packets, NEW t \in {p.time, p.time + 1},
           Scheduled(s), \A k \in DOMAIN s : s[k].cookie # p.cookie
    PROVE  /\ Clock!Inserted(s, p, t) \in Seq(Packets)
           /\ Len(Clock!Inserted(s, p, t)) = Len(s) + 1
           /\ Scheduled(Clock!Inserted(s, p, t))
           /\ \A k \in DOMAIN Clock!Inserted(s, p, t) :
                  Clock!Inserted(s, p, t)[k] = p \/ \E l \in DOMAIN s : Clock!Inserted(s, p, t)[k] = s[l]
           /\ \/ Clock!Inserted(s, p, t)[1] = p
              \/ s # << >> /\ Clock!Inserted(s, p, t)[1] = s[1]
<1> DEFINE before == {k \in DOMAIN s : \A j \in 1..k : s[j].time < t}
           q == Clock!Inserted(s, p, t)
<1>1. q = [k \in 1..(Len(s) + 1) |-> IF k \in before THEN s[k]
                                    ELSE IF k - 1 \in before \cup {0} THEN p ELSE s[k - 1]]
  BY DEF Clock!Inserted
<1>2. /\ DOMAIN s = 1..Len(s) /\ Len(s) \in Nat /\ \A k \in DOMAIN s : s[k] \in Packets
      /\ p.time \in Int /\ t \in Int /\ \A k \in DOMAIN s : s[k].time \in Int
  <2>1. p.time \in Int /\ \A r \in Packets : r.time \in Int
    BY DEF Packets
  <2>2. QED
    BY <2>1
<1>3. \A k \in before : k \in 1..Len(s) /\ s[k].time < t /\ \A j \in 1..k : j \in before
  BY <1>2
<1>4. ASSUME NEW k \in 1..Len(s), k \notin before, k - 1 \in before \cup {0} PROVE t <= s[k].time
  <2>1. PICK j \in 1..k : ~(s[j].time < t)
    BY <1>2, <1>4
  <2>2. j = k
    BY <1>2, <1>3, <1>4, <2>1
  <2>3. QED
    BY <1>2, <2>1, <2>2
<1> HIDE DEF before, q
<1>5. DOMAIN q = 1..(Len(s) + 1)
  BY <1>1
<1>6. ASSUME NEW k \in 1..(Len(s) + 1)
      PROVE  \/ k \in before /\ k \in DOMAIN s /\ q[k] = s[k]
             \/ k \notin before /\ k - 1 \in before \cup {0} /\ q[k] = p
             \/ k \notin before /\ k - 1 \notin before /\ k - 1 \in DOMAIN s /\ q[k] = s[k - 1]
  BY <1>1, <1>2, <1>3
<1>7. \A k \in 1..(Len(s) + 1) : q[k] \in Packets /\ (q[k] = p \/ \E l \in DOMAIN s : q[k] = s[l])
  BY <1>2, <1>6
<1>8. q \in Seq(Packets) /\ Len(q) = Len(s) + 1
  BY <1>1, <1>2, <1>7
<1>9. ASSUME NEW k \in DOMAIN q, NEW l \in DOMAIN q, k < l
      PROVE  q[k].time <= q[l].time /\ q[k].cookie # q[l].cookie
  <2>1. k \in 1..(Len(s) + 1) /\ l \in 1..(Len(s) + 1) /\ k \in 1..Len(s) /\ l - 1 \in 1..Len(s)
    BY <1>2, <1>5, <1>9
  <2>2. CASE k \in before
    <3>1. q[k] = s[k] /\ s[k].time < t
      BY <1>3, <1>6, <2>1, <2>2
    <3>2. CASE l \in before
      BY <1>2, <1>3, <1>6, <1>9, <2>1, <2>2, <3>1, <3>2 DEF Scheduled
    <3>3. CASE l \notin before /\ l - 1 \in before \cup {0}
      BY <1>2, <1>6, <2>1, <3>1, <3>3
    <3>4. CASE l \notin before /\ l - 1 \notin before \cup {0}
      <4>1. q[l] = s[l - 1] /\ k < l - 1
        BY <1>6, <1>9, <2>1, <2>2, <3>4
      <4>2. QED
        BY <1>2, <2>1, <3>1, <4>1 DEF Scheduled
    <3>5. QED
      BY <3>2, <3>3, <3>4
  <2>3. CASE k \notin before
    <3>1. l \notin before /\ l - 1 \notin before \cup {0}
      BY <1>3, <1>9, <2>1, <2>3
    <3>2. q[l] = s[l - 1]
      BY <1>6, <2>1, <3>1
    <3>3. CASE k - 1 \in before \cup {0}
      <4>1. q[k] = p /\ t <= s[k].time
        BY <1>4, <1>6, <2>1, <2>3, <3>3
      <4>2. s[k].time <= s[l - 1].time
        BY <1>2, <1>9, <2>1 DEF Scheduled
      <4>3. QED
        BY <1>2, <2>1, <3>2, <4>1, <4>2
    <3>4. CASE k - 1 \notin before \cup {0}
      <4>1. q[k] = s[k - 1] /\ k - 1 \in 1..Len(s)
        BY <1>6, <2>1, <2>3, <3>4
      <4>2. QED
        BY <1>2, <1>9, <2>1, <3>2, <4>1 DEF Scheduled
    <3>5. QED
      BY <3>3, <3>4
  <2>4. QED
    BY <2>2, <2>3
<1>10. q[1] = p \/ (s # << >> /\ q[1] = s[1])
  <2>1. 1 \in 1..(Len(s) + 1) /\ 1 - 1 = 0
    BY <1>2
  <2>2. 1 \in before => s # << >>
    BY <1>2, <1>3
  <2>3. QED
    BY <1>6, <2>1, <2>2
<1>11. QED
  BY <1>5, <1>7, <1>8, <1>9, <1>10 DEF Scheduled, q

\* The list without one of its places.
LEMMA Without ==
    ASSUME NEW s \in Seq(Packets), NEW k \in DOMAIN s
    PROVE  LET q == SubSeq(s, 1, k - 1) \o SubSeq(s, k + 1, Len(s))
           IN  /\ q \in Seq(Packets) /\ Len(q) = Len(s) - 1
               /\ \A l \in 1..(Len(s) - 1) : q[l] = IF l < k THEN s[l] ELSE s[l + 1]
<1>1. /\ k \in 1..Len(s) /\ DOMAIN s = 1..Len(s) /\ Len(s) \in Nat
      /\ \A l \in DOMAIN s : s[l] \in Packets
  OBVIOUS
<1> DEFINE a == SubSeq(s, 1, k - 1)
           b == SubSeq(s, k + 1, Len(s))
<1>2. a \in Seq(Packets) /\ Len(a) = k - 1 /\ \A l \in 1..(k - 1) : a[l] = s[l]
  BY <1>1
<1>3. b \in Seq(Packets) /\ Len(b) = Len(s) - k /\ \A l \in 1..(Len(s) - k) : b[l] = s[l + k]
  <2>1. b \in Seq(Packets) /\ Len(b) = Len(s) - k
    BY <1>1
  <2>2. ASSUME NEW l \in 1..(Len(s) - k) PROVE b[l] = s[l + k]
    <3>1. /\ k + 1 \in Int /\ Len(s) \in Int /\ \A j \in (k + 1)..Len(s) : s[j] \in Packets
          /\ l \in 1..(Len(s) - (k + 1) + 1)
      BY <1>1
    <3>2. b[l] = s[(k + 1) + l - 1]
      BY <3>1, SubSeqProperties
    <3>3. (k + 1) + l - 1 = l + k
      BY <1>1
    <3>4. QED
      BY <3>2, <3>3
  <2>3. QED
    BY <2>1, <2>2
<1> DEFINE q == a \o b
<1> HIDE DEF a, b
<1>4. q \in Seq(Packets) /\ Len(q) = Len(s) - 1
  <2>1. q \in Seq(Packets) /\ Len(q) = Len(a) + Len(b)
    BY <1>2, <1>3, ConcatProperties
  <2>2. QED
    BY <1>1, <1>2, <1>3, <2>1
<1>5. ASSUME NEW l \in 1..(Len(s) - 1), l < k PROVE q[l] = s[l]
  BY <1>1, <1>2, <1>3, <1>5
<1>6. ASSUME NEW l \in 1..(Len(s) - 1), ~(l < k) PROVE q[l] = s[l + 1]
  <2>1. l \in 1..(Len(a) + Len(b)) /\ ~(l <= Len(a)) /\ l - Len(a) = l - (k - 1)
    BY <1>1, <1>2, <1>3, <1>6
  <2>2. q[l] = b[l - (k - 1)]
    BY <1>2, <1>3, <2>1, ConcatProperties
  <2>3. l - (k - 1) \in 1..(Len(s) - k) /\ l - (k - 1) + k = l + 1
    BY <1>1, <1>6
  <2>4. QED
    BY <1>3, <2>2, <2>3
<1>7. QED
  BY <1>4, <1>5, <1>6 DEF a, b

\* What is taken out leaves the others in their order.
LEMMA TakenOut ==
    ASSUME NEW s \in Seq(Packets), NEW k \in DOMAIN s, Scheduled(s),
           NEW q \in Seq(Packets), Len(q) = Len(s) - 1,
           \A l \in 1..(Len(s) - 1) : q[l] = IF l < k THEN s[l] ELSE s[l + 1]
    PROVE  /\ Scheduled(q) /\ \A l \in DOMAIN q : \E m \in DOMAIN s : q[l] = s[m]
           /\ q # << >> => s[1].time <= q[1].time
<1>1. /\ k \in 1..Len(s) /\ DOMAIN s = 1..Len(s) /\ Len(s) \in Nat
      /\ \A l \in DOMAIN s : s[l] \in Packets
  OBVIOUS
<1>2. DOMAIN q = 1..(Len(s) - 1)
  BY <1>1
<1>3. \A r \in Packets : r.time \in Int
  BY DEF Packets
<1>4. ASSUME NEW l \in DOMAIN q, NEW m \in DOMAIN q, l < m
      PROVE  \E x, y \in DOMAIN s : x < y /\ q[l] = s[x] /\ q[m] = s[y]
  <2>1. l \in 1..Len(s) /\ l + 1 \in 1..Len(s) /\ m \in 1..Len(s) /\ m + 1 \in 1..Len(s)
    BY <1>1, <1>2
  <2>2. q[l] = (IF l < k THEN s[l] ELSE s[l + 1]) /\ q[m] = (IF m < k THEN s[m] ELSE s[m + 1])
    BY <1>2
  <2>3. CASE l < k /\ m < k
    BY <1>1, <1>4, <2>1, <2>2, <2>3
  <2>4. CASE l < k /\ ~(m < k)
    <3>1. l < m + 1
      BY <1>4, <2>1
    <3>2. QED
      BY <1>1, <2>1, <2>2, <2>4, <3>1
  <2>5. CASE ~(l < k) /\ ~(m < k)
    <3>1. l + 1 < m + 1
      BY <1>4, <2>1
    <3>2. QED
      BY <1>1, <2>1, <2>2, <2>5, <3>1
  <2>6. ~(~(l < k) /\ m < k)
    BY <1>1, <1>4, <2>1
  <2>7. QED
    BY <2>3, <2>4, <2>5, <2>6
<1>5. \A l \in DOMAIN q : \E m \in DOMAIN s : q[l] = s[m]
  <2>1. ASSUME NEW l \in DOMAIN q PROVE l \in DOMAIN s /\ l + 1 \in DOMAIN s
    BY <1>1, <1>2
  <2>2. QED
    BY <1>2, <2>1
<1>6. Scheduled(q)
  BY <1>4 DEF Scheduled
<1>7. q # << >> => s[1].time <= q[1].time
  BY <1>1, <1>2, <1>3 DEF Scheduled
<1>8. QED
  BY <1>5, <1>6, <1>7

\* A number is so many cycles and its remainder, which is one number only.
LEMMA Quotient ==
    ASSUME NEW x \in Nat
    PROVE  x = Cycle * (x \div Cycle) + (x % Cycle) /\ x % Cycle \in 0..(Cycle - 1)
           /\ x \div Cycle \in Nat
  BY CounterAssumption, SMT

LEMMA CyclesMore ==
    ASSUME NEW p \in Nat, NEW q \in Nat, p < q
    PROVE  Cycle * p + Cycle <= Cycle * q
<1>1. PICK d \in Nat : q = p + 1 + d
  <2>1. q - p - 1 \in Nat /\ q = p + 1 + (q - p - 1)
    BY SMT
  <2>2. QED
    BY <2>1
<1>2. Cycle * q = Cycle * p + Cycle + Cycle * d
  BY <1>1, CounterAssumption, SMT
<1>3. Cycle * d >= 0
  BY CounterAssumption, SMT
<1>4. QED
  BY <1>2, <1>3, CounterAssumption, SMT

LEMMA OneRemainder ==
    ASSUME NEW p \in Nat, NEW q \in Nat, NEW r \in 0..(Cycle - 1), NEW s \in 0..(Cycle - 1),
           Cycle * p + r = Cycle * q + s
    PROVE  r = s
<1>1. Cycle * p \in Int /\ Cycle * q \in Int
  BY CounterAssumption, SMT
<1>2. CASE p < q
  BY <1>1, <1>2, CyclesMore, CounterAssumption
<1>3. CASE q < p
  BY <1>1, <1>3, CyclesMore, CounterAssumption
<1>4. CASE p = q
  BY <1>1, <1>4
<1>5. QED
  BY <1>2, <1>3, <1>4

\* However often the counter wrapped, the difference is the time that went by, when that is
\* less than a cycle.
LEMMA CounterSince ==
    ASSUME NEW x \in Nat, NEW y \in Nat, x <= y, y - x < Cycle
    PROVE  ((y % Cycle) - (x % Cycle)) % Cycle = y - x
<1> DEFINE a == x % Cycle
           b == y % Cycle
           p == x \div Cycle
           q == y \div Cycle
<1>1. x = Cycle * p + a /\ a \in 0..(Cycle - 1) /\ p \in Nat
  BY Quotient
<1>2. y = Cycle * q + b /\ b \in 0..(Cycle - 1) /\ q \in Nat
  BY Quotient
<1>3. Cycle \in Nat \ {0}
  BY CounterAssumption
<1> HIDE DEF a, b, p, q
<1>4. Cycle * p \in Int /\ Cycle * q \in Int
  BY <1>1, <1>2, <1>3, SMT
<1>5. b - a = y - x \/ b - a = y - x - Cycle
  <2>1. CASE a + (y - x) < Cycle
    <3>1. a + (y - x) \in 0..(Cycle - 1)
      BY <1>1, <1>3, <2>1
    <3>2. Cycle * p + (a + (y - x)) = Cycle * q + b
      BY <1>1, <1>2, <1>3, <1>4
    <3>3. a + (y - x) = b
      BY <1>1, <1>2, <3>1, <3>2, OneRemainder
    <3>4. QED
      BY <1>1, <1>2, <3>3
  <2>2. CASE ~(a + (y - x) < Cycle)
    <3>1. a + (y - x) - Cycle \in 0..(Cycle - 1)
      BY <1>1, <1>3, <2>2
    <3>2. Cycle * (p + 1) = Cycle * p + Cycle
      BY <1>1, <1>3, SMT
    <3>3. Cycle * (p + 1) + (a + (y - x) - Cycle) = Cycle * q + b
      BY <1>1, <1>2, <1>3, <1>4, <3>2
    <3>4. p + 1 \in Nat
      BY <1>1
    <3>5. a + (y - x) - Cycle = b
      BY <1>2, <3>1, <3>3, <3>4, OneRemainder
    <3>6. QED
      BY <1>1, <1>2, <1>3, <3>5
  <2>3. QED
    BY <2>1, <2>2
<1>6. b - a \in Int /\ -Cycle <= b - a /\ b - a < 2 * Cycle
  BY <1>1, <1>2, <1>3
<1>7. (b - a) % Cycle = IF b - a < 0 THEN b - a + Cycle
                        ELSE IF b - a < Cycle THEN b - a ELSE b - a - Cycle
  BY <1>6, Wrapped
<1>8. (b - a) % Cycle = y - x
  BY <1>1, <1>2, <1>3, <1>5, <1>7
<1>9. QED
  BY <1>8 DEF a, b

\* What the clock takes for the time that went by is a number, and the right one in time.
LEMMA ElapsedSince ==
    ASSUME TimeInv
    PROVE  Clock!Elapsed \in Int /\ (Clock!InTime => Clock!Elapsed = ticks - asked)
<1> DEFINE difference == (Clock!SystemTime - m_dwPrevSystemTime) % Cycle
<1>1. Cycle \in Nat \ {0} /\ ticks \in Nat /\ asked \in Nat /\ asked <= ticks
  BY CounterAssumption DEF TimeInv
<1>2. Clock!SystemTime = ticks % Cycle /\ m_dwPrevSystemTime = asked % Cycle
  BY DEF Clock!SystemTime, TimeInv
<1>3. difference \in Int
  <2>1. ticks % Cycle \in Int /\ asked % Cycle \in Int
    BY <1>1, Quotient
  <2>2. (ticks % Cycle) - (asked % Cycle) \in Int
    BY <2>1
  <2>3. ((ticks % Cycle) - (asked % Cycle)) % Cycle \in Int
    BY <1>1, <2>2, SMT
  <2>4. QED
    BY <1>2, <2>3
<1>4. Clock!InTime => difference = ticks - asked
  <2>1. Clock!InTime => ticks - asked < Cycle
    BY <1>1 DEF Clock!InTime
  <2>2. QED
    BY <1>1, <1>2, <2>1, CounterSince
<1>5. Clock!Elapsed = IF 2 * difference < Cycle THEN difference ELSE difference - Cycle
  BY DEF Clock!Elapsed
<1> HIDE DEF difference
<1>6. QED
  BY <1>1, <1>3, <1>4, <1>5 DEF Clock!InTime

\* Every reading and every adjustment keeps the time.
LEMMA TimeStep == TimeInv /\ [Clock!Next]_Clockvars => TimeInv'
<1> SUFFICES ASSUME TimeInv, [Clock!Next]_Clockvars PROVE TimeInv'
  OBVIOUS
<1> USE CounterAssumption, ClockAssumption
    DEF Clock!schedule, Clock!time, Clock!thread, Clock!adjustments
<1>1. ASSUME Clock!GetPrivateTime, UNCHANGED <<ticks, adjusted>> PROVE TimeInv'
  <2>1. /\ m_rtPrivateTime' = m_rtPrivateTime + Clock!Elapsed
        /\ m_dwPrevSystemTime' = ticks % Cycle /\ asked' = ticks
        /\ ~overdue' => ~overdue /\ Clock!InTime
    BY <1>1 DEF Clock!GetPrivateTime, Clock!SystemTime
  <2>2. Clock!Elapsed \in Int /\ (Clock!InTime => Clock!Elapsed = ticks - asked)
    BY ElapsedSince
  <2>3. m_rtPrivateTime' \in Int /\ (~overdue' => m_rtPrivateTime' = asked' + adjusted)
    BY <2>1, <2>2 DEF TimeInv
  <2>4. QED
    BY <1>1, <2>1, <2>3 DEF TimeInv
<1>2. ASSUME NEW delta \in {-1, 2}, Clock!SetTimeDelta(delta) PROVE TimeInv'
  BY <1>2 DEF Clock!SetTimeDelta, TimeInv
<1>3. CASE Clock!Tick
  BY <1>3 DEF Clock!Tick, TimeInv
<1>4. CASE UNCHANGED <<ticks, m_dwPrevSystemTime, m_rtPrivateTime, adjusted, asked, overdue>>
  BY <1>4 DEF TimeInv
<1>5. CASE Clock!GetTime \/ Clock!Now
  BY <1>1, <1>5 DEF Clock!GetTime, Clock!Now
<1>6. ASSUME NEW t \in AdviseTimes, NEW period \in {0, 2}, Clock!AddAdvisePacket(t, period) PROVE TimeInv'
  BY <1>4, <1>6 DEF Clock!AddAdvisePacket
<1>7. CASE Clock!Unadvise \/ Clock!Abort \/ UNCHANGED Clockvars
  BY <1>4, <1>7 DEF Clock!Unadvise, Clock!Abort, Clockvars
<1>8. CASE Clock!Wake \/ Clock!AdviseOne \/ Clock!AdviseDone
  BY <1>4, <1>8 DEF Clock!Wake, Clock!AdviseOne, Clock!AdviseDone
<1>9. QED
  BY <1>2, <1>3, <1>5, <1>6, <1>7, <1>8 DEF Clock!Next, Clock!AdviseThread

\* The schedule stays in its order, and the thread's sleep does not go past its head.
LEMMA ScheduleStep ==
    TimeInv /\ ScheduleInv /\ SleepInv /\ [Clock!Next]_Clockvars => ScheduleInv' /\ SleepInv'
<1> SUFFICES ASSUME TimeInv, ScheduleInv, SleepInv, [Clock!Next]_Clockvars
             PROVE  ScheduleInv' /\ SleepInv'
  OBVIOUS
<1>1. Clock!INFINITE \in Int /\ {m_rtPrivateTime, adjusted}' \subseteq Int
  <2>1. TimeInv'
    BY TimeStep
  <2>2. QED
    BY <2>1, CounterAssumption, ClockAssumption DEF TimeInv, Clock!INFINITE, Clock!LastTick
<1>2. /\ DOMAIN advises = 1..Len(advises) /\ Len(advises) \in Nat
      /\ \A k \in DOMAIN advises : advises[k] \in Packets
      /\ \A r \in Packets : r.time \in Int /\ r.period \in Int /\ r.cookie \in Nat
  <2>1. \A r \in Packets : r.time \in Int /\ r.period \in Int /\ r.cookie \in Nat
    BY DEF Packets
  <2>2. QED
    BY <2>1 DEF ScheduleInv
<1> DEFINE Timing == <<rtNow, dwWait, adjusted, seen>>
<1>3. ASSUME NEW t \in AdviseTimes, NEW period \in {0, 2}, Clock!AddAdvisePacket(t, period)
      PROVE  ScheduleInv' /\ SleepInv'
  <2> DEFINE cookie == m_dwNextCookie + 1
             p == Clock!Packet(t, period, cookie)
  <2>1. t \in Int /\ cookie \in Nat /\ m_dwNextCookie < cookie
    BY ClockAssumption DEF ScheduleInv
  <2>2. p \in Packets /\ p.time = t /\ p.cookie = cookie
    BY <2>1 DEF Clock!Packet, Packets
  <2>3. \A k \in DOMAIN advises : advises[k].cookie < cookie /\ advises[k].cookie # cookie
    BY <1>2, <2>1 DEF ScheduleInv
  <2>4. /\ clockPc # "advise" /\ clockPc' = clockPc
        /\ m_dwNextCookie' = cookie /\ advises' = Clock!Inserted(advises, p, t)
        /\ m_dwAdviseCount' = m_dwAdviseCount + 1
        /\ m_ev' = (m_ev \/ advises'[1].cookie = cookie)
        /\ Timing' = Timing /\ m_rtPrivateTime' = m_rtPrivateTime
    BY <1>3 DEF Clock!AddAdvisePacket, Clock!Unlocked, Clock!thread, Clock!adjustments, Clock!time
  <2> HIDE DEF p, cookie
  <2>5. /\ advises' \in Seq(Packets) /\ Len(advises') = Len(advises) + 1 /\ Scheduled(advises')
        /\ \A k \in DOMAIN advises' : advises'[k] = p \/ \E l \in DOMAIN advises : advises'[k] = advises[l]
        /\ advises'[1] = p \/ (advises # << >> /\ advises'[1] = advises[1])
    <3>1. t \in {p.time, p.time + 1} /\ Scheduled(advises) /\ advises \in Seq(Packets)
      BY <2>2 DEF ScheduleInv
    <3>2. \A k \in DOMAIN advises : advises[k].cookie # p.cookie
      BY <2>2, <2>3
    <3>3. QED
      BY <2>2, <2>4, <3>1, <3>2, InsertedInOrder
  <2>6. ScheduleInv'
    <3>1. \A k \in DOMAIN advises' : advises'[k].cookie <= cookie
      BY <1>2, <2>1, <2>2, <2>3, <2>5
    <3>2. QED
      BY <2>1, <2>4, <2>5, <3>1 DEF ScheduleInv, Scheduled
  <2>7. SleepInv'
    <3>1. advises'[1].cookie = cookie => m_ev'
      BY <2>4
    <3>2. ~m_ev' => ~m_ev /\ advises # << >> /\ advises'[1] = advises[1]
      BY <2>2, <2>4, <2>5, <3>1
    <3>3. Ahead' = Ahead
      BY <2>4 DEF Ahead
    <3>4. {rtNow, dwWait, adjusted, seen, m_rtPrivateTime}' \subseteq Int
      BY <2>4 DEF SleepInv
    <3>5. clockPc' = "wait" /\ ~m_ev' => dwWait' <= advises'[1].time - rtNow' - Ahead'
      <4>1. SUFFICES ASSUME clockPc = "wait", ~m_ev'
                     PROVE  dwWait <= advises[1].time - rtNow - Ahead
        BY <2>4, <3>2, <3>3
      <4>2. QED
        BY <3>2, <4>1 DEF SleepInv
    <3>6. QED
      BY <2>4, <3>4, <3>5 DEF SleepInv
  <2>8. QED
    BY <2>6, <2>7
<1>4. CASE Clock!Unadvise
  <2>1. PICK k \in DOMAIN advises :
            /\ clockPc # "advise"
            /\ advises' = SubSeq(advises, 1, k - 1) \o SubSeq(advises, k + 1, Len(advises))
            /\ m_dwAdviseCount' = m_dwAdviseCount - 1
            /\ m_dwNextCookie' = m_dwNextCookie /\ clockPc' = clockPc /\ m_ev' = m_ev
            /\ Timing' = Timing /\ m_rtPrivateTime' = m_rtPrivateTime
    BY <1>4 DEF Clock!Unadvise, Clock!Unlocked, Clock!thread, Clock!adjustments, Clock!time
  <2>2. /\ advises' \in Seq(Packets) /\ Len(advises') = Len(advises) - 1
        /\ \A l \in 1..(Len(advises) - 1) : advises'[l] = IF l < k THEN advises[l] ELSE advises[l + 1]
    BY <2>1, Without DEF ScheduleInv
  <2>3. /\ Scheduled(advises') /\ \A l \in DOMAIN advises' : \E m \in DOMAIN advises : advises'[l] = advises[m]
        /\ advises' # << >> => advises[1].time <= advises'[1].time
    BY <2>2, TakenOut DEF ScheduleInv
  <2>4. /\ m_dwAdviseCount' = m_dwAdviseCount - 1 /\ clockPc # "advise"
        /\ m_dwNextCookie' = m_dwNextCookie /\ clockPc' = clockPc /\ m_ev' = m_ev
        /\ Timing' = Timing /\ m_rtPrivateTime' = m_rtPrivateTime
    BY <2>1
  <2>5. ScheduleInv'
    BY <2>2, <2>3, <2>4 DEF ScheduleInv, Scheduled
  <2>6. SleepInv'
    <3>1. /\ {rtNow, dwWait, adjusted, seen, m_rtPrivateTime} \subseteq Int
          /\ {rtNow, dwWait, adjusted, seen, m_rtPrivateTime}' \subseteq Int
      BY <2>4 DEF SleepInv
    <3>2. ASSUME clockPc' = "wait", ~m_ev', advises' # << >>
          PROVE  dwWait' <= advises'[1].time - rtNow' - Ahead'
      <4>1. advises # << >> /\ advises[1].time \in Int /\ advises'[1].time \in Int
        BY <1>2, <2>2, <3>2
      <4>2. dwWait <= advises[1].time - rtNow - Ahead /\ Ahead \in Int /\ Ahead' = Ahead
        BY <2>4, <3>1, <3>2, <4>1 DEF SleepInv, Ahead
      <4>3. QED
        BY <2>3, <2>4, <3>1, <3>2, <4>1, <4>2
    <3>3. QED
      BY <2>4, <3>1, <3>2 DEF SleepInv
  <2>7. QED
    BY <2>5, <2>6
<1>5. CASE Clock!AdviseOne
  <2> DEFINE head == advises[1]
             p == [head EXCEPT !.time = head.time + head.period]
  <2>1. /\ clockPc = "advise" /\ clockPc' = clockPc /\ m_ev' = m_ev /\ advises # << >>
        /\ m_dwNextCookie' = m_dwNextCookie
        /\ Timing' = Timing /\ m_rtPrivateTime' = m_rtPrivateTime
    BY <1>5 DEF Clock!AdviseOne, Clock!HeadIsDue, Clock!thread, Clock!adjustments, Clock!time
  <2>2. /\ 1 \in DOMAIN advises /\ head \in Packets
        /\ Tail(advises) \in Seq(Packets) /\ Len(Tail(advises)) = Len(advises) - 1
        /\ \A l \in 1..(Len(advises) - 1) : Tail(advises)[l] = advises[l + 1]
    BY <1>2, <2>1 DEF ScheduleInv
  <2>3. \A l \in 1..(Len(advises) - 1) : Tail(advises)[l] = IF l < 1 THEN advises[l] ELSE advises[l + 1]
    BY <2>2
  <2>4. /\ Scheduled(Tail(advises))
        /\ \A l \in DOMAIN Tail(advises) : \E m \in DOMAIN advises : Tail(advises)[l] = advises[m]
    BY <2>2, <2>3, TakenOut DEF ScheduleInv
  <2>5. p \in Packets /\ p.cookie = head.cookie
    BY <1>2, <2>2 DEF Packets
  <2>6. \A l \in DOMAIN Tail(advises) : Tail(advises)[l].cookie # p.cookie
    <3>1. ASSUME NEW l \in DOMAIN Tail(advises) PROVE Tail(advises)[l].cookie # p.cookie
      <4>1. l \in 1..(Len(advises) - 1) /\ l + 1 \in DOMAIN advises /\ 1 < l + 1
        BY <1>2, <2>2
      <4>2. advises[1].cookie # advises[l + 1].cookie
        BY <2>2, <4>1 DEF ScheduleInv, Scheduled
      <4>3. QED
        BY <2>2, <2>5, <4>1, <4>2
    <3>2. QED
      BY <3>1
  <2>7. p.time + 1 \in {p.time, p.time + 1}
    OBVIOUS
  <2>8. CASE head.period > 0
    <3>1. advises' = Clock!Inserted(Tail(advises), p, p.time + 1) /\ m_dwAdviseCount' = m_dwAdviseCount
      BY <1>5, <2>8 DEF Clock!AdviseOne, Clock!ShuntHead
    <3> HIDE DEF p
    <3>2. /\ advises' \in Seq(Packets) /\ Len(advises') = Len(Tail(advises)) + 1 /\ Scheduled(advises')
          /\ \A k \in DOMAIN advises' : advises'[k] = p \/ \E l \in DOMAIN Tail(advises) : advises'[k] = Tail(advises)[l]
      BY <2>2, <2>4, <2>5, <2>6, <2>7, <3>1, InsertedInOrder
    <3>3. Len(advises') = Len(advises)
      BY <1>2, <2>2, <3>2
    <3>4. \A k \in DOMAIN advises' : advises'[k].cookie <= m_dwNextCookie
      BY <2>2, <2>4, <2>5, <3>2 DEF ScheduleInv
    <3>5. ScheduleInv'
      BY <2>1, <3>1, <3>2, <3>3, <3>4 DEF ScheduleInv, Scheduled
    <3>6. SleepInv'
      BY <2>1 DEF SleepInv
    <3>7. QED
      BY <3>5, <3>6
  <2>9. CASE ~(head.period > 0)
    <3>1. advises' = Tail(advises) /\ m_dwAdviseCount' = m_dwAdviseCount - 1
      BY <1>5, <2>9 DEF Clock!AdviseOne
    <3>2. ScheduleInv'
      BY <2>1, <2>2, <2>4, <3>1 DEF ScheduleInv, Scheduled
    <3>3. SleepInv'
      BY <2>1 DEF SleepInv
    <3>4. QED
      BY <3>2, <3>3
  <2>10. QED
    BY <2>8, <2>9
<1>6. ASSUME UNCHANGED <<advises, m_dwAdviseCount, m_dwNextCookie>> PROVE ScheduleInv'
  BY <1>6 DEF ScheduleInv, Scheduled
<1>7. ASSUME NEW delta \in {-1, 2}, Clock!SetTimeDelta(delta) PROVE SleepInv'
  <2>1. /\ delta \in Int /\ adjusted' = adjusted + delta /\ m_rtPrivateTime' = m_rtPrivateTime + delta
        /\ m_ev' = (m_ev \/ (delta > 0 /\ m_dwAdviseCount > 0))
        /\ advises' = advises /\ clockPc' = clockPc
        /\ rtNow' = rtNow /\ dwWait' = dwWait /\ seen' = seen
    BY <1>7 DEF Clock!SetTimeDelta, Clock!schedule, Clock!thread
  <2>2. {rtNow, dwWait, adjusted, seen, m_rtPrivateTime} \subseteq Int
    BY DEF SleepInv
  <2>3. CASE delta = -1
    <3>1. adjusted' = adjusted - 1 /\ (~m_ev' => ~m_ev)
      BY <2>1, <2>2, <2>3
    <3>2. Ahead' <= Ahead /\ Ahead \in Int /\ Ahead' \in Int
      BY <2>1, <2>2, <3>1 DEF Ahead
    <3>3. advises # << >> => advises[1].time \in Int
      BY <1>2
    <3> HIDE DEF Timing
    <3>4. {rtNow, dwWait, adjusted, seen, m_rtPrivateTime}' \subseteq Int
      BY <2>1, <2>2
    <3>5. clockPc = "advise" /\ ~m_ev' /\ advises # << >> => adjusted' <= seen
      BY <2>2, <3>1 DEF SleepInv
    <3>6. clockPc = "wait" /\ ~m_ev' /\ advises # << >> => dwWait <= advises[1].time - rtNow - Ahead'
      <4>1. clockPc = "wait" /\ ~m_ev' /\ advises # << >> => dwWait <= advises[1].time - rtNow - Ahead
        BY <3>1 DEF SleepInv
      <4>2. QED
        BY <2>2, <3>2, <3>3, <4>1
    <3>7. QED
      BY <2>1, <3>4, <3>5, <3>6 DEF SleepInv
  <2>4. CASE delta = 2
    <3>1. advises # << >> => m_ev'
      <4>1. advises # << >> => m_dwAdviseCount > 0
        BY <1>2 DEF ScheduleInv
      <4>2. delta > 0 /\ m_dwAdviseCount > 0 => m_ev'
        BY <2>1
      <4>3. QED
        BY <2>4, <4>1, <4>2
    <3>2. QED
      BY <2>1, <2>2, <3>1 DEF SleepInv
  <2>5. QED
    BY <2>3, <2>4
<1>8. CASE Clock!Wake
  <2>1. /\ UNCHANGED <<advises, m_dwAdviseCount, m_dwNextCookie, m_rtPrivateTime, adjusted>>
        /\ clockPc' \in {"woken", "ended"} /\ rtNow' = 0 /\ dwWait' = Clock!INFINITE /\ seen' = 0
    BY <1>8 DEF Clock!Wake, Clock!WaitOver, Clock!time, Clock!adjustments, Clock!schedule
  <2>2. QED
    BY <1>1, <1>6, <2>1 DEF SleepInv
<1>9. CASE Clock!AdviseDone
  <2>1. /\ UNCHANGED <<advises, m_dwAdviseCount, m_dwNextCookie, m_ev, m_rtPrivateTime, adjusted>>
        /\ clockPc = "advise"
    BY <1>9 DEF Clock!AdviseDone, Clock!schedule, Clock!time, Clock!adjustments
  <2>2. CASE m_bAbort
    <3>1. clockPc' = "ended" /\ rtNow' = 0 /\ dwWait' = Clock!INFINITE /\ seen' = 0
      BY <1>9, <2>2 DEF Clock!AdviseDone, Clock!WaitOver
    <3>2. QED
      BY <1>1, <1>6, <2>1, <3>1 DEF SleepInv
  <2>3. CASE ~m_bAbort
    <3>1. /\ clockPc' = "wait" /\ rtNow' = rtNow /\ seen' = seen
          /\ dwWait' = IF advises = << >> THEN Clock!INFINITE ELSE advises[1].time - rtNow
      BY <1>9, <2>3 DEF Clock!AdviseDone
    <3>2. {rtNow, dwWait, adjusted, seen, m_rtPrivateTime} \subseteq Int
      BY DEF SleepInv
    <3>3. advises # << >> => advises[1].time \in Int
      BY <1>2
    <3>4. {rtNow, dwWait, adjusted, seen, m_rtPrivateTime}' \subseteq Int
      BY <1>1, <2>1, <3>1, <3>2, <3>3
    <3>5. ~m_ev /\ advises # << >> => dwWait' <= advises[1].time - rtNow - Ahead'
      <4>1. ~m_ev /\ advises # << >> => Ahead' = 0
        BY <2>1, <3>1, <3>2 DEF SleepInv, Ahead
      <4>2. QED
        BY <3>1, <3>2, <3>3, <4>1
    <3>6. QED
      BY <1>6, <2>1, <3>1, <3>4, <3>5 DEF SleepInv
  <2>4. QED
    BY <2>2, <2>3
<1>10. CASE Clock!Now
  <2>1. /\ UNCHANGED <<advises, m_dwAdviseCount, m_dwNextCookie, m_ev, dwWait, adjusted>>
        /\ clockPc' = "advise" /\ rtNow' = m_rtPrivateTime' /\ seen' = adjusted
    BY <1>10 DEF Clock!Now, Clock!schedule, Clock!adjustments
  <2>2. QED
    BY <1>1, <1>6, <2>1 DEF SleepInv
<1>11. CASE UNCHANGED <<advises, m_dwAdviseCount, m_dwNextCookie, clockPc, rtNow, dwWait, adjusted, seen>> /\ (m_ev => m_ev')
  <2>1. Ahead' = Ahead
    BY <1>11 DEF Ahead
  <2>2. QED
    BY <1>1, <1>6, <1>11, <2>1 DEF SleepInv
<1>12. CASE Clock!GetTime \/ Clock!Abort \/ Clock!Tick \/ UNCHANGED Clockvars
  BY <1>11, <1>12
     DEF Clock!GetTime, Clock!Abort, Clock!Tick, Clockvars, Clock!schedule, Clock!thread,
         Clock!adjustments
<1>13. ASSUME NEW delta \in {-1, 2}, Clock!SetTimeDelta(delta) PROVE ScheduleInv' /\ SleepInv'
  BY <1>6, <1>7, <1>13 DEF Clock!SetTimeDelta, Clock!schedule
<1>14. QED
  BY <1>3, <1>4, <1>5, <1>8, <1>9, <1>10, <1>12, <1>13 DEF Clock!Next, Clock!AdviseThread

\* What the run asks of the clock.
LEMMA ClockSafe ==
    TimeInv /\ ScheduleInv /\ SleepInv =>
        Clock!TimeKept /\ Clock!ScheduleInOrder /\ Clock!SleepsToTheHead
<1> SUFFICES ASSUME TimeInv, ScheduleInv, SleepInv
             PROVE  Clock!TimeKept /\ Clock!ScheduleInOrder /\ Clock!SleepsToTheHead
  OBVIOUS
<1>1. Clock!TimeKept
  BY ElapsedSince DEF TimeInv, Clock!TimeKept, Clock!ClockTime
<1>2. Clock!ScheduleInOrder
  BY DEF ScheduleInv, Scheduled, Clock!ScheduleInOrder
<1>3. Clock!SleepsToTheHead
  BY DEF SleepInv, Ahead, Clock!SleepsToTheHead
<1>. QED
  BY <1>1, <1>2, <1>3

LEMMA ClockInit == Clock!Init => TimeInv /\ ScheduleInv /\ SleepInv
<1> SUFFICES ASSUME Clock!Init PROVE TimeInv /\ ScheduleInv /\ SleepInv
  OBVIOUS
<1> USE CounterAssumption, ClockAssumption DEF Clock!Init
<1>1. FirstTick \in Int /\ MaxTicks \in Int /\ FirstTick - 0 = FirstTick
  OBVIOUS
<1>2. TimeInv
  BY <1>1 DEF TimeInv
<1>3. ScheduleInv
  BY DEF ScheduleInv, Scheduled
<1>4. SleepInv
  BY <1>1 DEF SleepInv, Clock!INFINITE, Clock!LastTick
<1>. QED
  BY <1>2, <1>3, <1>4
-----------------------------------------------------------------------------
\* All the parts.

\* What is true of every part at every step.
PartsInv ==
    /\ TransformInv /\ InPlaceInv /\ WindowInv /\ ControlInv
    /\ TimeInv /\ ScheduleInv /\ SleepInv
    /\ ThreadInv /\ WaitsInv

\* Whichever part takes the steps, each part takes its own or none.
LEMMA PartSteps ==
    ASSUME [MCNext]_<<part, components>>
    PROVE  /\ [Next]_vars /\ [Transform!Next]_Transformvars /\ [InPlace!Next]_InPlacevars
           /\ [Window!Next]_Windowvars /\ [Control!Next]_Controlvars
           /\ [Clock!Next]_Clockvars /\ [Thread!Next]_Threadvars
  BY DEF MCNext, components

LEMMA PartsInit == MCInit => PartsInv
  BY TransformInit, InPlaceInit, WindowInit, ControlInit, ClockInit, ThreadInit
     DEF MCInit, PartsInv

LEMMA PartsStep == PartsInv /\ [MCNext]_<<part, components>> => PartsInv'
  BY PartSteps, TransformStep, InPlaceStep, WindowStep, ControlStep, TimeStep, ScheduleStep,
     ThreadStep, WaitsStep DEF PartsInv

LEMMA PartsInvariance == MCSpec => []PartsInv
  BY PartsInit, PartsStep, PTL DEF MCSpec

\* A frame that is shown after its references were skipped, lost or flushed has been
\* waited for, and none of before a flush comes after it, for any countdown to the key
\* frame and any length of the pause between two of them (vtrans.cpp lines 55 to 69, 224
\* to 272 and 329 to 428).
THEOREM FramesDecodable ==
    MCSpec => [](Transform!ShowsDecodable /\ Transform!NothingStale)
  BY PartsInvariance, TransformSafe, PTL DEF PartsInv

\* The clock goes with the system's time however often the counter wraps, as long as it is
\* read within half of a cycle; the advises are in
\* the order of their times, and the thread does not sleep past the first of them: for any
\* times that are asked for, any number of advises and adjustments, and a counter of any
\* width (refclock.cpp lines 232 to 365, schedule.cpp lines 143 to 262).
THEOREM ClockKeepsTime ==
    MCSpec => [](Clock!TimeKept /\ Clock!ScheduleInOrder /\ Clock!SleepsToTheHead)
  BY PartsInvariance, ClockSafe, PTL DEF PartsInv

\* Messages are handled in the order in which they were put, a thread that sleeps is woken
\* for one, and a wait lasts as long as was asked: for any threads that post, a counter of
\* any width and any timeout it can express (wxutil.cpp lines 52 to 94 and 300 to 360).
THEOREM MessagesHandledInOrder ==
    MCSpec => [](Thread!MessagesInOrder /\ Thread!WaitsAsLongAsAsked)
  BY PartsInvariance, ThreadSafe, PTL DEF PartsInv

\* A transform in place has an allocator both filters share or copies (transip.cpp lines
\* 100 to 560), no palette is selected into a window that is destroyed (winutil.cpp), a sample flows
\* when a part of it is wanted (strmctl.cpp), and all of the above: what the run asks of
\* its parts, in any part.
THEOREM OrderIsKept == MCSpec => []OrderKept
<1>1. PartsInv => OrderKept
  <2> SUFFICES ASSUME PartsInv PROVE OrderKept
    OBVIOUS
  <2>1. Transform!ShowsDecodable /\ Transform!NothingStale
    BY TransformSafe DEF PartsInv
  <2>2. InPlace!TransformsSafely
    BY InPlaceSafe DEF PartsInv
  <2>3. Window!NotDestroyedInUse /\ Window!DCsDeletedOnce
    BY WindowSafe DEF PartsInv
  <2>4. Control!FlowsIfAnyPartDoes
    BY ControlSafe DEF PartsInv
  <2>5. Clock!TimeKept /\ Clock!ScheduleInOrder /\ Clock!SleepsToTheHead
    BY ClockSafe DEF PartsInv
  <2>6. Thread!MessagesInOrder /\ Thread!WaitsAsLongAsAsked
    BY ThreadSafe DEF PartsInv
  <2>. QED
    BY <2>1, <2>2, <2>3, <2>4, <2>5, <2>6 DEF OrderKept
<1>. QED
  BY <1>1, PartsInvariance, PTL
=============================================================================
