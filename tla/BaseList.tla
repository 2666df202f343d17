------------------------------ MODULE BaseList ------------------------------
(***************************************************************************)
(* CBaseList (wxlist.cpp, wxlist.h): lists of pointers to objects, kept as *)
(* chains of nodes that are linked both ways, with a count, and with a     *)
(* cache of the nodes that were taken out.  The base classes keep samples, *)
(* pins and queued packets in them, and hand out nodes as positions.       *)
(* One operation is one step: the callers hold their own lock.  There are  *)
(* two lists, so that nodes move from one to the other, and so few nodes   *)
(* that "new" fails.                                                       *)
(***************************************************************************)
EXTENDS Integers, Sequences, FiniteSets

CONSTANTS
    MaxNodes,     \* the nodes there is memory for
    CacheSize,    \* m_iCacheSize, of each list
    Objects

Lists == {"foo", "bar"}
Other(l) == IF l = "foo" THEN "bar" ELSE "foo"

Null == 0
Nodes == 1..MaxNodes

VARIABLES
    m_pNext, m_pPrev, m_pObject,     \* of each node
    m_pFirst, m_pLast, m_Count,      \* of each list
    m_pHead, m_iUsed                 \* of the cache of each list

vars == <<m_pNext, m_pPrev, m_pObject, m_pFirst, m_pLast, m_Count, m_pHead, m_iUsed>>

\* The same as a record, for the operations that are made of others.
heap == [next |-> m_pNext, prev |-> m_pPrev, object |-> m_pObject, first |-> m_pFirst,
         last |-> m_pLast, count |-> m_Count, head |-> m_pHead, used |-> m_iUsed]

Become(new) == \E h \in {new} :
    /\ m_pNext' = h.next /\ m_pPrev' = h.prev /\ m_pObject' = h.object
    /\ m_pFirst' = h.first /\ m_pLast' = h.last /\ m_Count' = h.count
    /\ m_pHead' = h.head /\ m_iUsed' = h.used

Init ==
    /\ m_pNext = [n \in Nodes |-> Null] /\ m_pPrev = [n \in Nodes |-> Null]
    /\ m_pObject = [n \in Nodes |-> Null]
    /\ m_pFirst = [l \in Lists |-> Null] /\ m_pLast = [l \in Lists |-> Null]
    /\ m_Count = [l \in Lists |-> 0]
    /\ m_pHead = [l \in Lists |-> Null] /\ m_iUsed = [l \in Lists |-> 0]

\* The nodes met from start along a chain of pointers, up to NULL (a ring is cut
\* after more nodes than there are).
Chain(pointer, start) ==
    LET met[k \in 0..(MaxNodes + 1)] ==
            IF k = 0 THEN << >>
            ELSE LET s == met[k - 1]
                     n == IF s = << >> THEN start ELSE pointer[s[Len(s)]]
                 IN  IF n = Null THEN s ELSE Append(s, n)
    IN  met[MaxNodes + 1]

Members(s) == {s[i] : i \in DOMAIN s}
Forward(h, l) == Chain(h.next, h.first[l])
Backward(h, l) == Chain(h.prev, h.last[l])
Cached(h, l) == Chain(h.next, h.head[l])
InUse(h) == UNION {Members(Forward(h, l)) \cup Members(Cached(h, l)) : l \in Lists}

\* SetNext, SetPrev of a node that is there.
With(pointer, n, value) == IF n = Null THEN pointer ELSE [pointer EXCEPT ![n] = value]

-----------------------------------------------------------------------------
\* m_Cache.RemoveFromCache, else new CNode; NULL where there is no memory.
NodeFor(h, l) ==
    IF h.head[l] # Null THEN h.head[l]
    ELSE IF Nodes \ InUse(h) = {} THEN Null
    ELSE CHOOSE n \in Nodes \ InUse(h) : TRUE

Taken(h, l) ==
    IF h.head[l] = Null THEN h
    ELSE [h EXCEPT !.head[l] = h.next[@], !.used[l] = @ - 1]

\* Chain a node with object o between two neighbours, either of which may be NULL.
Linked(h, l, before, after, o) ==
    LET n == NodeFor(h, l)
        g == Taken(h, l)
    IN  IF n = Null THEN h
        ELSE [g EXCEPT !.object[n] = o,
                       !.next = With([@ EXCEPT ![n] = after], before, n),
                       !.prev = With([@ EXCEPT ![n] = before], after, n),
                       !.first[l] = IF before = Null THEN n ELSE @,
                       !.last[l] = IF after = Null THEN n ELSE @,
                       !.count[l] = @ + 1]

AddTailI(h, l, o) == Linked(h, l, h.last[l], Null, o)
AddHeadI(h, l, o) == Linked(h, l, Null, h.first[l], o)

AddAfterI(h, l, pos, o) ==
    IF pos = Null THEN AddHeadI(h, l, o)
    ELSE IF pos = h.last[l] THEN AddTailI(h, l, o)
    ELSE Linked(h, l, pos, h.next[pos], o)

AddBeforeI(h, l, pos, o) ==
    IF pos = Null THEN AddTailI(h, l, o)
    ELSE IF pos = h.first[l] THEN AddHeadI(h, l, o)
    ELSE Linked(h, l, h.prev[pos], pos, o)

\* m_Cache.AddToCache: a full cache deletes the node.  Of a node that is kept only
\* m_pNext is used before it is written again.
AddToCache(h, l, n) ==
    LET cached == h.used[l] < CacheSize
    IN  [h EXCEPT !.next[n] = IF cached THEN h.head[l] ELSE Null,
                  !.prev[n] = Null, !.object[n] = Null,
                  !.head[l] = IF cached THEN n ELSE @,
                  !.used[l] = IF cached THEN @ + 1 ELSE @]

\* Fault: m_pLast is not moved when the last node is removed.
RemoveKeepsLast(h, l, pos) ==
    IF pos = Null THEN h
    ELSE AddToCache([h EXCEPT !.first[l] = IF h.prev[pos] = Null THEN h.next[pos] ELSE @,
                              !.next = With(@, h.prev[pos], h.next[pos]),
                              !.prev = With(@, h.next[pos], h.prev[pos]),
                              !.count[l] = @ - 1], l, pos)

RemoveI(h, l, pos) ==
    IF pos = Null THEN h
    ELSE AddToCache([h EXCEPT !.first[l] = IF h.prev[pos] = Null THEN h.next[pos] ELSE @,
                              !.next = With(@, h.prev[pos], h.next[pos]),
                              !.last[l] = IF h.next[pos] = Null THEN h.prev[pos] ELSE @,
                              !.prev = With(@, h.next[pos], h.prev[pos]),
                              !.count[l] = @ - 1], l, pos)

\* The nodes go to the heap, not to the cache.
RemoveAllI(h, l) ==
    LET freed == Members(Forward(h, l))
        Without(f) == [n \in Nodes |-> IF n \in freed THEN Null ELSE f[n]]
    IN  [h EXCEPT !.next = Without(@), !.prev = Without(@), !.object = Without(@),
                  !.first[l] = Null, !.last[l] = Null, !.count[l] = 0]

-----------------------------------------------------------------------------
\* The whole of the other list: at the tail, at the head (added backwards, so that
\* it keeps its order), after or before a position that follows what is added.
AddTailList(h, l) ==
    LET from == Forward(h, Other(l))
        added[k \in 0..Len(from)] ==
            IF k = 0 THEN h ELSE AddTailI(added[k - 1], l, h.object[from[k]])
    IN  added[Len(from)]

\* Fault: the other list is traversed forwards.
AddHeadForwards(h, l) ==
    LET from == Forward(h, Other(l))
        added[k \in 0..Len(from)] ==
            IF k = 0 THEN h ELSE AddHeadI(added[k - 1], l, h.object[from[k]])
    IN  added[Len(from)]

AddHeadList(h, l) ==
    LET from == Backward(h, Other(l))
        added[k \in 0..Len(from)] ==
            IF k = 0 THEN h ELSE AddHeadI(added[k - 1], l, h.object[from[k]])
    IN  added[Len(from)]

AddAfterList(h, l, pos) ==
    LET from == Forward(h, Other(l))
        added[k \in 0..Len(from)] ==
            IF k = 0 THEN [heap |-> h, pos |-> pos]
            ELSE LET g == added[k - 1]
                 IN  [heap |-> AddAfterI(g.heap, l, g.pos, h.object[from[k]]),
                      pos |-> NodeFor(g.heap, l)]
    IN  added[Len(from)].heap

AddBeforeList(h, l, pos) ==
    LET from == Backward(h, Other(l))
        added[k \in 0..Len(from)] ==
            IF k = 0 THEN [heap |-> h, pos |-> pos]
            ELSE LET g == added[k - 1]
                 IN  [heap |-> AddBeforeI(g.heap, l, g.pos, h.object[from[k]]),
                      pos |-> NodeFor(g.heap, l)]
    IN  added[Len(from)].heap

\* MoveToTail: join the other list and this one into one chain, and break it after
\* pos.
MoveToTailI(h, l, pos) ==
    LET k == Other(l)
        joined == [next |-> With(h.next, h.last[k], h.first[l]),
                   prev |-> With(h.prev, h.first[l], h.last[k])]
        first == joined.next[pos]
        moved == Len(Chain(h.prev, pos))
    IN  IF pos = Null THEN h
        ELSE [h EXCEPT !.first = [@ EXCEPT ![k] = IF @ = Null THEN h.first[l] ELSE @,
                                           ![l] = first],
                       !.last = [@ EXCEPT ![k] = pos,
                                          ![l] = IF first = Null THEN Null ELSE @],
                       !.next = [joined.next EXCEPT ![pos] = Null],
                       !.prev = With(joined.prev, first, Null),
                       !.count = [@ EXCEPT ![l] = @ - moved, ![k] = @ + moved]]

\* Fault: the chain is not broken backwards.
MoveUnbroken(h, l, pos) ==
    LET k == Other(l)
        joined == [next |-> With(h.next, h.last[l], h.first[k]),
                   prev |-> With(h.prev, h.first[k], h.last[l])]
        last == joined.prev[pos]
        moved == Len(Chain(h.next, pos))
    IN  IF pos = Null THEN h
        ELSE [h EXCEPT !.last = [@ EXCEPT ![k] = IF @ = Null THEN h.last[l] ELSE @,
                                          ![l] = last],
                       !.first = [@ EXCEPT ![k] = pos,
                                           ![l] = IF last = Null THEN Null ELSE @],
                       !.prev = joined.prev,
                       !.next = With(joined.next, last, Null),
                       !.count = [@ EXCEPT ![l] = @ - moved, ![k] = @ + moved]]

\* MoveToHead: its mirror image.
MoveToHeadI(h, l, pos) ==
    LET k == Other(l)
        joined == [next |-> With(h.next, h.last[l], h.first[k]),
                   prev |-> With(h.prev, h.first[k], h.last[l])]
        last == joined.prev[pos]
        moved == Len(Chain(h.next, pos))
    IN  IF pos = Null THEN h
        ELSE [h EXCEPT !.last = [@ EXCEPT ![k] = IF @ = Null THEN h.last[l] ELSE @,
                                          ![l] = last],
                       !.first = [@ EXCEPT ![k] = pos,
                                           ![l] = IF last = Null THEN Null ELSE @],
                       !.prev = [joined.prev EXCEPT ![pos] = Null],
                       !.next = With(joined.next, last, Null),
                       !.count = [@ EXCEPT ![l] = @ - moved, ![k] = @ + moved]]

\* Each node's two pointers are swapped, then m_pFirst and m_pLast.
ReverseI(h, l) ==
    LET mine == Members(Forward(h, l))
    IN  [h EXCEPT !.next = [n \in Nodes |-> IF n \in mine THEN h.prev[n] ELSE @[n]],
                  !.prev = [n \in Nodes |-> IF n \in mine THEN h.next[n] ELSE @[n]],
                  !.first[l] = h.last[l], !.last[l] = h.first[l]]

-----------------------------------------------------------------------------
Positions(l) == Members(Forward(heap, l)) \cup {Null}

\* AddTail and AddHead are what these are with a NULL position.
AddOne == \E l \in Lists, o \in Objects : \E pos \in Positions(l) :
    Become(AddAfterI(heap, l, pos, o)) \/ Become(AddBeforeI(heap, l, pos, o))

AddList == \E l \in Lists :
    \/ Become(AddTailList(heap, l)) \/ Become(AddHeadList(heap, l))
    \/ \E pos \in Positions(l) :
        Become(AddAfterList(heap, l, pos)) \/ Become(AddBeforeList(heap, l, pos))

\* Remove, RemoveHead and RemoveTail.
Remove == \E l \in Lists : \E pos \in Positions(l) : Become(RemoveI(heap, l, pos))

Move == \E l \in Lists : \E pos \in Positions(l) :
    Become(MoveToTailI(heap, l, pos)) \/ Become(MoveToHeadI(heap, l, pos))

Reverse == \E l \in Lists : Become(ReverseI(heap, l))

RemoveAll == \E l \in Lists : Become(RemoveAllI(heap, l))

Next == AddOne \/ AddList \/ Remove \/ Move \/ Reverse \/ RemoveAll

Spec == Init /\ [][Next]_vars

-----------------------------------------------------------------------------
\* Every node is in one place: in one list, once, or in one cache; each list reads
\* the same backwards as forwards, and its count and its cache's are right
\* (wxlist.cpp lines 332 to 891, wxlist.h lines 136 to 157).
WellLinked ==
    /\ \A l \in Lists :
        LET forward == Forward(heap, l)
            backward == Backward(heap, l)
        IN  /\ Len(forward) = m_Count[l] /\ Len(backward) = Len(forward)
            /\ \A i \in DOMAIN forward : forward[i] = backward[Len(forward) + 1 - i]
            /\ Cardinality(Members(forward)) = Len(forward)
            /\ Len(Cached(heap, l)) = m_iUsed[l] /\ m_iUsed[l] <= CacheSize
            /\ Members(forward) \cap Members(Cached(heap, l)) = {}
    /\ LET owned(l) == Members(Forward(heap, l)) \cup Members(Cached(heap, l))
       IN  owned("foo") \cap owned("bar") = {}

\* The objects of a list in order: as many as it counts, from m_pFirst on.
Contents(l) ==
    LET walk[k \in 0..m_Count[l]] ==
            IF k = 0 THEN [next |-> m_pFirst[l], objects |-> << >>]
            ELSE LET w == walk[k - 1]
                 IN  IF w.next = Null THEN [w EXCEPT !.objects = Append(@, Null)]
                     ELSE [next |-> m_pNext[w.next],
                           objects |-> Append(w.objects, m_pObject[w.next])]
    IN  walk[m_Count[l]].objects

Promised == INSTANCE ObjectLists WITH count <- m_Count,
    contents <- [foo |-> Contents("foo"), bar |-> Contents("bar")]

\* A step, as the lists of objects see it.
StepPromised == Promised!Next \/ UNCHANGED <<Contents("foo"), Contents("bar"), m_Count>>

\* The chains of nodes implement the lists of objects that the header promises:
\* each operation puts in, takes out or moves the objects it is about, keeps the
\* order of the others, and counts (wxlist.cpp lines 332 to 891).
ImplementsLists == Promised!Init /\ [][StepPromised]_vars
=============================================================================
