---------------------------- MODULE ObjectLists ----------------------------
(***************************************************************************)
(* What CBaseList promises (wxlist.h): two lists of objects, each with its *)
(* count, that objects are put into, taken out of and moved between.  What *)
(* an operation relates are the lists c there were and the new ones.       *)
(***************************************************************************)
EXTENDS Sequences, Integers

CONSTANTS Lists, Objects

VARIABLES contents, count

Front(s, i) == SubSeq(s, 1, i)
Rest(s, i) == SubSeq(s, i + 1, Len(s))
PutInto(c, l, i, s) == [c EXCEPT ![l] = Front(@, i) \o s \o Rest(@, i)]

Insert(c, new) == \E l \in Lists, o \in Objects : \E i \in 0..Len(c[l]) :
    new = PutInto(c, l, i, <<o>>)

Delete(c, new) == \E l \in Lists : \E i \in 1..Len(c[l]) :
    new = [c EXCEPT ![l] = Front(@, i - 1) \o Rest(@, i)]

Pairs == {p \in Lists \X Lists : p[1] # p[2]}

\* All of the other list, or the part of it there was memory for: the first of
\* its objects where they are added forwards, the last where backwards.
Copy(c, new) == \E p \in Pairs : \E i \in 0..Len(c[p[1]]), n \in 0..Len(c[p[2]]) :
    \/ new = PutInto(c, p[1], i, Front(c[p[2]], n))
    \/ new = PutInto(c, p[1], i, Rest(c[p[2]], n))

MoveFront(c, new) == \E p \in Pairs : \E i \in 0..Len(c[p[1]]) :
    new = [c EXCEPT ![p[1]] = Rest(@, i), ![p[2]] = @ \o Front(c[p[1]], i)]

MoveRest(c, new) == \E p \in Pairs : \E i \in 0..Len(c[p[1]]) :
    new = [c EXCEPT ![p[1]] = Front(@, i), ![p[2]] = Rest(c[p[1]], i) \o @]

Reverse(c, new) == \E l \in Lists :
    new = [c EXCEPT ![l] = [i \in DOMAIN @ |-> @[Len(@) + 1 - i]]]

RemoveAll(c, new) == \E l \in Lists : new = [c EXCEPT ![l] = << >>]

Init == contents = [l \in Lists |-> << >>] /\ count = [l \in Lists |-> 0]

Next == \E c \in {contents}, new \in {contents'} :
    /\ \A l \in Lists : count'[l] = Len(new[l])
    /\ \/ Insert(c, new) \/ Delete(c, new) \/ MoveFront(c, new) \/ MoveRest(c, new)
       \/ Copy(c, new) \/ Reverse(c, new) \/ RemoveAll(c, new)

Spec == Init /\ [][Next]_<<contents, count>>
=============================================================================
