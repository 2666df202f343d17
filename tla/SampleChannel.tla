---------------------------- MODULE SampleChannel ----------------------------
(***************************************************************************)
(* What a sink pin promises about the media samples that pass through it,  *)
(* with no thread, lock or pipe in sight: samples are numbered in the      *)
(* order the upstream filter hands them over, and those that go out go out *)
(* in that order, each at most once.  A live capture may drop samples      *)
(* (nobody is connected, the writer was stopped), so the channel is lossy; *)
(* it never reorders, repeats or invents one.                              *)
(***************************************************************************)
EXTENDS Naturals, Sequences

VARIABLES received,  \* how many samples the pin was handed
          sent       \* the numbers of the samples sent out, oldest first

vars == <<received, sent>>

TypeOK == received \in Nat /\ sent \in Seq(Nat)

Init == received = 0 /\ sent = << >>

Accept == received' = received + 1 /\ UNCHANGED sent

\* Any sample newer than everything sent may go out next.
Transmit ==
    \E n \in 1 .. received :
        /\ \A i \in DOMAIN sent : sent[i] < n
        /\ sent' = Append(sent, n)
        /\ UNCHANGED received

Next == Accept \/ Transmit

Spec == Init /\ [][Next]_vars
===============================================================================
