---------------------------- MODULE MCOutputQueue ----------------------------
(***************************************************************************)
(* Instances of OutputQueue for TLC, all checked in one run: a queue with  *)
(* a thread, without and with exact batches, and one without a thread.     *)
(***************************************************************************)
EXTENDS OutputQueue

MCConfigurations ==
    { [queued |-> TRUE, exact |-> FALSE, optimised |-> TRUE, resets |-> "never",
       samples |-> 3, packets |-> 2, flushes |-> 2],
      [queued |-> TRUE, exact |-> FALSE, optimised |-> TRUE, resets |-> "alone",
       samples |-> 2, packets |-> 2, flushes |-> 2],
      [queued |-> TRUE, exact |-> TRUE, optimised |-> FALSE, resets |-> "never",
       samples |-> 3, packets |-> 2, flushes |-> 2],
      [queued |-> FALSE, exact |-> TRUE, optimised |-> FALSE, resets |-> "free",
       samples |-> 5, packets |-> 0, flushes |-> 3] }
=============================================================================
