----------------------------- MODULE MCSourcePin -----------------------------
(***************************************************************************)
(* Instance of SourcePin for TLC.                                          *)
(***************************************************************************)
EXTENDS SourcePin
=============================================================================
