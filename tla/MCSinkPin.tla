------------------------------ MODULE MCSinkPin ------------------------------
(***************************************************************************)
(* Instance of SinkPin for TLC: two identities, so that a second writer    *)
(* could be seen.                                                          *)
(***************************************************************************)
EXTENDS SinkPin

CONSTANTS w1, w2

MCWriter == {w1, w2}
=============================================================================
