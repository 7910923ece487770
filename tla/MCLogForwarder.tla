--------------------------- MODULE MCLogForwarder ---------------------------
(***************************************************************************)
(* An instance of LogForwarder for TLC: writes that fit the queue, fill it *)
(* and exceed it.                                                          *)
(***************************************************************************)
EXTENDS LogForwarder

=============================================================================
