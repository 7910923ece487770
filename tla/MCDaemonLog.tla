----------------------------- MODULE MCDaemonLog -----------------------------
(***************************************************************************)
(* An instance of DaemonLog for TLC: chunk and buffer of two bytes, files  *)
(* of three, two inodes and three lives.                                   *)
(***************************************************************************)
EXTENDS DaemonLog

\* A line break, and a byte of a line.
MCTexts == {[len |-> 1, newlines |-> {1}], [len |-> 1, newlines |-> {}]}

=============================================================================
