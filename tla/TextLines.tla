----------------------------- MODULE TextLines -------------------------------
(***************************************************************************)
(* What "the last n lines" of a text are, as a reference for the loops of  *)
(* the code that look for them.  A text has its first and last offset and  *)
(* the offsets of its newlines, as in LogBuffer.                           *)
(***************************************************************************)
EXTENDS Integers, FiniteSets

LineStarts(b) == {c \in {b.start} \cup {n + 1 : n \in b.newlines} : c < b.end}

\* Where the last n lines begin; 0 asks for all of them.
LastLines(b, n) ==
  IF n = 0 \/ Cardinality(LineStarts(b)) <= n
  THEN b.start
  ELSE CHOOSE c \in LineStarts(b) : Cardinality({d \in LineStarts(b) : d >= c}) = n

=============================================================================
