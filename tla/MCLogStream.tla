---------------------------- MODULE MCLogStream -----------------------------
(***************************************************************************)
(* An instance of LogStream for TLC: one reader and two services with room *)
(* for one entry.                                                          *)
(***************************************************************************)
EXTENDS LogStream

CONSTANTS r1, web, api

\* Nothing, a line break, and a line break and two bytes of the next line:
\* together they reach both limits, on and off a line boundary.
MCTexts == {[len |-> 0, newlines |-> {}], [len |-> 1, newlines |-> {1}],
            [len |-> 3, newlines |-> {1}]}

MCFollows == [r \in {r1} |-> web]

=============================================================================
