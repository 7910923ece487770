----------------------------- MODULE LogBuffer ------------------------------
(***************************************************************************)
(* The retained output of one service (logstream's entry) as a value: the  *)
(* absolute offsets start..end-1 of the bytes it holds, and which of them  *)
(* are newlines.  Nothing else about the bytes matters to this code.       *)
(***************************************************************************)
EXTENDS Integers, FiniteSets

CONSTANTS
  MaxLines, \* the trailing lines kept per service
  MaxBytes, \* and the bytes
  Texts     \* the texts appended: [len, newlines], with the positions (from 1)
            \* of the newlines

ASSUME LimitsAssumption == MaxLines \in Nat \ {0} /\ MaxBytes \in Nat \ {0}

ASSUME TextsAssumption ==
  \A t \in Texts : t.len \in Nat /\ t.newlines \subseteq 1..t.len

Empty == [start |-> 0, end |-> 0, newlines |-> {}]

Size(b) == b.end - b.start

\* Whole lines, and the partial one at the end.
Lines(b) ==
  Cardinality(b.newlines)
    + (IF Size(b) > 0 /\ b.end - 1 \notin b.newlines THEN 1 ELSE 0)

Extended(b, text) ==
  [b EXCEPT !.end = @ + text.len,
            !.newlines = @ \cup {b.end + i - 1 : i \in text.newlines}]

\* Where the last MaxLines lines begin.
LineCut(b) ==
  LET excess == Lines(b) - MaxLines
  IN  IF excess <= 0
      THEN b.start
      ELSE CHOOSE c \in {n + 1 : n \in b.newlines} :
             Cardinality({n \in b.newlines : n < c}) = excess

\* Where the last MaxBytes bytes begin, or the first line in them does if
\* there is anything after that line break.
ByteCut(b) ==
  LET raw      == b.end - MaxBytes
      breaks   == {n \in b.newlines : n >= raw}
      First(n) == n \in breaks /\ (\A m \in breaks : n <= m) /\ n + 1 < b.end
  IN  IF \E n \in breaks : First(n) THEN (CHOOSE n \in breaks : First(n)) + 1 ELSE raw

CutAt(b, c) ==
  [b EXCEPT !.start = c, !.newlines = {n \in @ : n >= c}]

\* Mutants: the limit in bytes is not enforced, or cuts lines in two.
TrimMidLine(b) ==
  LET byLines == CutAt(b, LineCut(b))
  IN  IF Size(byLines) > MaxBytes THEN CutAt(b, b.end - MaxBytes) ELSE byLines

TrimLinesOnly(b) == CutAt(b, LineCut(b))

Trim(b) ==
  LET byLines == CutAt(b, LineCut(b))
  IN  IF Size(byLines) > MaxBytes THEN CutAt(b, ByteCut(b)) ELSE byLines

\* Whether `offset` lies outside of the window: what it asks for was trimmed
\* away, or was never appended.
Outside(b, o) == o < b.start \/ o > b.end

=============================================================================
