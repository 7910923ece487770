---------------------------- MODULE LogDelivery -----------------------------
(***************************************************************************)
(* What logForwarder promises the program and its caller, whatever becomes *)
(* of the daemon: batches of the program's output are appended to its log, *)
(* perhaps late and out of order, but none of it twice, and never a batch  *)
(* that begins where nothing appended ends without a marker.  A caller     *)
(* that asks for it is told when forwarding starts to fail, and when it    *)
(* works again.  When Close returns, every byte written before it has been *)
(* appended, or the output that follows it in the log is marked; or else   *)
(* the caller was told last that forwarding fails.                         *)
(***************************************************************************)
EXTENDS Integers, Sequences

CONSTANTS
  MaxBytes, \* the size of a batch
  Chunks    \* the sizes of the writes

VARIABLES
  phase,   \* "open", "closing" once Close is called, "closed" once it returns
  written, \* bytes the program has written
  closing, \* bytes it had written when Close was called
  warned,  \* whether the caller was last told that forwarding fails
  log      \* the batches appended, in order

vars == <<phase, written, closing, warned, log>>

Init ==
  /\ phase = "open"
  /\ written = 0 /\ closing = 0
  /\ warned \in BOOLEAN
  /\ log = <<>>

Write ==
  /\ phase # "closed"
  /\ \E n \in Chunks : written' = written + n
  /\ UNCHANGED <<phase, closing, warned, log>>

Close ==
  /\ phase = "open"
  /\ phase' = "closing"
  /\ closing' = written
  /\ UNCHANGED <<written, warned, log>>

\* The bytes from..to-1, of which none was appended before.
Fresh(from, to) ==
  /\ from <= to /\ to - from <= MaxBytes
  /\ \A i \in DOMAIN log : to <= log[i].from \/ log[i].to <= from

Continues(from) == from = 0 \/ \E i \in DOMAIN log : log[i].to = from

Deliver ==
  /\ \E marker \in BOOLEAN, from, to \in 0..written :
       /\ Fresh(from, to)
       /\ marker \/ Continues(from)
       /\ log' = Append(log, [marker |-> marker, from |-> from, to |-> to])
  /\ UNCHANGED <<phase, written, closing, warned>>

\* That forwarding works again is only said when something has been appended.
Tell ==
  /\ warned' \in BOOLEAN
  /\ warned /\ ~warned' => log # <<>>

Report ==
  /\ phase # "closed"
  /\ Tell
  /\ UNCHANGED <<phase, written, closing, log>>

Appended(b) == \E i \in DOMAIN log : log[i].from <= b /\ b < log[i].to

\* The first of the output behind byte b that was appended is marked.
Announced(b) ==
  \E i \in DOMAIN log :
    /\ log[i].marker /\ b < log[i].from
    /\ \A j \in DOMAIN log : log[j].to <= b \/ log[i].from <= log[j].from

Complete == \A b \in 0..(closing - 1) : Appended(b) \/ Announced(b)

Return ==
  /\ phase = "closing"
  /\ phase' = "closed"
  /\ Tell
  /\ Complete \/ warned'
  /\ UNCHANGED <<written, closing, log>>

Next == Write \/ Close \/ Deliver \/ Report \/ Return

Spec == Init /\ [][Next]_vars

=============================================================================
