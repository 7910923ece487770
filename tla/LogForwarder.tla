---------------------------- MODULE LogForwarder ----------------------------
(***************************************************************************)
(* logForwarder, the queue between a program and the daemon that `run` and *)
(* `logforward` share, and the daemon's end of it.                         *)
(*                                                                         *)
(* The program writes while the sender waits, takes what is queued, or     *)
(* waits for an answer.  A request that the sender gave up on may still be *)
(* in the hands of the daemon, and be appended after later ones.           *)
(*                                                                         *)
(* The bytes written are numbered from 0.  The queue always holds the last *)
(* of them, head..written-1, so its first says all.                        *)
(***************************************************************************)
EXTENDS Integers, Sequences

CONSTANTS
  MaxBytes,   \* the bytes queued
  Chunks,     \* the sizes of the writes
  MaxWritten, \* bound: bytes the program writes
  MaxFaults   \* bound: outages and requests that time out

ASSUME ForwarderAssumption ==
  /\ MaxBytes \in Nat \ {0}
  /\ Chunks \subseteq Nat \ {0}
  /\ MaxWritten \in Nat /\ MaxFaults \in Nat

VARIABLES
  written,   \* bytes written so far
  head,      \* the first byte that is queued
  dropped,   \* logForwarder.dropped
  stop,      \* whether stop is closed
  closing,   \* bytes written when it was, of which the code keeps no account
  pc,        \* the sender: "waiting", "posting" or "done"
  batch,     \* the batch it posts
  final,     \* whether that is the send that Close waits for
  request,   \* that request: "sent", "accepted" or "appended" by the daemon,
             \* "lost" with it, or "none"
  failing,   \* the sender's failing
  told,      \* whether failures and recoveries reported are odd in number
  available, \* whether the daemon answers, and the service is registered
  late,      \* batches accepted, the sender having given up on them
  log,       \* the batches appended, in order
  faults     \* outages and timeouts so far

queue == <<written, head, dropped>>
sender == <<pc, batch, final, request, failing, told>>
daemon == <<available, late, log>>
vars == <<queue, stop, closing, sender, daemon, faults>>

\* The bytes from..to-1, behind the line that says that output was omitted.
Batch(marker, from, to) == [marker |-> marker, from |-> from, to |-> to]

NoBatch == Batch(FALSE, 0, 0)

Init ==
  /\ written = 0 /\ head = 0 /\ dropped = FALSE
  /\ stop = FALSE /\ closing = 0
  /\ pc = "waiting" /\ batch = NoBatch /\ final = FALSE
  /\ request = "none"
  /\ failing \in BOOLEAN /\ told = failing \* the caller has reported it
  /\ available \in BOOLEAN
  /\ late = {} /\ log = <<>>
  /\ faults = 0

(***************************************************************************)
(* The program's side.                                                     *)
(***************************************************************************)

\* Mutant: the bytes already queued do not count.
QueueUncounted(n) ==
  /\ head' = IF n >= MaxBytes THEN written + n - MaxBytes ELSE head
  /\ dropped' = (dropped \/ n >= MaxBytes)

\* The queue keeps the last MaxBytes bytes.  A write as large as the queue
\* replaces it, and counts as an omission even if nothing was queued.
Queue(n) ==
  /\ head' = IF written + n - head > MaxBytes THEN written + n - MaxBytes ELSE head
  /\ dropped' = (dropped \/ n >= MaxBytes \/ written + n - head > MaxBytes)

\* The reader of standard input is left behind when a signal ends
\* `logforward`, so a write may follow Close.
Write(n) ==
  /\ pc # "done"
  /\ written + n <= MaxWritten
  /\ written' = written + n
  /\ Queue(n)
  /\ UNCHANGED <<stop, closing, sender, daemon, faults>>

Close ==
  /\ ~stop
  /\ stop' = TRUE
  /\ closing' = written
  /\ UNCHANGED <<queue, sender, daemon, faults>>

(***************************************************************************)
(* The sender.                                                             *)
(***************************************************************************)

\* Mutant: an omission alone is not sent.
PendingOnly == head # written

Pending == head # written \/ dropped

\* The end of send: back to the loop, or out of it.
Return(isFinal) ==
  /\ pc' = IF isFinal THEN "done" ELSE "waiting"
  /\ batch' = NoBatch
  /\ final' = FALSE
  /\ request' = "none"

\* Mutant: `dropped` is cleared before it is looked at.
SendUnmarked(isFinal) ==
  IF Pending
  THEN /\ batch' = Batch(FALSE, head, written)
       /\ head' = written
       /\ dropped' = FALSE
       /\ pc' = "posting"
       /\ final' = isFinal
       /\ request' = "sent"
       /\ UNCHANGED written
  ELSE /\ Return(isFinal)
       /\ UNCHANGED queue

Send(isFinal) ==
  IF Pending
  THEN /\ batch' = Batch(dropped, head, written)
       /\ head' = written
       /\ dropped' = FALSE
       /\ pc' = "posting"
       /\ final' = isFinal
       /\ request' = "sent"
       /\ UNCHANGED written
  ELSE /\ Return(isFinal)
       /\ UNCHANGED queue

Tick ==
  /\ pc = "waiting"
  /\ Send(FALSE)
  /\ UNCHANGED <<stop, closing, failing, told, daemon, faults>>

\* Mutant: what is queued is not sent when the forwarder is closed.
StoppedAtOnce ==
  /\ pc = "waiting"
  /\ stop
  /\ Return(TRUE)
  /\ UNCHANGED <<queue, stop, closing, failing, told, daemon, faults>>

Stopped ==
  /\ pc = "waiting"
  /\ stop
  /\ Send(TRUE)
  /\ UNCHANGED <<stop, closing, failing, told, daemon, faults>>

Succeed ==
  /\ pc = "posting"
  /\ request = "appended"
  /\ told' = (told # failing)
  /\ failing' = FALSE
  /\ Return(final)
  /\ UNCHANGED <<queue, stop, closing, daemon, faults>>

\* Mutants: a failed send is forgotten; its batch is queued again; each is
\* reported; or the last of them is tried again.
FailForgets ==
  /\ told' = (told # ~failing)
  /\ failing' = TRUE
  /\ Return(final)
  /\ UNCHANGED <<queue, stop, closing>>

FailRetries ==
  /\ head' = IF written - batch.from > MaxBytes THEN head ELSE batch.from
  /\ dropped' = (dropped \/ batch.marker \/ written - batch.from > MaxBytes)
  /\ told' = (told # ~failing)
  /\ failing' = TRUE
  /\ Return(final)
  /\ UNCHANGED <<written, stop, closing>>

FailReports ==
  /\ dropped' = TRUE
  /\ told' = ~told
  /\ failing' = TRUE
  /\ Return(final)
  /\ UNCHANGED <<written, head, stop, closing>>

FailPersists ==
  /\ dropped' = TRUE
  /\ told' = (told # ~failing)
  /\ failing' = TRUE
  /\ Return(FALSE)
  /\ UNCHANGED <<written, head, stop, closing>>

\* The batch is gone, and the next one says so.
Fail ==
  /\ dropped' = TRUE
  /\ told' = (told # ~failing)
  /\ failing' = TRUE
  /\ Return(final)
  /\ UNCHANGED <<written, head, stop, closing>>

\* No daemon answers, it answers 404, or it dies over the request.
Refused ==
  /\ pc = "posting"
  /\ \/ request = "lost"
     \/ request = "sent" /\ ~available
  /\ Fail
  /\ UNCHANGED <<daemon, faults>>

\* A second has passed.  What the daemon has accepted stays with it.
TimedOut ==
  /\ pc = "posting"
  /\ faults < MaxFaults
  /\ faults' = faults + 1
  /\ Fail
  /\ late' = IF request = "accepted" THEN late \cup {[id |-> faults, batch |-> batch]} ELSE late
  /\ UNCHANGED <<available, log>>

(***************************************************************************)
(* The daemon's side, and its failures.                                    *)
(***************************************************************************)

Accept ==
  /\ available
  /\ request = "sent"
  /\ request' = "accepted"
  /\ UNCHANGED <<queue, stop, closing, pc, batch, final, failing, told, daemon, faults>>

AppendBatch ==
  /\ request = "accepted"
  /\ request' = "appended"
  /\ log' = Append(log, batch)
  /\ UNCHANGED <<queue, stop, closing, pc, batch, final, failing, told, available, late, faults>>

AppendLate(r) ==
  /\ r \in late
  /\ late' = late \ {r}
  /\ log' = Append(log, r.batch)
  /\ UNCHANGED <<queue, stop, closing, sender, available, faults>>

\* The service is removed, or the daemon hangs.
Outage ==
  /\ available
  /\ faults < MaxFaults
  /\ faults' = faults + 1
  /\ available' = FALSE
  /\ UNCHANGED <<queue, stop, closing, sender, late, log>>

\* The daemon dies, with what it has accepted.
Death ==
  /\ faults < MaxFaults
  /\ faults' = faults + 1
  /\ available' = FALSE
  /\ late' = {}
  /\ request' = IF request \in {"sent", "accepted", "appended"} THEN "lost" ELSE request
  /\ UNCHANGED <<queue, stop, closing, pc, batch, final, failing, told, log>>

Recover ==
  /\ ~available
  /\ available' = TRUE
  /\ UNCHANGED <<queue, stop, closing, sender, late, log, faults>>

Next ==
  \/ \E n \in Chunks : Write(n)
  \/ Close
  \/ Tick \/ Stopped \/ Succeed \/ Refused \/ TimedOut
  \/ Accept \/ AppendBatch \/ (\E r \in late : AppendLate(r))
  \/ Outage \/ Death \/ Recover

Spec == Init /\ [][Next]_vars

(***************************************************************************)
(* The loop runs, and select, with both the ticker and stop ready, does    *)
(* not forever choose the ticker; a daemon that answers does so.  Nothing  *)
(* makes the program write, or a daemon that is gone come back.            *)
(***************************************************************************)
Fairness ==
  /\ WF_vars(Tick) /\ SF_vars(Stopped)
  /\ WF_vars(Succeed) /\ WF_vars(Refused)
  /\ WF_vars(Accept) /\ WF_vars(AppendBatch)

FairSpec == Spec /\ Fairness

(***************************************************************************)
(* Properties.                                                             *)
(***************************************************************************)

Batches == [marker : BOOLEAN, from : Nat, to : Nat]

TypeOK ==
  /\ written \in Nat
  /\ head \in 0..written
  /\ dropped \in BOOLEAN
  /\ stop \in BOOLEAN
  /\ closing \in 0..written
  /\ pc \in {"waiting", "posting", "done"}
  /\ batch \in Batches
  /\ final \in BOOLEAN
  /\ request \in {"none", "sent", "accepted", "appended", "lost"}
  /\ failing \in BOOLEAN
  /\ told \in BOOLEAN
  /\ available \in BOOLEAN
  /\ late \subseteq [id : Nat, batch : Batches]
  /\ log \in Seq(Batches)
  /\ faults \in 0..MaxFaults

\* "the queue drops the oldest bytes": the daemon being slow or away costs the
\* program no more memory than that, and a batch fits a request.
QueueBounded == written - head <= MaxBytes /\ batch.to - batch.from <= MaxBytes

\* "... and inserts a marker": whatever was dropped, lost with a request or
\* refused, output that does not follow what the daemon has is marked, in
\* whichever order late batches arrive.
NoSilentGap ==
  \A i \in DOMAIN log :
    ~log[i].marker => log[i].from = 0 \/ \E j \in DOMAIN log : j < i /\ log[j].to = log[i].from

\* A batch that was given up on is not sent again: since the daemon may have it
\* all the same, no byte ever appears twice.
NoDuplicates ==
  \A i, j \in DOMAIN log : i # j => log[i].to <= log[j].from \/ log[j].to <= log[i].from

\* warn "is called once each time forwarding starts failing or recovers".
ToldOnce == told = failing

\* Close returns, daemon or no daemon.
CloseReturns == stop ~> pc = "done"

\* While the daemon is there, everything written reaches it or is announced as
\* omitted.
Delivered == <>[](available /\ ~stop) => []<>(head = written /\ ~dropped)

(***************************************************************************)
(* What the forwarder promises.  The abstract specification knows neither  *)
(* queue nor requests: a batch is delivered when the daemon appends it.    *)
(***************************************************************************)

Delivery == INSTANCE LogDelivery WITH
  phase  <- IF pc = "done" THEN "closed" ELSE IF stop THEN "closing" ELSE "open",
  warned <- told

\* Output is appended at most once and gaps are marked; Close returns with each
\* byte written before it appended, or announced as omitted, or the caller told
\* that forwarding fails (see LogDelivery).
ImplementsDelivery == Delivery!Spec

\* Close "allows one bounded final send": once it has returned, and whatever
\* late batches the daemon still appends, each byte that was written before is in
\* the log, or the output that follows it there is marked; or the last send failed.
FlushedOnClose == pc = "done" => failing \/ Delivery!Complete

=============================================================================
