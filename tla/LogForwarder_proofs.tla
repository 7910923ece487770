------------------------ MODULE LogForwarder_proofs -------------------------
(***************************************************************************)
(* Proofs about LogForwarder, for queues, writes and faults of any number  *)
(* and size.                                                               *)
(*                                                                         *)
(* That gaps are marked rests on what `dropped` knows: as long as it is    *)
(* FALSE, the queue begins where the batch that is being posted ends, or   *)
(* where one that the daemon has appended does.  That nothing is repeated  *)
(* rests on batches being disjoint wherever they are: in the log, in the   *)
(* hands of the daemon, or on their way.  What Close returns with rests on *)
(* where each byte that left the queue is: in the log, before a marker     *)
(* there, in the batch that is being posted or before the marker of that   *)
(* one, or before the marker that `dropped` calls for.                     *)
(***************************************************************************)
EXTENDS LogForwarder, FiniteSets, SequenceTheorems, FiniteSetTheorems, WellFoundedInduction, TLAPS

\* An offset at which output may go on without a marker.
Continues(from) == from = 0 \/ \E j \in DOMAIN log : log[j].to = from

Disjoint(a, b) == a.to <= b.from \/ b.to <= a.from

\* The sender's locals are only set while it posts.
Posting ==
  /\ pc = "posting" <=> request # "none"
  /\ pc # "posting" => ~final
  /\ pc = "posting" => batch.from <= batch.to /\ batch.to <= head
  /\ final \/ pc = "done" => stop

\* Nothing the sender still has is with the daemon.
Behind ==
  /\ \A i \in DOMAIN log : log[i].from <= log[i].to /\ log[i].to <= head
  /\ \A r \in late : r.batch.from <= r.batch.to /\ r.batch.to <= head
  /\ \A r \in late : r.id < faults
  /\ pc = "posting" =>
       /\ \A r \in late : r.batch.to <= batch.from
       /\ request \in {"sent", "accepted"} => \A i \in DOMAIN log : Disjoint(log[i], batch)
  /\ \A r \in late : \A i \in DOMAIN log : Disjoint(log[i], r.batch)
  /\ \A r, s \in late : r # s => Disjoint(r.batch, s.batch)

Marked ==
  /\ ~dropped => IF pc = "posting" THEN head = batch.to ELSE Continues(head)
  /\ pc = "posting" /\ ~batch.marker => Continues(batch.from)
  /\ \A r \in late : ~r.batch.marker => Continues(r.batch.from)
  /\ request = "appended" => \E i \in DOMAIN log : log[i] = batch

Closing == final => closing <= batch.to

\* Byte b is in the log, or a marker behind it is.
Settled(b) ==
  Delivery!Appended(b) \/ \E i \in DOMAIN log : log[i].marker /\ b < log[i].from

Accounted ==
  IF pc = "posting"
  THEN \A b \in 0..(batch.to - 1) : Settled(b) \/ batch.marker \/ batch.from <= b
  ELSE \A b \in 0..(head - 1) : Settled(b) \/ dropped

Flushed == pc = "done" => failing \/ \A b \in 0..(closing - 1) : Settled(b)

IInv ==
  /\ TypeOK /\ QueueBounded /\ ToldOnce
  /\ Posting /\ Behind /\ NoDuplicates
  /\ Marked /\ NoSilentGap
  /\ Closing /\ Accounted /\ Flushed

LEMMA InitIInv == Init => IInv
<1> SUFFICES ASSUME Init PROVE IInv
  OBVIOUS
<1> USE ForwarderAssumption DEF Init
<1>1. NoBatch \in Batches /\ NoBatch.from = 0 /\ NoBatch.to = 0
  BY DEF NoBatch, Batch, Batches
<1>2. log \in Seq(Batches) /\ DOMAIN log = {}
  OBVIOUS
<1>3. QueueBounded /\ ToldOnce
  BY <1>1 DEF QueueBounded, ToldOnce
<1>4. failing \in BOOLEAN /\ told \in BOOLEAN /\ available \in BOOLEAN
  BY Zenon
<1>5. /\ written \in Nat /\ head \in 0..written /\ closing \in 0..written
      /\ late \subseteq [id : Nat, batch : Batches] /\ faults \in 0..MaxFaults
      /\ dropped = FALSE /\ stop = FALSE /\ final = FALSE
  OBVIOUS
<1>6. TypeOK
  BY <1>1, <1>2, <1>4, <1>5 DEF TypeOK
<1>7. Posting /\ Behind /\ NoDuplicates
  BY <1>2 DEF Posting, Behind, NoDuplicates
<1>8. Marked /\ NoSilentGap
  BY <1>2 DEF Marked, Continues, NoSilentGap
<1>9. Closing /\ Accounted /\ Flushed
  BY DEF Closing, Accounted, Flushed
<1> QED BY <1>3, <1>6, <1>7, <1>8, <1>9 DEF IInv

\* Every batch there is has its fields.
LEMMA BatchTypes ==
  ASSUME TypeOK
  PROVE  /\ batch.from \in Nat /\ batch.to \in Nat /\ batch.marker \in BOOLEAN
         /\ \A i \in DOMAIN log :
              log[i] \in Batches /\ log[i].from \in Nat /\ log[i].to \in Nat
         /\ \A r \in late :
              /\ r.batch \in Batches /\ r.batch.from \in Nat /\ r.batch.to \in Nat
              /\ r.batch.marker \in BOOLEAN /\ r.id \in Nat
         /\ head \in Nat /\ written \in Nat
<1>1. \A b \in Batches : b.from \in Nat /\ b.to \in Nat /\ b.marker \in BOOLEAN
  BY DEF Batches
<1>2. \A i \in DOMAIN log : log[i] \in Batches
  BY DEF TypeOK
<1>3. \A r \in late : r.batch \in Batches /\ r.id \in Nat
  BY DEF TypeOK
<1>4. batch \in Batches /\ head \in Nat /\ written \in Nat
  BY DEF TypeOK
<1> QED BY <1>1, <1>2, <1>3, <1>4

(***************************************************************************)
(* Appending to the log.                                                   *)
(***************************************************************************)

LEMMA Appending ==
  ASSUME log \in Seq(Batches), NEW b \in Batches, log' = Append(log, b)
  PROVE  /\ log' \in Seq(Batches)
         /\ DOMAIN log' = DOMAIN log \cup {Len(log) + 1}
         /\ \A i \in DOMAIN log : log'[i] = log[i]
         /\ log'[Len(log) + 1] = b
         /\ \A i \in DOMAIN log : i \in Nat /\ i < Len(log) + 1
OBVIOUS

\* What may go on without a marker may still do so.
LEMMA ContinuesStays ==
  ASSUME log \in Seq(Batches), NEW b \in Batches, log' = Append(log, b),
         NEW from, Continues(from)
  PROVE  Continues(from)'
<1>1. CASE from = 0
  BY <1>1 DEF Continues
<1>2. CASE \E j \in DOMAIN log : log[j].to = from
  BY <1>2, Appending DEF Continues
<1> QED BY <1>1, <1>2 DEF Continues

\* A batch that is disjoint from the others, and whose gap is marked, may be
\* appended.
LEMMA LogGrows ==
  ASSUME log \in Seq(Batches), NEW b \in Batches, log' = Append(log, b),
         b.from <= b.to, \A i \in DOMAIN log : log[i].from <= log[i].to,
         \A i \in DOMAIN log : Disjoint(log[i], b),
         ~b.marker => Continues(b.from),
         NoDuplicates, NoSilentGap
  PROVE  NoDuplicates' /\ NoSilentGap'
<1> DEFINE n == Len(log) + 1
<1>1. /\ DOMAIN log' = DOMAIN log \cup {n}
      /\ \A i \in DOMAIN log : log'[i] = log[i]
      /\ log'[n] = b
      /\ \A i \in DOMAIN log : i < n
  BY Appending
<1> HIDE DEF n
<1>2. NoDuplicates'
  <2> SUFFICES ASSUME NEW i \in DOMAIN log', NEW j \in DOMAIN log', i # j
               PROVE  log'[i].to <= log'[j].from \/ log'[j].to <= log'[i].from
    BY DEF NoDuplicates
  <2>1. CASE i \in DOMAIN log /\ j \in DOMAIN log
    BY <2>1, <1>1 DEF NoDuplicates
  <2>2. CASE i = n /\ j \in DOMAIN log
    BY <2>2, <1>1 DEF Disjoint
  <2>3. CASE j = n /\ i \in DOMAIN log
    BY <2>3, <1>1 DEF Disjoint
  <2> QED BY <2>1, <2>2, <2>3, <1>1
<1>3. NoSilentGap'
  <2> SUFFICES ASSUME NEW i \in DOMAIN log', ~log'[i].marker, log'[i].from # 0
               PROVE  \E j \in DOMAIN log' : j < i /\ log'[j].to = log'[i].from
    BY DEF NoSilentGap
  <2>1. CASE i \in DOMAIN log
    BY <2>1, <1>1 DEF NoSilentGap
  <2>2. CASE i = n
    BY <2>2, <1>1 DEF Continues
  <2> QED BY <2>1, <2>2, <1>1
<1> QED BY <1>2, <1>3

\* What is settled stays so.
LEMMA SettledStays ==
  ASSUME log \in Seq(Batches), NEW r \in Batches, log' = Append(log, r),
         NEW b, Settled(b)
  PROVE  Settled(b)'
<1>1. \A i \in DOMAIN log : i \in DOMAIN log' /\ log'[i] = log[i]
  BY Appending
<1> QED BY <1>1 DEF Settled, Delivery!Appended

LEMMA SettledSame ==
  ASSUME UNCHANGED log, NEW b
  PROVE  Settled(b)' <=> Settled(b)
BY DEF Settled, Delivery!Appended

\* Nothing that only appends to the log can lose sight of a byte.
LEMMA AccountKept ==
  ASSUME Closing, Accounted, Flushed,
         UNCHANGED <<pc, batch, final, head, closing, dropped, failing>>,
         \A b : Settled(b) => Settled(b)'
  PROVE  Closing' /\ Accounted' /\ Flushed'
<1>1. Closing'
  BY DEF Closing
<1>2. Accounted'
  BY DEF Accounted
<1>3. Flushed'
  BY DEF Flushed
<1> QED BY <1>1, <1>2, <1>3

(***************************************************************************)
(* The steps.                                                              *)
(***************************************************************************)

LEMMA WriteStep ==
  ASSUME IInv, NEW n \in Chunks, Write(n)
  PROVE  IInv'
<1>1. n \in Nat /\ head \in Nat /\ written \in Nat /\ MaxBytes \in Nat /\ n > 0 /\ head <= written
  BY ForwarderAssumption DEF IInv, TypeOK
<1>2. /\ written' = written + n
      /\ UNCHANGED <<stop, closing, pc, batch, final, request, failing, told, available, late, log, faults>>
      /\ pc # "done"
  BY DEF Write, sender, daemon
<1>3. /\ head' \in Nat /\ head <= head' /\ head' <= written'
      /\ written' - head' <= MaxBytes
      /\ dropped' \in BOOLEAN
      /\ dropped => dropped'
      /\ head' # head => dropped'
  <2> DEFINE full == written + n - head > MaxBytes
  <2>1. /\ head' = IF full THEN written + n - MaxBytes ELSE head
        /\ dropped' = (dropped \/ n >= MaxBytes \/ full)
    BY DEF Write, Queue
  <2>2. written - head <= MaxBytes
    BY DEF IInv, QueueBounded
  <2>3. head' \in Nat /\ head <= head' /\ head' <= written' /\ written' - head' <= MaxBytes
    BY <1>1, <1>2, <2>1, <2>2
  <2>4. dropped' \in BOOLEAN /\ (dropped => dropped') /\ (head' # head => dropped')
    <3> HIDE DEF full
    <3> QED BY <2>1, Zenon
  <2> QED BY <2>3, <2>4
<1>4. TypeOK'
  BY <1>1, <1>2, <1>3 DEF IInv, TypeOK
<1>5. QueueBounded' /\ ToldOnce' /\ NoDuplicates'
  BY <1>2, <1>3 DEF IInv, QueueBounded, ToldOnce, NoDuplicates
<1>6. Posting'
  <2>1. pc = "posting" => batch.from <= batch.to /\ batch.to <= head'
    BY <1>3, BatchTypes DEF IInv, Posting
  <2> QED BY <1>2, <2>1 DEF IInv, Posting
<1>7. Behind'
  BY <1>1, <1>2, <1>3, BatchTypes DEF IInv, Behind, Disjoint
<1>8. Marked' /\ NoSilentGap'
  BY <1>2, <1>3 DEF IInv, Marked, Continues, NoSilentGap
<1>9. Closing' /\ Accounted' /\ Flushed'
  <2>1. \A b : Settled(b)' <=> Settled(b)
    BY <1>2, SettledSame
  <2>2. Accounted'
    <3>1. CASE pc = "posting"
      BY <1>2, <2>1, <3>1 DEF IInv, Accounted
    <3>2. CASE pc # "posting"
      <4>1. head' = head \/ dropped'
        BY <1>3
      <4> QED BY <1>2, <1>3, <2>1, <3>2, <4>1 DEF IInv, Accounted
    <3> QED BY <3>1, <3>2
  <2>3. Closing' /\ Flushed'
    BY <1>2 DEF IInv, Closing, Flushed
  <2> QED BY <2>2, <2>3
<1> QED BY <1>4, <1>5, <1>6, <1>7, <1>8, <1>9 DEF IInv

LEMMA CloseStep ==
  ASSUME IInv, Close
  PROVE  IInv'
<1>1. /\ ~stop /\ stop' /\ stop' \in BOOLEAN /\ closing' = written
      /\ UNCHANGED <<written, head, dropped, pc, batch, final, request, failing, told, available, late, log, faults>>
  BY DEF Close, queue, sender, daemon
<1>2. TypeOK'
  BY <1>1 DEF IInv, TypeOK
<1>3. QueueBounded' /\ ToldOnce' /\ NoDuplicates'
  BY <1>1 DEF IInv, QueueBounded, ToldOnce, NoDuplicates
<1>4. Posting' /\ Behind'
  BY <1>1 DEF IInv, Posting, Behind, Disjoint
<1>5. Marked' /\ NoSilentGap'
  BY <1>1 DEF IInv, Marked, Continues, NoSilentGap
<1>6. Closing' /\ Accounted' /\ Flushed'
  <2>1. ~final /\ pc # "done"
    BY <1>1 DEF IInv, Posting
  <2>2. \A b : Settled(b)' <=> Settled(b)
    BY <1>1, SettledSame
  <2> QED BY <1>1, <2>1, <2>2 DEF IInv, Closing, Accounted, Flushed
<1> QED BY <1>2, <1>3, <1>4, <1>5, <1>6 DEF IInv

\* The batch is taken from the queue, or there is nothing to send.
LEMMA SendStep ==
  ASSUME IInv, NEW f \in BOOLEAN, pc = "waiting", f => stop, Send(f),
         UNCHANGED <<stop, closing, failing, told, daemon, faults>>
  PROVE  IInv'
<1>1. UNCHANGED <<stop, closing, failing, told, available, late, log, faults>>
  BY DEF daemon
<1>2. /\ head \in Nat /\ written \in Nat /\ head <= written /\ closing <= written
      /\ written - head <= MaxBytes /\ MaxBytes \in Nat /\ dropped \in BOOLEAN
      /\ ~dropped => Continues(head)
      /\ request = "none" /\ ~final
  BY ForwarderAssumption DEF IInv, TypeOK, QueueBounded, Marked, Posting
<1>3. CASE Pending
  <2>1. /\ batch' = Batch(dropped, head, written)
        /\ head' = written /\ dropped' = FALSE /\ pc' = "posting" /\ final' = f
        /\ request' = "sent" /\ written' = written
    BY <1>3 DEF Send
  <2>2. /\ batch' \in Batches
        /\ batch'.from = head /\ batch'.to = written /\ batch'.marker = dropped
    BY <2>1, <1>2 DEF Batch, Batches
  <2>3. final' \in BOOLEAN
    BY <2>1, Zenon
  <2>4. TypeOK'
    <3>1. head' \in 0..written' /\ closing' \in 0..written' /\ written' \in Nat
      BY <1>1, <1>2, <2>1 DEF IInv, TypeOK
    <3>2. /\ stop' \in BOOLEAN /\ failing' \in BOOLEAN /\ told' \in BOOLEAN
          /\ available' \in BOOLEAN /\ late' \subseteq [id : Nat, batch : Batches]
          /\ log' \in Seq(Batches) /\ faults' \in 0..MaxFaults
      BY <1>1 DEF IInv, TypeOK
    <3> QED BY <2>1, <2>2, <2>3, <3>1, <3>2 DEF TypeOK
  <2>5. QueueBounded' /\ ToldOnce' /\ NoDuplicates'
    BY <1>1, <1>2, <2>1, <2>2, ForwarderAssumption DEF IInv, QueueBounded, ToldOnce, NoDuplicates
  <2>6. Posting'
    BY <1>1, <1>2, <2>1, <2>2 DEF IInv, Posting
  <2>7. Behind'
    BY <1>1, <1>2, <2>1, <2>2, BatchTypes DEF IInv, Behind, Disjoint
  <2>8. Marked' /\ NoSilentGap'
    BY <1>1, <1>2, <2>1, <2>2 DEF IInv, Marked, Continues, NoSilentGap
  <2>9. Closing' /\ Accounted' /\ Flushed'
    <3>1. \A b : Settled(b)' <=> Settled(b)
      BY <1>1, SettledSame
    <3>2. ASSUME NEW b \in 0..(batch'.to - 1)
          PROVE  Settled(b)' \/ batch'.marker \/ batch'.from <= b
      <4>1. CASE b < head
        <5>1. Settled(b) \/ dropped
          BY <1>2, <4>1 DEF IInv, Accounted
        <5> QED BY <2>2, <3>1, <5>1
      <4>2. CASE head <= b
        BY <2>2, <4>2
      <4> QED BY <1>2, <2>2, <4>1, <4>2
    <3>3. Accounted'
      BY <2>1, <3>2 DEF Accounted
    <3>4. Closing' /\ Flushed'
      BY <1>1, <1>2, <2>1, <2>2 DEF Closing, Flushed
    <3> QED BY <3>3, <3>4
  <2> QED BY <2>4, <2>5, <2>6, <2>7, <2>8, <2>9 DEF IInv
<1>4. CASE ~Pending
  <2>1. /\ batch' = NoBatch /\ final' = FALSE /\ request' = "none"
        /\ pc' = IF f THEN "done" ELSE "waiting"
        /\ UNCHANGED <<written, head, dropped>>
    BY <1>4 DEF Send, Return, queue
  <2>2. NoBatch \in Batches /\ NoBatch.from = 0 /\ NoBatch.to = 0
    BY DEF NoBatch, Batch, Batches
  <2>3. head = written /\ Continues(head)
    BY <1>2, <1>4 DEF Pending
  <2>4. TypeOK'
    BY <1>1, <2>1, <2>2 DEF IInv, TypeOK
  <2>5. QueueBounded' /\ ToldOnce' /\ NoDuplicates'
    BY <1>1, <1>2, <2>1, <2>2 DEF IInv, QueueBounded, ToldOnce, NoDuplicates
  <2>6. Posting' /\ Behind'
    BY <1>1, <1>2, <2>1 DEF IInv, Posting, Behind, Disjoint
  <2>7. Marked' /\ NoSilentGap'
    BY <1>1, <1>2, <2>1 DEF IInv, Marked, Continues, NoSilentGap
  <2>8. Closing' /\ Accounted' /\ Flushed'
    <3>1. \A b : Settled(b)' <=> Settled(b)
      BY <1>1, SettledSame
    <3>2. \A b \in 0..(head - 1) : Settled(b)
      BY <1>4 DEF IInv, Accounted, Pending
    <3>3. Accounted'
      BY <2>1, <3>1, <3>2 DEF Accounted
    <3>4. \A b \in 0..(closing - 1) : b \in 0..(head - 1)
      BY <1>2, <2>3 DEF IInv, TypeOK
    <3>5. Closing' /\ Flushed'
      BY <1>1, <2>1, <3>1, <3>2, <3>4 DEF Closing, Flushed
    <3> QED BY <3>3, <3>5
  <2> QED BY <2>4, <2>5, <2>6, <2>7, <2>8 DEF IInv
<1> QED BY <1>3, <1>4

LEMMA SucceedStep ==
  ASSUME IInv, Succeed
  PROVE  IInv'
<1>1. /\ pc = "posting" /\ request = "appended"
      /\ batch' = NoBatch /\ final' = FALSE /\ request' = "none"
      /\ pc' = IF final THEN "done" ELSE "waiting"
      /\ UNCHANGED <<written, head, dropped, stop, closing, available, late, log, faults>>
  BY DEF Succeed, Return, queue, daemon
<1>2. failing' = FALSE /\ told' = FALSE
  BY DEF Succeed, IInv, ToldOnce
<1>3. NoBatch \in Batches /\ NoBatch.from = 0 /\ NoBatch.to = 0
  BY DEF NoBatch, Batch, Batches
<1>4. TypeOK'
  BY <1>1, <1>2, <1>3 DEF IInv, TypeOK
<1>5. QueueBounded' /\ ToldOnce' /\ NoDuplicates'
  <2>1. QueueBounded'
    BY <1>1, <1>3, ForwarderAssumption DEF IInv, QueueBounded
  <2>2. ToldOnce'
    BY <1>2 DEF ToldOnce
  <2>3. NoDuplicates'
    BY <1>1 DEF IInv, NoDuplicates
  <2> QED BY <2>1, <2>2, <2>3
<1>6. Posting' /\ Behind'
  BY <1>1 DEF IInv, Posting, Behind, Disjoint
<1>7. Marked' /\ NoSilentGap'
  BY <1>1 DEF IInv, Marked, Continues, NoSilentGap
<1>8. Closing' /\ Accounted' /\ Flushed'
  <2>1. PICK i \in DOMAIN log : log[i] = batch
    BY <1>1 DEF IInv, Marked
  <2>2. \A b : Settled(b)' <=> Settled(b)
    BY <1>1, SettledSame
  <2>3. ASSUME NEW b \in 0..(batch.to - 1) PROVE Settled(b)
    <3>1. b \in Nat /\ b < batch.to /\ batch.from \in Nat
      BY BatchTypes DEF IInv
    <3>2. Settled(b) \/ batch.marker \/ batch.from <= b
      BY <1>1 DEF IInv, Accounted
    <3>3. CASE batch.from <= b
      BY <2>1, <3>1, <3>3 DEF Settled, Delivery!Appended
    <3>4. CASE batch.marker /\ b < batch.from
      BY <2>1, <3>4 DEF Settled
    <3> QED BY <3>1, <3>2, <3>3, <3>4
  <2>4. Accounted'
    <3>1. head = batch.to \/ dropped
      BY <1>1 DEF IInv, Marked
    <3> QED BY <1>1, <2>2, <2>3, <3>1 DEF Accounted
  <2>5. Flushed'
    <3>1. CASE final
      <4>1. \A b \in 0..(closing - 1) : b \in 0..(batch.to - 1)
        BY <3>1, BatchTypes DEF IInv, TypeOK, Closing
      <4> QED BY <1>1, <2>2, <2>3, <4>1 DEF Flushed
    <3>2. CASE ~final
      BY <1>1, <3>2 DEF Flushed
    <3> QED BY <3>1, <3>2
  <2> QED BY <1>1, <2>4, <2>5 DEF Closing
<1> QED BY <1>4, <1>5, <1>6, <1>7, <1>8 DEF IInv

\* Whatever becomes of a batch that the sender has given up on.
LEMMA FailStep ==
  ASSUME IInv, Refused \/ TimedOut
  PROVE  IInv'
<1>1. /\ pc = "posting"
      /\ dropped' = TRUE
      /\ batch' = NoBatch /\ final' = FALSE /\ request' = "none"
      /\ pc' = IF final THEN "done" ELSE "waiting"
      /\ UNCHANGED <<written, head, stop, closing, available, log>>
  BY DEF Refused, TimedOut, Fail, Return, daemon
<1>2. failing' = TRUE /\ told' = TRUE
  BY DEF Refused, TimedOut, Fail, IInv, ToldOnce
<1>3. NoBatch \in Batches /\ NoBatch.from = 0 /\ NoBatch.to = 0
  BY DEF NoBatch, Batch, Batches
<1>4. \/ UNCHANGED <<late, faults>>
      \/ /\ faults < MaxFaults /\ faults' = faults + 1
         /\ late' = late
      \/ /\ faults < MaxFaults /\ faults' = faults + 1
         /\ request = "accepted"
         /\ late' = late \cup {[id |-> faults, batch |-> batch]}
  BY DEF Refused, TimedOut, daemon
<1>5. TypeOK'
  <2>1. /\ written' \in Nat /\ head' \in 0..written' /\ closing' \in 0..written'
        /\ stop' \in BOOLEAN /\ available' \in BOOLEAN /\ log' \in Seq(Batches)
    BY <1>1 DEF IInv, TypeOK
  <2>2. faults' \in 0..MaxFaults /\ late' \subseteq [id : Nat, batch : Batches]
    BY <1>4, ForwarderAssumption DEF IInv, TypeOK
  <2> QED BY <1>1, <1>2, <1>3, <2>1, <2>2 DEF TypeOK
<1>6. QueueBounded' /\ ToldOnce' /\ NoDuplicates' /\ NoSilentGap'
  BY <1>1, <1>2, <1>3, ForwarderAssumption
     DEF IInv, QueueBounded, ToldOnce, NoDuplicates, NoSilentGap
<1>7. Posting'
  BY <1>1 DEF IInv, Posting
<1>8. Behind'
  <2>1. CASE late' = late
    BY <1>1, <1>4, <2>1, BatchTypes DEF IInv, TypeOK, Behind, Disjoint
  <2>2. CASE late' # late
    <3> DEFINE new == [id |-> faults, batch |-> batch]
    <3>1. /\ new.id = faults /\ new.batch = batch
          /\ late' = late \cup {new} /\ faults' = faults + 1 /\ faults \in Nat
          /\ request = "accepted"
      BY <1>4, <2>2, ForwarderAssumption DEF IInv, TypeOK
    <3> HIDE DEF new
    <3> QED BY <1>1, <3>1, BatchTypes DEF IInv, Posting, Behind, Disjoint
  <2> QED BY <2>1, <2>2
<1>9. Marked'
  <2>1. \A r \in late' : r \in late \/ r.batch = batch
    BY <1>4
  <2> QED BY <1>1, <2>1 DEF IInv, Marked, Continues
<1>10. Closing' /\ Accounted' /\ Flushed'
  BY <1>1, <1>2 DEF Closing, Accounted, Flushed
<1> QED BY <1>5, <1>6, <1>7, <1>8, <1>9, <1>10 DEF IInv

\* The daemon appends the batch whose sender waits.
LEMMA AppendBatchStep ==
  ASSUME IInv, AppendBatch
  PROVE  IInv'
<1>1. /\ request = "accepted" /\ request' = "appended"
      /\ log' = Append(log, batch)
      /\ pc = "posting"
      /\ UNCHANGED <<written, head, dropped, stop, closing, pc, batch, final, failing, told,
                     available, late, faults>>
  BY DEF AppendBatch, queue, IInv, Posting
<1>2. /\ batch \in Batches /\ log \in Seq(Batches)
      /\ batch.from <= batch.to /\ batch.to <= head
      /\ \A i \in DOMAIN log : log[i].from <= log[i].to /\ log[i].to <= head
      /\ \A i \in DOMAIN log : Disjoint(log[i], batch)
      /\ \A r \in late : r.batch.to <= batch.from
  BY <1>1 DEF IInv, TypeOK, Posting, Behind
<1>3. /\ log' \in Seq(Batches)
      /\ DOMAIN log' = DOMAIN log \cup {Len(log) + 1}
      /\ \A i \in DOMAIN log : log'[i] = log[i]
      /\ log'[Len(log) + 1] = batch
  BY <1>1, <1>2, Appending
<1>4. \A from : Continues(from) => Continues(from)'
  BY <1>1, <1>2, ContinuesStays
<1>5. NoDuplicates' /\ NoSilentGap'
  BY <1>1, <1>2, LogGrows DEF IInv, Marked
<1>6. TypeOK' /\ QueueBounded' /\ ToldOnce' /\ Posting'
  BY <1>1, <1>3 DEF IInv, TypeOK, QueueBounded, ToldOnce, Posting
<1>7. Behind'
  BY <1>1, <1>2, <1>3, BatchTypes DEF IInv, Behind, Disjoint
<1>8. Marked'
  <2>1. \E i \in DOMAIN log' : log'[i] = batch
    BY <1>3
  <2>2. ~dropped => head = batch.to
    BY <1>1 DEF IInv, Marked
  <2>3. pc = "posting" /\ ~batch.marker => Continues(batch.from)'
    BY <1>4, <1>1 DEF IInv, Marked
  <2>4. \A r \in late : ~r.batch.marker => Continues(r.batch.from)'
    BY <1>4, <1>1 DEF IInv, Marked
  <2> QED BY <1>1, <2>1, <2>2, <2>3, <2>4 DEF Marked, Continues
<1>9. Closing' /\ Accounted' /\ Flushed'
  <2>1. \A b : Settled(b) => Settled(b)'
    BY <1>1, <1>2, SettledStays
  <2> QED BY <1>1, <2>1, AccountKept DEF IInv
<1> QED BY <1>5, <1>6, <1>7, <1>8, <1>9 DEF IInv

\* ... or one that the sender has given up on.
LEMMA AppendLateStep ==
  ASSUME IInv, NEW r \in late, AppendLate(r)
  PROVE  IInv'
<1> DEFINE b == r.batch
<1>1. /\ log' = Append(log, b) /\ late' = late \ {r}
      /\ UNCHANGED <<written, head, dropped, stop, closing, pc, batch, final, request, failing,
                     told, available, faults>>
  BY DEF AppendLate, queue, sender
<1>2. /\ b \in Batches /\ log \in Seq(Batches)
      /\ b.from <= b.to /\ b.to <= head
      /\ pc = "posting" => b.to <= batch.from
      /\ \A i \in DOMAIN log : log[i].from <= log[i].to /\ log[i].to <= head
      /\ \A i \in DOMAIN log : Disjoint(log[i], b)
      /\ \A s \in late : s # r => Disjoint(b, s.batch)
      /\ ~b.marker => Continues(b.from)
  BY BatchTypes DEF IInv, TypeOK, Behind, Marked
<1> HIDE DEF b
<1>3. /\ log' \in Seq(Batches)
      /\ DOMAIN log' = DOMAIN log \cup {Len(log) + 1}
      /\ \A i \in DOMAIN log : log'[i] = log[i]
      /\ log'[Len(log) + 1] = b
  BY <1>1, <1>2, Appending
<1>4. \A from : Continues(from) => Continues(from)'
  BY <1>1, <1>2, ContinuesStays
<1>5. NoDuplicates' /\ NoSilentGap'
  BY <1>1, <1>2, LogGrows DEF IInv
<1>6. TypeOK' /\ QueueBounded' /\ ToldOnce' /\ Posting'
  BY <1>1, <1>3 DEF IInv, TypeOK, QueueBounded, ToldOnce, Posting
<1>7. Behind'
  <2>1. \A i \in DOMAIN log' : log'[i].from <= log'[i].to /\ log'[i].to <= head
    BY <1>2, <1>3
  <2>2. pc = "posting" /\ request \in {"sent", "accepted"}
          => \A i \in DOMAIN log' : Disjoint(log'[i], batch)
    BY <1>2, <1>3 DEF IInv, Behind, Disjoint
  <2>3. \A s \in late' : \A i \in DOMAIN log' : Disjoint(log'[i], s.batch)
    BY <1>1, <1>2, <1>3 DEF IInv, Behind
  <2> QED BY <1>1, <2>1, <2>2, <2>3 DEF IInv, Behind, Disjoint
<1>8. Marked'
  <2>1. request = "appended" => \E i \in DOMAIN log' : log'[i] = batch
    BY <1>3 DEF IInv, Marked
  <2>2. ~dropped => IF pc = "posting" THEN head = batch.to ELSE Continues(head)'
    BY <1>1, <1>4 DEF IInv, Marked
  <2>3. pc = "posting" /\ ~batch.marker => Continues(batch.from)'
    BY <1>4, <1>1 DEF IInv, Marked
  <2>4. \A s \in late' : ~s.batch.marker => Continues(s.batch.from)'
    BY <1>4, <1>1 DEF IInv, Marked
  <2> QED BY <1>1, <2>1, <2>2, <2>3, <2>4 DEF Marked, Continues
<1>9. Closing' /\ Accounted' /\ Flushed'
  <2>1. \A c : Settled(c) => Settled(c)'
    BY <1>1, <1>2, SettledStays
  <2> QED BY <1>1, <2>1, AccountKept DEF IInv
<1> QED BY <1>5, <1>6, <1>7, <1>8, <1>9 DEF IInv

\* A request travels, or the daemon comes and goes.
LEMMA EnvironmentStep ==
  ASSUME IInv, Accept \/ Outage \/ Death \/ Recover
  PROVE  IInv'
<1>1. /\ UNCHANGED <<written, head, dropped, stop, closing, pc, batch, final, failing, told, log>>
      /\ available' \in BOOLEAN
      /\ late' \subseteq late
      /\ faults' \in 0..MaxFaults /\ faults' >= faults
  <2>1. faults \in 0..MaxFaults /\ MaxFaults \in Nat /\ available \in BOOLEAN
    BY ForwarderAssumption DEF IInv, TypeOK
  <2>2. CASE Accept
    BY <2>1, <2>2 DEF Accept, queue, daemon
  <2>3. CASE Outage \/ Death
    <3>1. /\ UNCHANGED <<queue, stop, closing, pc, batch, final, failing, told, log>>
          /\ available' = FALSE /\ late' \in {late, {}}
          /\ faults < MaxFaults /\ faults' = faults + 1
      BY <2>3 DEF Outage, Death, sender
    <3>2. faults' \in 0..MaxFaults /\ faults' >= faults
      BY <2>1, <3>1
    <3> QED BY <3>1, <3>2 DEF queue
  <2>4. CASE Recover
    BY <2>1, <2>4 DEF Recover, queue, sender
  <2> QED BY <2>2, <2>3, <2>4
<1>2. /\ request' \in {"none", "sent", "accepted", "appended", "lost"}
      /\ request = "none" <=> request' = "none"
      /\ request' = "appended" => request = "appended"
      /\ request' \in {"sent", "accepted"} => request \in {"sent", "accepted"}
  BY DEF Accept, Outage, Death, Recover, queue, sender, daemon, IInv, TypeOK
<1>3. TypeOK'
  BY <1>1, <1>2 DEF IInv, TypeOK
<1>4. QueueBounded' /\ ToldOnce' /\ NoDuplicates' /\ NoSilentGap'
  BY <1>1 DEF IInv, QueueBounded, ToldOnce, NoDuplicates, NoSilentGap
<1>5. Posting'
  BY <1>1, <1>2 DEF IInv, Posting
<1>6. Behind'
  <2>1. \A r \in late' : r.id < faults'
    BY <1>1, BatchTypes DEF IInv, TypeOK, Behind
  <2> QED BY <1>1, <1>2, <2>1 DEF IInv, Behind, Disjoint
<1>7. Marked'
  BY <1>1, <1>2 DEF IInv, Marked, Continues
<1>8. Closing' /\ Accounted' /\ Flushed'
  <2>1. \A b : Settled(b)' <=> Settled(b)
    BY <1>1, SettledSame
  <2> QED BY <1>1, <2>1, AccountKept DEF IInv
<1> QED BY <1>3, <1>4, <1>5, <1>6, <1>7, <1>8 DEF IInv

LEMMA Step == IInv /\ [Next]_vars => IInv'
<1> SUFFICES ASSUME IInv, [Next]_vars PROVE IInv'
  OBVIOUS
<1>1. ASSUME NEW n \in Chunks, Write(n) PROVE IInv'
  BY <1>1, WriteStep
<1>2. CASE Close
  BY <1>2, CloseStep
<1>3. CASE Tick
  BY <1>3, SendStep DEF Tick
<1>4. CASE Stopped
  BY <1>4, SendStep DEF Stopped
<1>5. CASE Succeed
  BY <1>5, SucceedStep
<1>6. CASE Refused \/ TimedOut
  BY <1>6, FailStep
<1>7. CASE AppendBatch
  BY <1>7, AppendBatchStep
<1>8. ASSUME NEW r \in late, AppendLate(r) PROVE IInv'
  BY <1>8, AppendLateStep
<1>9. CASE Accept \/ Outage \/ Death \/ Recover
  BY <1>9, EnvironmentStep
<1>10. CASE UNCHANGED vars
  <2> USE <1>10 DEF vars, queue, sender, daemon
  <2>1. TypeOK' /\ QueueBounded' /\ ToldOnce' /\ Posting'
    BY DEF IInv, TypeOK, QueueBounded, ToldOnce, Posting
  <2>2. Behind' /\ NoDuplicates'
    BY DEF IInv, Behind, Disjoint, NoDuplicates
  <2>3. Marked' /\ NoSilentGap'
    BY DEF IInv, Marked, Continues, NoSilentGap
  <2>4. Closing' /\ Accounted' /\ Flushed'
    <3>1. \A b : Settled(b)' <=> Settled(b)
      BY SettledSame
    <3> QED BY <3>1, AccountKept DEF IInv
  <2> QED BY <2>1, <2>2, <2>3, <2>4 DEF IInv
<1> QED BY <1>1, <1>2, <1>3, <1>4, <1>5, <1>6, <1>7, <1>8, <1>9, <1>10 DEF Next

\* The invariant that the theorems below are read off from.
THEOREM Inductive == Spec => []IInv
<1>1. Init => IInv
  BY InitIInv
<1>2. IInv /\ [Next]_vars => IInv'
  BY Step
<1> QED BY <1>1, <1>2, PTL DEF Spec

\* logForwarder's state stays well formed.
THEOREM TypeCorrect == Spec => []TypeOK
BY Inductive, PTL DEF IInv

\* logForwarder.Write: however far the daemon is behind, the queue never holds
\* more than MaxBytes bytes, nor does a batch.
THEOREM MemoryBounded == Spec => []QueueBounded
BY Inductive, PTL DEF IInv

\* send: output that does not follow what the daemon has appended is marked,
\* whatever was dropped, refused, lost or came late.
THEOREM GapsMarked == Spec => []NoSilentGap
BY Inductive, PTL DEF IInv

\* send: no byte of the program is appended twice.
THEOREM NothingRepeated == Spec => []NoDuplicates
BY Inductive, PTL DEF IInv

\* A set of numbers has a least one.
LEMMA Least ==
  ASSUME NEW T \in SUBSET Nat, T # {}
  PROVE  \E x \in T : \A y \in T : x <= y
<1> DEFINE I(x) == 0..x
           F == {I(x) : x \in T}
           R == StrictSubsetOrdering(Nat)
<1>1. F \subseteq FiniteSubsetsOf(Nat)
  <2>1. ASSUME NEW x \in T PROVE IsFiniteSet(I(x)) /\ I(x) \subseteq Nat
    BY FS_Interval
  <2> QED BY <2>1 DEF FiniteSubsetsOf
<1>2. F # {}
  OBVIOUS
<1>3. PICK s \in F : \A t \in F : <<t, s>> \notin R
  <2> HIDE DEF F, R
  <2>1. IsWellFoundedOn(R, FiniteSubsetsOf(Nat))
    BY FS_StrictSubsetOrderingWellFounded DEF R
  <2> QED BY <1>1, <1>2, <2>1, WFMin
<1>4. PICK x \in T : s = I(x)
  OBVIOUS
<1>5. ASSUME NEW y \in T, y < x PROVE FALSE
  <2>1. I(y) \subseteq I(x) /\ I(y) # I(x) /\ I(x) \subseteq Nat
    BY <1>5
  <2>2. <<I(y), I(x)>> \in R
    BY <2>1 DEF StrictSubsetOrdering
  <2> QED BY <1>3, <1>4, <2>2
<1> QED BY <1>5

\* If some marker stands behind a byte that is not in the log, then one does where
\* output goes on behind that byte: of the batches that begin nearest to it, the
\* one that was appended first cannot do without.
LEMMA SettledIsTold ==
  ASSUME IInv, NEW b \in Nat, Settled(b)
  PROVE  Delivery!Appended(b) \/ Delivery!Announced(b)
<1> SUFFICES ASSUME ~Delivery!Appended(b) PROVE Delivery!Announced(b)
  OBVIOUS
<1> DEFINE Beyond == {i \in DOMAIN log : b < log[i].from}
           Starts == {log[i].from : i \in Beyond}
<1>1. /\ \A i \in DOMAIN log : log[i].from \in Nat /\ log[i].to \in Nat /\ i \in Nat
      /\ \A i \in DOMAIN log : log[i].from <= log[i].to
      /\ \A i \in DOMAIN log : log[i].to <= b \/ b < log[i].from
  <2>1. \A i \in DOMAIN log : i \in Nat
    BY DEF IInv, TypeOK
  <2>2. \A i \in DOMAIN log : ~(log[i].from <= b /\ b < log[i].to)
    BY DEF Delivery!Appended
  <2> QED BY <2>1, <2>2, BatchTypes DEF IInv, Behind
<1>2. Beyond # {}
  BY DEF Settled
<1>3. PICK m \in Starts : \A n \in Starts : m <= n
  <2>1. Starts \in SUBSET Nat /\ Starts # {}
    BY <1>1, <1>2
  <2> HIDE DEF Starts
  <2> QED BY <2>1, Least
<1> DEFINE Nearest == {i \in Beyond : log[i].from = m}
<1>4. PICK i \in Nearest : \A j \in Nearest : i <= j
  <2>1. Nearest \in SUBSET Nat /\ Nearest # {}
    BY <1>1, <1>3
  <2> HIDE DEF Nearest
  <2> QED BY <2>1, Least
<1>5. i \in DOMAIN log /\ log[i].from = m /\ b < m /\ m \in Nat /\ i \in Nat
  BY <1>1, <1>4
<1>6. \A j \in DOMAIN log : log[j].to <= b \/ m <= log[j].from
  BY <1>1, <1>3
<1>7. log[i].marker
  <2> SUFFICES ASSUME ~log[i].marker PROVE FALSE
    OBVIOUS
  <2>1. PICK j \in DOMAIN log : j < i /\ log[j].to = m
    BY <1>5 DEF IInv, NoSilentGap
  <2>2. log[j].from = m
    BY <1>1, <1>5, <1>6, <2>1
  <2>3. j \in Nearest
    BY <1>5, <2>2
  <2> QED BY <1>1, <1>4, <1>5, <2>1, <2>3
<1> QED BY <1>5, <1>6, <1>7 DEF Delivery!Announced

LEMMA CloseIsTold == IInv => FlushedOnClose
<1> SUFFICES ASSUME IInv, pc = "done", ~failing
             PROVE  Delivery!Complete
  BY DEF FlushedOnClose
<1>1. \A b \in 0..(closing - 1) : Settled(b) /\ b \in Nat
  BY DEF IInv, Flushed, TypeOK
<1> QED BY <1>1, SettledIsTold DEF Delivery!Complete

\* Close: when it has returned, each byte written before it is in the log, or the
\* output that follows it there is marked, or the last send failed.
THEOREM CloseFlushes == Spec => []FlushedOnClose
BY Inductive, CloseIsTold, PTL

\* warn: failures and recoveries are reported in turn.
THEOREM ReportsAlternate == Spec => []ToldOnce
BY Inductive, PTL DEF IInv

(***************************************************************************)
(* The forwarder implements LogDelivery.                                   *)
(***************************************************************************)

\* A batch that the sender has given up on fitted the queue it was taken from.
LateFits == \A r \in late : r.batch.to - r.batch.from <= MaxBytes

LEMMA LateFitsStep ==
  ASSUME IInv, LateFits, [Next]_vars
  PROVE  LateFits'
<1>1. CASE late' \subseteq late
  BY <1>1 DEF LateFits
<1>2. CASE TimedOut
  <2>1. \A r \in late' : r \in late \/ r.batch = batch
    BY <1>2 DEF TimedOut
  <2>2. batch.to - batch.from <= MaxBytes
    BY DEF IInv, QueueBounded
  <2> QED BY <2>1, <2>2 DEF LateFits
<1>3. CASE ~TimedOut /\ (Next \/ UNCHANGED vars)
  <2>1. late' \subseteq late
    BY <1>3 DEF Next, Write, Close, Tick, Stopped, Succeed, Refused, Accept, AppendBatch,
                AppendLate, Outage, Death, Recover, vars, daemon
  <2> QED BY <2>1, <1>1
<1> QED BY <1>2, <1>3

LEMMA DeliveryInit == Init => Delivery!Init
<1> SUFFICES ASSUME Init PROVE Delivery!Init
  OBVIOUS
<1>1. told \in BOOLEAN
  BY Zenon DEF Init
<1> QED BY <1>1 DEF Init, Delivery!Init

\* What the daemon appends is new, and marked unless it goes on where other
\* output ends.
LEMMA Delivers ==
  ASSUME IInv, NEW b \in Batches, log' = Append(log, b),
         b.from <= b.to, b.to <= head, b.to - b.from <= MaxBytes,
         \A i \in DOMAIN log : Disjoint(log[i], b),
         ~b.marker => Continues(b.from),
         UNCHANGED <<written, closing, pc, stop, told>>
  PROVE  Delivery!Deliver
<1>1. /\ b.from \in 0..written /\ b.to \in 0..written /\ b.marker \in BOOLEAN
      /\ b = [marker |-> b.marker, from |-> b.from, to |-> b.to]
  BY DEF IInv, TypeOK, Batches
<1>2. Delivery!Fresh(b.from, b.to)
  BY <1>1, BatchTypes DEF IInv, Disjoint, Delivery!Fresh
<1>3. b.marker \/ Delivery!Continues(b.from)
  BY DEF Continues, Delivery!Continues
<1>4. log' = Append(log, [marker |-> b.marker, from |-> b.from, to |-> b.to])
  BY <1>1
<1> QED BY <1>1, <1>2, <1>3, <1>4 DEF Delivery!Deliver

\* A send has ended.  The caller is told, if that is news, and Close returns
\* if it was the last.
LEMMA Ends ==
  ASSUME IInv, pc = "posting", pc' = IF final THEN "done" ELSE "waiting",
         UNCHANGED <<written, closing, stop, log>>, told' \in BOOLEAN,
         told /\ ~told' => log # <<>>,
         final => Delivery!Complete \/ told'
  PROVE  Delivery!Report \/ Delivery!Return
<1>1. Delivery!Tell
  BY DEF Delivery!Tell
<1>2. CASE final
  <2>1. stop /\ pc' = "done"
    BY <1>2 DEF IInv, Posting
  <2> QED BY <1>1, <1>2, <2>1 DEF Delivery!Return
<1>3. CASE ~final
  <2>1. pc' = "waiting"
    BY <1>3
  <2> QED BY <1>1, <2>1 DEF Delivery!Report
<1> QED BY <1>2, <1>3

\* Close returns, and nothing is lost from sight that was not before.
LEMMA Completes ==
  ASSUME IInv', pc' = "done", UNCHANGED <<closing, log>>
  PROVE  Delivery!Complete \/ told'
<1>1. FlushedOnClose'
  BY CloseIsTold, PTL
<1>2. told' = failing'
  BY DEF IInv, ToldOnce
<1>3. Delivery!Complete' => Delivery!Complete
  BY DEF Delivery!Complete, Delivery!Appended, Delivery!Announced
<1> QED BY <1>1, <1>2, <1>3 DEF FlushedOnClose

LEMMA DeliveryStep ==
  ASSUME IInv, LateFits, [Next]_vars
  PROVE  [Delivery!Next]_(Delivery!vars)
<1> DEFINE Stutter == UNCHANGED <<pc, stop, written, closing, told, log>>
<1>1. ASSUME Stutter PROVE UNCHANGED Delivery!vars
  BY <1>1 DEF Delivery!vars
<1>2. ASSUME NEW n \in Chunks, Write(n) PROVE Delivery!Write
  BY <1>2 DEF Write, Delivery!Write, sender, daemon
<1>3. ASSUME Close PROVE Delivery!Close
  <2>1. ~stop /\ stop' = TRUE /\ closing' = written /\ pc # "done"
    BY <1>3 DEF Close, IInv, Posting
  <2> QED BY <1>3, <2>1 DEF Close, Delivery!Close, queue, sender, daemon
<1>4. ASSUME Tick PROVE \/ Stutter
                        \/ /\ pc = "waiting" /\ pc' = "posting"
                           /\ UNCHANGED <<stop, written, closing, told, log>>
  BY <1>4 DEF Tick, Send, Return, queue, daemon
<1>5. ASSUME Stopped PROVE \/ Delivery!Return
                           \/ /\ pc = "waiting" /\ pc' = "posting"
                              /\ UNCHANGED <<stop, written, closing, told, log>>
  <2>1. /\ pc = "waiting" /\ stop = TRUE
        /\ UNCHANGED <<stop, closing, told, log, written>>
    BY <1>5 DEF Stopped, Send, queue, daemon, IInv, TypeOK
  <2>2. CASE Pending
    BY <1>5, <2>1, <2>2 DEF Stopped, Send
  <2>3. CASE ~Pending
    <3>1. pc' = "done" /\ UNCHANGED <<written, head, dropped>>
      BY <1>5, <2>3 DEF Stopped, Send, Return, queue
    <3>2. IInv'
      BY <1>5, Step DEF Next
    <3>3. Delivery!Complete \/ told'
      BY <2>1, <3>1, <3>2, Completes
    <3>4. Delivery!Tell
      BY <2>1 DEF Delivery!Tell, IInv, TypeOK
    <3> QED BY <2>1, <3>1, <3>3, <3>4 DEF Delivery!Return
  <2> QED BY <2>2, <2>3
<1>6. ASSUME Succeed PROVE Delivery!Report \/ Delivery!Return
  <2>1. /\ pc = "posting" /\ request = "appended"
        /\ pc' = IF final THEN "done" ELSE "waiting"
        /\ UNCHANGED <<written, closing, stop, log>>
    BY <1>6 DEF Succeed, Return, queue, daemon
  <2>2. told' = FALSE
    BY <1>6 DEF Succeed, IInv, ToldOnce
  <2>3. PICK i \in DOMAIN log : log[i] = batch
    BY <2>1 DEF IInv, Marked
  <2>4. log # <<>>
    BY <2>3
  <2>5. final => Delivery!Complete \/ told'
    BY <1>6, <2>1, SucceedStep, Completes
  <2> QED BY <2>1, <2>2, <2>4, <2>5, Ends
<1>7. ASSUME Refused \/ TimedOut PROVE Delivery!Report \/ Delivery!Return
  <2>1. /\ pc = "posting" /\ pc' = IF final THEN "done" ELSE "waiting"
        /\ UNCHANGED <<written, closing, stop, log>>
    BY <1>7 DEF Refused, TimedOut, Fail, Return, daemon
  <2>2. told' = TRUE
    BY <1>7 DEF Refused, TimedOut, Fail, IInv, ToldOnce
  <2> QED BY <2>1, <2>2, Ends
<1>8. ASSUME AppendBatch PROVE Delivery!Deliver
  <2>1. /\ log' = Append(log, batch) /\ request = "accepted"
        /\ UNCHANGED <<written, closing, pc, stop, told>>
    BY <1>8 DEF AppendBatch, queue
  <2>2. /\ batch \in Batches /\ batch.from <= batch.to /\ batch.to <= head
        /\ batch.to - batch.from <= MaxBytes
        /\ \A i \in DOMAIN log : Disjoint(log[i], batch)
        /\ ~batch.marker => Continues(batch.from)
    BY <2>1 DEF IInv, TypeOK, QueueBounded, Posting, Behind, Marked
  <2> QED BY <2>1, <2>2, Delivers
<1>9. ASSUME NEW r \in late, AppendLate(r) PROVE Delivery!Deliver
  <2>1. /\ log' = Append(log, r.batch)
        /\ UNCHANGED <<written, closing, pc, stop, told>>
    BY <1>9 DEF AppendLate, queue, sender
  <2>2. /\ r.batch \in Batches /\ r.batch.from <= r.batch.to /\ r.batch.to <= head
        /\ r.batch.to - r.batch.from <= MaxBytes
        /\ \A i \in DOMAIN log : Disjoint(log[i], r.batch)
        /\ ~r.batch.marker => Continues(r.batch.from)
    BY BatchTypes DEF IInv, Behind, Marked, LateFits
  <2> QED BY <2>1, <2>2, Delivers
<1>10. ASSUME Accept \/ Outage \/ Death \/ Recover \/ UNCHANGED vars PROVE Stutter
  BY <1>10 DEF Accept, Outage, Death, Recover, vars, queue, sender, daemon
<1>11. ASSUME pc = "waiting", pc' = "posting", UNCHANGED <<stop, written, closing, told, log>>
       PROVE  UNCHANGED Delivery!vars
  BY <1>11 DEF Delivery!vars
<1> HIDE DEF Stutter
<1> QED
  BY <1>1, <1>2, <1>3, <1>4, <1>5, <1>6, <1>7, <1>8, <1>9, <1>10, <1>11
     DEF Next, Delivery!Next

\* logForwarder: whatever becomes of the daemon, output is appended at most once,
\* gaps are marked, failures and recoveries are told, and Close returns with each
\* byte written before it appended, or announced as omitted by a marker, or with the
\* caller told that forwarding fails.
THEOREM ForwarderImplementsDelivery == Spec => ImplementsDelivery
<1>1. Init => LateFits
  BY DEF Init, LateFits
<1>2. IInv /\ LateFits /\ [Next]_vars => LateFits'
  BY LateFitsStep
<1>3. IInv /\ LateFits /\ [Next]_vars => [Delivery!Next]_(Delivery!vars)
  BY DeliveryStep
<1> QED
  BY <1>1, <1>2, <1>3, DeliveryInit, Inductive, PTL
     DEF Spec, Delivery!Spec, ImplementsDelivery

=============================================================================
