----------------------------- MODULE LogStream ------------------------------
(***************************************************************************)
(* logstream.Store, the handlers that append to it and that stream from it *)
(* (Server.serveLogs and ServeSSE) and the readers at the other end.       *)
(*                                                                         *)
(* A stream subscribes, reads what follows the offset its reader resumes   *)
(* from, and then reads again each time its one-slot channel wakes it.     *)
(* Appends, evictions, the removal of a service, a broken connection and a *)
(* restart of the daemon come between any two of these steps.              *)
(*                                                                         *)
(* `epoch`, in entries, events and views, is not in the code: it tells     *)
(* apart the successive entries of one service, whose offsets all begin at *)
(* zero.  `last` records when a service last appended, evicted or not.     *)
(***************************************************************************)
EXTENDS LogBuffer, Sequences

CONSTANTS
  Services,    \* the keys app/service
  Readers,     \* the readers that follow one
  Follows,     \* which
  MaxServices, \* the entries kept
  WireCap,     \* bound: events a connection holds before a write blocks
  MaxPosts,    \* bound: services whose batches are being received at a time
  MaxAppends,  \* bound: appends in one life of the daemon
  MaxFaults    \* bound: restarts, broken connections and removals together

ASSUME StreamAssumption ==
  /\ Follows \in [Readers -> Services]
  /\ MaxServices \in Nat \ {0}
  /\ MaxPosts \in Nat /\ MaxAppends \in Nat /\ MaxFaults \in Nat
  /\ WireCap \in Nat \ {0}

VARIABLES
  registered, \* the services in the registry
  accepted,   \* the services a log batch has been accepted for (see Post)
  entries,    \* Store.entries
  clock,      \* Store.clock
  subs,       \* Store.subs: the streams subscribed to each service
  wake,       \* of each stream, whether its channel holds a signal
  pc,         \* where each stream is
  offset,     \* its offset
  hand,       \* the event it is about to write
  wire,       \* the events written and not received
  conn,       \* of each reader: "off", "on", or "done" for good
  lastId,     \* the id of the last event it received
  view,       \* what it shows
  epochs,     \* entries ever created
  last,       \* when each service last appended, 0 for never
  faults      \* faults so far

store == <<entries, clock, epochs, last>>
streams == <<pc, offset, hand>>
clients == <<wire, conn, lastId, view>>
vars == <<registered, accepted, store, subs, wake, streams, clients, faults>>

(***************************************************************************)
(* Events and views.  A view is the bytes from..to of one epoch, unless a  *)
(* stream made the reader splice two epochs (spliced) or leave bytes of    *)
(* one epoch out (gap).                                                    *)
(***************************************************************************)

Event(kind, epoch, from, to) == [kind |-> kind, epoch |-> epoch, from |-> from, to |-> to]

NoEvent == Event("none", 0, 0, 0)

NoView == [epoch |-> 0, from |-> 0, to |-> 0, spliced |-> FALSE, gap |-> FALSE]

Replaced(ev) ==
  [epoch |-> ev.epoch, from |-> ev.from, to |-> ev.to, spliced |-> FALSE, gap |-> FALSE]

Appended(v, ev) ==
  IF ev.from = ev.to THEN v
  ELSE IF v.epoch = ev.epoch
    THEN [v EXCEPT !.to = ev.to, !.gap = @ \/ ev.from # v.to]
    ELSE [Replaced(ev) EXCEPT !.spliced = v.from # v.to]

Shown(v, ev) ==
  CASE ev.kind = "reset"  -> Replaced(ev)
    [] ev.kind = "append" -> Appended(v, ev)
    [] OTHER              -> v

Init ==
  /\ registered = Services
  /\ accepted = {}
  /\ entries = [k \in {} |-> Empty]
  /\ clock = 0
  /\ subs = [k \in Services |-> {}]
  /\ wake = [r \in Readers |-> FALSE]
  /\ pc = [r \in Readers |-> "idle"]
  /\ offset = [r \in Readers |-> 0]
  /\ hand = [r \in Readers |-> NoEvent]
  /\ wire = [r \in Readers |-> <<>>]
  /\ conn = [r \in Readers |-> "off"]
  /\ lastId = [r \in Readers |-> 0]
  /\ view = [r \in Readers |-> NoView]
  /\ epochs = 0
  /\ last = [k \in Services |-> 0]
  /\ faults = 0

(***************************************************************************)
(* Appending: serveLogs checks that the service is registered, reads the   *)
(* body, and appends.                                                      *)
(***************************************************************************)

Post(k) ==
  /\ k \in registered
  /\ Cardinality(accepted) < MaxPosts
  /\ accepted' = accepted \cup {k}
  /\ UNCHANGED <<registered, store, subs, wake, streams, clients, faults>>

\* The body is no log batch: 400, and nothing is appended.
BadBatch(k) ==
  /\ k \in accepted
  /\ accepted' = accepted \ {k}
  /\ UNCHANGED <<registered, store, subs, wake, streams, clients, faults>>

NewEntry == [start |-> 0, end |-> 0, newlines |-> {}, used |-> 0, epoch |-> epochs + 1]

\* The least recently used entry makes room for a new one.
Oldest == {k \in DOMAIN entries : \A j \in DOMAIN entries : entries[k].used <= entries[j].used}

Evicted(k) ==
  IF k \notin DOMAIN entries /\ Cardinality(DOMAIN entries) >= MaxServices
  THEN Oldest
  ELSE {}

\* Mutant: an entry is as recent as its creation.
StoredFifo(k, text) ==
  LET e == IF k \in DOMAIN entries THEN entries[k] ELSE [NewEntry EXCEPT !.used = clock + 1]
  IN  Trim(Extended(e, text))

Stored(k, text) ==
  LET e == IF k \in DOMAIN entries THEN entries[k] ELSE NewEntry
  IN  [Trim(Extended(e, text)) EXCEPT !.used = clock + 1]

AppendLogs(k, text) ==
  /\ k \in accepted
  /\ clock < MaxAppends
  /\ accepted' = accepted \ {k}
  /\ entries' = [j \in (DOMAIN entries \ Evicted(k)) \cup {k} |->
                   IF j = k THEN Stored(k, text) ELSE entries[j]]
  /\ clock' = clock + 1
  /\ epochs' = IF k \in DOMAIN entries THEN epochs ELSE epochs + 1
  /\ last' = [last EXCEPT ![k] = clock + 1]
  /\ wake' = [r \in Readers |-> wake[r] \/ r \in subs[k]]
  /\ UNCHANGED <<registered, subs, streams, clients, faults>>

(***************************************************************************)
(* ReadFrom: what was appended since offset o, or the whole window.        *)
(***************************************************************************)

\* Mutant: an offset outside of the window is not reported as such.
ReadFromNoReset(k, o) ==
  IF k \notin DOMAIN entries
  THEN Event("append", 0, 0, 0)
  ELSE LET e == entries[k]
       IN  Event("append", e.epoch, IF Outside(e, o) THEN e.start ELSE o, e.end)

ReadFrom(k, o) ==
  IF k \notin DOMAIN entries
  THEN Event(IF o # 0 THEN "reset" ELSE "append", 0, 0, 0)
  ELSE LET e == entries[k]
       IN  IF Outside(e, o)
           THEN Event("reset", e.epoch, e.start, e.end)
           ELSE Event("append", e.epoch, o, e.end)

(***************************************************************************)
(* A stream, from the request to the end of ServeSSE.                      *)
(***************************************************************************)

\* A reader connects, or connects again with the id of the last event it has
\* (Last-Event-ID).  A service that is not registered answers 404, which ends
\* the reader for good.
Connect(r) ==
  /\ conn[r] = "off"
  /\ pc[r] = "idle"
  /\ IF Follows[r] \in registered
     THEN /\ conn' = [conn EXCEPT ![r] = "on"]
          /\ pc' = [pc EXCEPT ![r] = "accepted"]
          /\ offset' = [offset EXCEPT ![r] = lastId[r]]
     ELSE /\ conn' = [conn EXCEPT ![r] = "done"]
          /\ UNCHANGED <<pc, offset>>
  /\ UNCHANGED <<registered, accepted, store, subs, wake, hand, wire, lastId, view, faults>>

Subscribe(r) ==
  /\ pc[r] = "accepted"
  /\ pc' = [pc EXCEPT ![r] = "subscribed"]
  /\ subs' = [subs EXCEPT ![Follows[r]] = @ \cup {r}]
  /\ wake' = [wake EXCEPT ![r] = FALSE]
  /\ UNCHANGED <<registered, accepted, store, offset, hand, clients, faults>>

Prepare(r, ev) ==
  /\ hand' = [hand EXCEPT ![r] = ev]
  /\ pc' = [pc EXCEPT ![r] = "writing"]
  /\ UNCHANGED offset

\* The first event always resets a reader that has nothing.
FirstRead(r) ==
  /\ pc[r] = "subscribed"
  /\ LET ev == ReadFrom(Follows[r], offset[r])
     IN  Prepare(r, IF offset[r] = 0 THEN [ev EXCEPT !.kind = "reset"] ELSE ev)
  /\ UNCHANGED <<registered, accepted, store, subs, wake, clients, faults>>

\* Mutant: signals that came in while the event was written are dropped.
WriteDrains(r) ==
  /\ pc[r] = "writing"
  /\ conn[r] = "on"
  /\ Len(wire[r]) < WireCap
  /\ wire' = [wire EXCEPT ![r] = Append(@, hand[r])]
  /\ offset' = [offset EXCEPT ![r] = hand[r].to]
  /\ hand' = [hand EXCEPT ![r] = NoEvent]
  /\ pc' = [pc EXCEPT ![r] = IF hand[r].kind = "gone" THEN "leaving" ELSE "waiting"]
  /\ wake' = [wake EXCEPT ![r] = FALSE]
  /\ UNCHANGED <<registered, accepted, store, subs, conn, lastId, view, faults>>

\* A write blocks while the connection takes nothing more.
Write(r) ==
  /\ pc[r] = "writing"
  /\ conn[r] = "on"
  /\ Len(wire[r]) < WireCap
  /\ wire' = [wire EXCEPT ![r] = Append(@, hand[r])]
  /\ offset' = [offset EXCEPT ![r] = hand[r].to]
  /\ hand' = [hand EXCEPT ![r] = NoEvent]
  /\ pc' = [pc EXCEPT ![r] = IF hand[r].kind = "gone" THEN "leaving" ELSE "waiting"]
  /\ UNCHANGED <<registered, accepted, store, subs, wake, conn, lastId, view, faults>>

Woken(r) ==
  /\ pc[r] = "waiting"
  /\ wake[r]
  /\ wake' = [wake EXCEPT ![r] = FALSE]
  /\ pc' = [pc EXCEPT ![r] = "woken"]
  /\ UNCHANGED <<registered, accepted, store, subs, offset, hand, clients, faults>>

Reread(r) ==
  /\ pc[r] = "woken"
  /\ LET ev == ReadFrom(Follows[r], offset[r])
     IN  IF ev.from = ev.to /\ ev.kind = "append"
         THEN pc' = [pc EXCEPT ![r] = "waiting"] /\ UNCHANGED <<offset, hand>>
         ELSE Prepare(r, ev)
  /\ UNCHANGED <<registered, accepted, store, subs, wake, clients, faults>>

\* Mutant: the stream lives as long as any service does.
KeepAliveAnyService(r) ==
  /\ pc[r] = "waiting"
  /\ registered = {}
  /\ Prepare(r, Event("gone", 0, offset[r], offset[r]))
  /\ UNCHANGED <<registered, accepted, store, subs, wake, clients, faults>>

\* The keep-alive ticker finds that the service is gone.  When it is there the
\* tick writes a comment, which changes nothing.
KeepAliveGone(r) ==
  /\ pc[r] = "waiting"
  /\ Follows[r] \notin registered
  /\ Prepare(r, Event("gone", 0, offset[r], offset[r]))
  /\ UNCHANGED <<registered, accepted, store, subs, wake, clients, faults>>

\* The request's context has ended, or the write fails.
Hangup(r) ==
  /\ conn[r] # "on"
  /\ pc[r] \in {"writing", "waiting"}
  /\ pc' = [pc EXCEPT ![r] = "leaving"]
  /\ hand' = [hand EXCEPT ![r] = NoEvent]
  /\ UNCHANGED <<registered, accepted, store, subs, wake, offset, clients, faults>>

\* Mutant: the subscription is not cancelled.
UnsubscribeLeaks(r) ==
  /\ pc[r] = "leaving"
  /\ pc' = [pc EXCEPT ![r] = "idle"]
  /\ wake' = [wake EXCEPT ![r] = FALSE]
  /\ offset' = [offset EXCEPT ![r] = 0]
  /\ UNCHANGED <<registered, accepted, store, subs, hand, clients, faults>>

\* The deferred cancel.
Unsubscribe(r) ==
  /\ pc[r] = "leaving"
  /\ subs' = [subs EXCEPT ![Follows[r]] = @ \ {r}]
  /\ pc' = [pc EXCEPT ![r] = "idle"]
  /\ wake' = [wake EXCEPT ![r] = FALSE]
  /\ offset' = [offset EXCEPT ![r] = 0]
  /\ UNCHANGED <<registered, accepted, store, hand, clients, faults>>

\* The reader receives an event; "gone" makes it close the connection.
Receive(r) ==
  /\ conn[r] = "on"
  /\ wire[r] # <<>>
  /\ LET ev == Head(wire[r])
     IN  /\ view' = [view EXCEPT ![r] = Shown(@, ev)]
         /\ lastId' = [lastId EXCEPT ![r] = ev.to]
         /\ conn' = [conn EXCEPT ![r] = IF ev.kind = "gone" THEN "done" ELSE "on"]
  /\ wire' = [wire EXCEPT ![r] = Tail(@)]
  /\ UNCHANGED <<registered, accepted, store, subs, wake, streams, faults>>

(***************************************************************************)
(* The environment.                                                        *)
(***************************************************************************)

Fault == faults < MaxFaults /\ faults' = faults + 1

\* What was written and not received is lost.
Break(r) ==
  /\ Fault
  /\ conn[r] = "on"
  /\ conn' = [conn EXCEPT ![r] = "off"]
  /\ wire' = [wire EXCEPT ![r] = <<>>]
  /\ UNCHANGED <<registered, accepted, store, subs, wake, streams, lastId, view>>

\* Everything in memory is lost; the registry is not.
Restart ==
  /\ Fault
  /\ accepted' = {}
  /\ entries' = [k \in {} |-> Empty]
  /\ clock' = 0
  /\ last' = [k \in Services |-> 0]
  /\ subs' = [k \in Services |-> {}]
  /\ wake' = [r \in Readers |-> FALSE]
  /\ pc' = [r \in Readers |-> "idle"]
  /\ offset' = [r \in Readers |-> 0]
  /\ hand' = [r \in Readers |-> NoEvent]
  /\ wire' = [r \in Readers |-> <<>>]
  /\ conn' = [r \in Readers |-> IF conn[r] = "done" THEN "done" ELSE "off"]
  /\ UNCHANGED <<registered, lastId, view, epochs>>

Remove(k) ==
  /\ Fault
  /\ k \in registered
  /\ registered' = registered \ {k}
  /\ UNCHANGED <<accepted, store, subs, wake, streams, clients>>

Register(k) ==
  /\ k \notin registered
  /\ registered' = registered \cup {k}
  /\ UNCHANGED <<accepted, store, subs, wake, streams, clients, faults>>

Stream(r) ==
  \/ Subscribe(r) \/ FirstRead(r) \/ Write(r) \/ Woken(r) \/ Reread(r)
  \/ KeepAliveGone(r) \/ Hangup(r) \/ Unsubscribe(r)

Step ==
  \/ \E k \in Services :
       \/ Post(k) \/ BadBatch(k) \/ Remove(k) \/ Register(k)
       \/ \E text \in Texts : AppendLogs(k, text)
  \/ \E r \in Readers : Connect(r) \/ Stream(r) \/ Receive(r) \/ Break(r)

Next == Step \/ Restart

Spec == Init /\ [][Next]_vars

(***************************************************************************)
(* A stream that can take a step takes it, a reader reads what arrives and *)
(* reconnects when its connection broke (EventSource does).  The ticker is *)
(* served although wakes compete with it, since select chooses at random.  *)
(* Nothing makes a service write logs, or the environment behave.          *)
(***************************************************************************)
Fairness == \A r \in Readers :
  /\ WF_vars(Stream(r))
  /\ SF_vars(KeepAliveGone(r))
  /\ WF_vars(Receive(r))
  /\ WF_vars(Connect(r))

FairSpec == Spec /\ Fairness

(***************************************************************************)
(* Properties.                                                             *)
(***************************************************************************)

PCs == {"idle", "accepted", "subscribed", "writing", "waiting", "woken", "leaving"}

Entries == [start : Nat, end : Nat, newlines : SUBSET Nat, used : Nat, epoch : Nat]

Events == [kind : {"none", "reset", "append", "gone"}, epoch : Nat, from : Nat, to : Nat]

Views == [epoch : Nat, from : Nat, to : Nat, spliced : BOOLEAN, gap : BOOLEAN]

TypeOK ==
  /\ registered \subseteq Services
  /\ accepted \subseteq Services
  /\ DOMAIN entries \subseteq Services
  /\ \A k \in DOMAIN entries : entries[k] \in Entries
  /\ clock \in 0..MaxAppends
  /\ subs \in [Services -> SUBSET Readers]
  /\ wake \in [Readers -> BOOLEAN]
  /\ pc \in [Readers -> PCs]
  /\ offset \in [Readers -> Nat]
  /\ hand \in [Readers -> Events]
  /\ wire \in [Readers -> Seq(Events)]
  /\ conn \in [Readers -> {"off", "on", "done"}]
  /\ lastId \in [Readers -> Nat]
  /\ view \in [Readers -> Views]
  /\ epochs \in Nat
  /\ last \in [Services -> 0..MaxAppends]
  /\ faults \in 0..MaxFaults

\* ServeSSE subscribes before it first reads, and sleeps only on the wake
\* channel: a stream that waits while its service has output it has not read
\* has a signal in its channel, however appends, evictions and reads fell.
NoLostWakeup ==
  \A r \in Readers :
    LET k == Follows[r]
    IN  pc[r] = "waiting" /\ k \in DOMAIN entries /\ entries[k].end # offset[r]
          => wake[r]

\* Memory is bounded whatever is appended: in services, and for each in lines
\* and in bytes.
Bounded ==
  /\ Cardinality(DOMAIN entries) <= MaxServices
  /\ \A k \in DOMAIN entries :
       Lines(entries[k]) <= MaxLines /\ Size(entries[k]) <= MaxBytes

\* "MaxServices is the number of recently active services kept in memory": an
\* eviction never takes one of the MaxServices services that appended last.
RecentlyActiveKept ==
  \A k \in Services :
    last[k] # 0 /\ Cardinality({j \in Services : last[j] > last[k]}) < MaxServices
      => k \in DOMAIN entries

\* "The byte cut moves to the next line boundary when one exists so the retained
\* text starts on a whole line": whatever comes next, a service's output is cut
\* behind a line break, unless there is none but at the very end.
CutsBehindLines ==
  \A k \in DOMAIN entries, text \in Texts :
    LET whole == Extended(entries[k], text)
        kept  == Trim(whole)
    IN  kept.start # whole.start /\ kept.start - 1 \notin whole.newlines
          => kept.newlines \subseteq {kept.end - 1}

\* What a reader shows has no hole and no repetition, however often its
\* connection broke, and reaches back to the oldest byte still retained.
Gapless ==
  \A r \in Readers :
    LET v == view[r]
        k == Follows[r]
    IN  /\ ~v.gap
        /\ ~v.spliced /\ k \in DOMAIN entries /\ entries[k].epoch = v.epoch
             => v.from <= entries[k].start

\* A stream leaves nothing behind: once it has returned, no subscription is
\* kept for it.
NoLeakedSubscription ==
  \A r \in Readers, k \in Services :
    r \in subs[k] <=> k = Follows[r] /\ pc[r] \notin {"idle", "accepted"}

\* A reader that stays connected ends up at the end of what its service
\* appended.
CatchesUp ==
  \A r \in Readers :
    <>[](conn[r] = "on" /\ Follows[r] \in DOMAIN entries
           => lastId[r] = entries[Follows[r]].end)

\* Once a service is removed for good, its streams end.
GoneEnds ==
  \A r \in Readers : <>[](Follows[r] \notin registered) => <>[](pc[r] = "idle")

\* ReadFrom: "reset is true when offset is not inside the retained window -
\* first read, output trimmed away, or a daemon restart - in which case text is
\* the whole retained window and the reader must replace, not append": a reader
\* never appends the output of one entry to that of another.
NeverSpliced == \A r \in Readers : ~view[r].spliced

=============================================================================
