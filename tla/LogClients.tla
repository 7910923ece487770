----------------------------- MODULE LogClients ------------------------------
(***************************************************************************)
(* What two readers of a service's output make of it: the page of the      *)
(* dashboard, whose script keeps a text of its own and cuts it like the    *)
(* daemon does; and `localapp logcat`, which prints the last lines of the  *)
(* window first, and with -f whatever comes after.                         *)
(*                                                                         *)
(* LogStream has the store and the way of the events.  Here a client reads *)
(* the store and shows what it read in one step: one that lags does so     *)
(* later.  A page that reconnects resumes where it was, which is the same. *)
(***************************************************************************)
EXTENDS LogStream, TextLines

CONSTANTS
  Pages,   \* pages of the dashboard that show a service
  Cats,    \* logcat -f commands
  Watched, \* the service that both show
  Tails    \* the values of -n

ASSUME ClientsAssumption == Watched \in Services /\ Tails \subseteq Nat

VARIABLES
  page, \* of each page [pc, pos, text, epoch, pure]: the text begins with
        \* bytes of the entry `epoch`, and if it is pure has no others (it has
        \* when an old offset fell into a new window)
  cat   \* of each logcat its [pc], or [pc, pos, shown, printed]: the bytes
        \* <<epoch, offset>> that it printed, and how many it printed

viewers == <<page, cat>>

Off == [pc |-> "off"]

ClientInit ==
  /\ Init
  /\ page = [p \in Pages |->
               [pc |-> "paused", pos |-> 0, text |-> Empty, epoch |-> 0, pure |-> TRUE]]
  /\ cat = [c \in Cats |-> Off]

(***************************************************************************)
(* Texts.                                                                  *)
(***************************************************************************)

Retained == IF Watched \in DOMAIN entries THEN entries[Watched] ELSE Empty

\* The text of an event: the bytes of the entry from ev.from on.
Sent(ev) ==
  [start |-> ev.from, end |-> ev.to, newlines |-> {n \in Retained.newlines : n >= ev.from}]

\* As something to append.
More(ev) ==
  [len |-> ev.to - ev.from, newlines |-> {n - ev.from + 1 : n \in Sent(ev).newlines}]

\* Mutant: the line break at the end counts as a separator.
TailLinesSeparator(b, n) ==
  LET Before(i) == {m \in b.newlines : m < i}
      At[k \in 0..n] ==
        IF k = 0 THEN b.end
        ELSE IF At[k - 1] <= b.start THEN At[k - 1]
        ELSE IF Before(At[k - 1]) = {} THEN b.start - 1
        ELSE CHOOSE m \in Before(At[k - 1]) : \A j \in Before(At[k - 1]) : j <= m
  IN  IF n = 0 \/ Size(b) = 0 THEN b.start ELSE At[n] + 1

\* tailLines: go back n line breaks from the end, or from the line break that
\* ends the text; if there are not as many, it is all of it.  The loop ends
\* at the first byte, be it a line break or not.
TailLines(b, n) ==
  LET Before(i) == {m \in b.newlines : m < i}
      At[k \in 0..n] ==
        IF k = 0 THEN IF b.end - 1 \in b.newlines THEN b.end - 1 ELSE b.end
        ELSE IF At[k - 1] <= b.start THEN At[k - 1]
        ELSE IF Before(At[k - 1]) = {} THEN b.start - 1
        ELSE CHOOSE m \in Before(At[k - 1]) : \A j \in Before(At[k - 1]) : j <= m
  IN  IF n = 0 \/ Size(b) = 0 THEN b.start ELSE At[n] + 1

\* Mutant: the page counts the empty piece behind the last line break.
PageLineCutShort(b) ==
  LET excess == Cardinality(b.newlines) + 1 - MaxLines
  IN  IF excess <= 0
      THEN b.start
      ELSE CHOOSE c \in {n + 1 : n \in b.newlines} :
             Cardinality({n \in b.newlines : n < c}) = excess

\* The page splits the text at the line breaks and keeps MaxLines + 1 pieces:
\* with a partial line at the end this is a line more than the daemon keeps.
PageLineCut(b) ==
  LET excess == Cardinality(b.newlines) - MaxLines
  IN  IF excess <= 0
      THEN b.start
      ELSE CHOOSE c \in {n + 1 : n \in b.newlines} :
             Cardinality({n \in b.newlines : n < c}) = excess

\* Its limit in bytes is the daemon's.
PageTrim(b) ==
  LET byLines == CutAt(b, PageLineCut(b))
  IN  IF Size(byLines) > MaxBytes THEN CutAt(b, ByteCut(byLines)) ELSE byLines

(***************************************************************************)
(* The page.                                                               *)
(***************************************************************************)

\* connect(): a new EventSource, without a Last-Event-ID.
Resume(p) ==
  /\ page[p].pc = "paused"
  /\ Watched \in registered
  /\ page' = [page EXCEPT ![p].pc = "connecting", ![p].pos = 0]
  /\ UNCHANGED <<vars, cat>>

\* The button, or the service is gone.
Pause(p) ==
  /\ page[p].pc # "paused"
  /\ page' = [page EXCEPT ![p].pc = "paused"]
  /\ UNCHANGED <<vars, cat>>

\* apply(event, replace): the text is cut whether it is replaced or appended.
\* A page at offset 0 shows nothing yet, and so is a page of any entry.
Apply(p) ==
  LET g       == page[p]
      ev      == ReadFrom(Watched, g.pos)
      replace == ev.kind = "reset" \/ g.pc = "connecting"
  IN  /\ g.pc # "paused"
      /\ replace \/ ev.from < ev.to
      /\ page' = [page EXCEPT ![p] =
                    [pc    |-> "live",
                     pos   |-> ev.to,
                     text  |-> PageTrim(IF replace THEN Sent(ev)
                                        ELSE Extended(g.text, More(ev))),
                     epoch |-> IF replace \/ g.pos = 0 THEN ev.epoch ELSE g.epoch,
                     pure  |-> replace \/ (g.pure /\ (g.epoch = ev.epoch \/ g.pos = 0))]]
      /\ UNCHANGED <<vars, cat>>

(***************************************************************************)
(* logcat -f.                                                              *)
(***************************************************************************)

Bytes(epoch, from, to) == {<<epoch, o>> : o \in from..(to - 1)}

\* The last n lines of the first event.
Follow(c, n) ==
  LET ev    == ReadFrom(Watched, 0)
      bytes == Bytes(ev.epoch, TailLines(Sent([ev EXCEPT !.from = Retained.start]), n), ev.to)
  IN  /\ cat[c].pc = "off"
      /\ Watched \in registered
      /\ cat' = [cat EXCEPT ![c] = [pc |-> "following", pos |-> ev.to, shown |-> bytes,
                                    printed |-> Cardinality(bytes)]]
      /\ UNCHANGED <<vars, page>>

\* Mutant: it asks for the window again when it was woken.
ShowAgain(c) ==
  LET ev    == ReadFrom(Watched, 0)
      bytes == Bytes(ev.epoch, Retained.start, ev.to)
  IN  /\ cat[c].pc = "following"
      /\ ev.to # cat[c].pos
      /\ cat' = [cat EXCEPT ![c].pos = ev.to, ![c].shown = @ \cup bytes,
                            ![c].printed = @ + Cardinality(bytes)]
      /\ UNCHANGED <<vars, page>>

\* "reset" is printed like "append".
Show(c) ==
  LET ev    == ReadFrom(Watched, cat[c].pos)
      bytes == Bytes(ev.epoch, ev.from, ev.to)
  IN  /\ cat[c].pc = "following"
      /\ ev.kind = "reset" \/ ev.from < ev.to
      /\ cat' = [cat EXCEPT ![c].pos = ev.to, ![c].shown = @ \cup bytes,
                            ![c].printed = @ + Cardinality(bytes)]
      /\ UNCHANGED <<vars, page>>

\* Interrupted, or the service is gone.
Quit(c) ==
  /\ cat[c].pc = "following"
  /\ cat' = [cat EXCEPT ![c] = Off]
  /\ UNCHANGED <<vars, page>>

(***************************************************************************)
(* With the store.  When the daemon restarts, the stream of logcat ends.   *)
(***************************************************************************)
ClientNext ==
  \/ Step /\ UNCHANGED viewers
  \/ Restart /\ cat' = [c \in Cats |-> Off] /\ UNCHANGED page
  \/ \E p \in Pages : Resume(p) \/ Pause(p) \/ Apply(p)
  \/ \E c \in Cats : (\E n \in Tails : Follow(c, n)) \/ Show(c) \/ Quit(c)

ClientSpec == ClientInit /\ [][ClientNext]_<<vars, viewers>>

(***************************************************************************)
(* Properties.                                                             *)
(***************************************************************************)

\* A page that is up to date shows all that the daemon keeps, whatever it
\* missed while it lagged or was paused and although each cuts its own text at
\* its own times; unless it continued the text of another entry (the finding of
\* LogStream).  Only if what the daemon keeps is exactly as long as the limit in
\* bytes may the page lack its first line: the page, which keeps a line more,
\* had to cut where the daemon had not.  And in complete lines and in bytes it is
\* never past the daemon's limits.  (The comment in the script says so of all that
\* it holds.  Nothing is said here of a partial line at the end, which the page
\* keeps besides MaxLines complete ones.)
PageMirrors ==
  \A p \in Pages :
    LET g == page[p]
        upToDate == /\ Watched \in DOMAIN entries /\ g.pure
                    /\ g.epoch = Retained.epoch /\ g.pos = Retained.end
        lacksFirstLine == /\ g.text.start - 1 \in Retained.newlines
                          /\ \A n \in Retained.newlines : g.text.start - 1 <= n
    IN  /\ Cardinality(g.text.newlines) <= MaxLines /\ Size(g.text) <= MaxBytes
        /\ upToDate => \/ g.text.start <= Retained.start
                       \/ Size(Retained) = MaxBytes /\ lacksFirstLine

\* What logcat prints of any window begins at its last n lines, except that
\* the loop of tailLines takes a blank line at the very beginning for the
\* text's beginning.
TailExact ==
  \A k \in DOMAIN entries, n \in Tails :
    \/ TailLines(entries[k], n) = LastLines(entries[k], n)
    \/ entries[k].start \in entries[k].newlines

\* logcat -f prints resets like appends, and yet no byte is printed twice: what
\* is sent again was never sent, because a reset begins behind what was read
\* or is of a later entry.
PrintedOnce ==
  \A c \in Cats : cat[c].pc = "following" => Cardinality(cat[c].shown) = cat[c].printed

=============================================================================
