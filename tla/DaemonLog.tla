------------------------------ MODULE DaemonLog ------------------------------
(***************************************************************************)
(* `localapp logs [-f]`: the last lines of the daemon's log, and then what *)
(* is appended to it, by polling.  Meanwhile the daemon writes, and the    *)
(* file is truncated, or moved away and created again.                     *)
(*                                                                         *)
(* A file is an inode, which the command opens by its path and reads by    *)
(* its descriptor.  `life` is not in the code: it tells apart what one     *)
(* inode, or several, held one after the other; `seen` is how far each     *)
(* life was printed.                                                       *)
(***************************************************************************)
EXTENDS TextLines, Sequences

CONSTANTS
  Texts,    \* what the daemon writes: [len, newlines], newlines from 1
  Tails,    \* the values of -n
  Chunk,    \* tailReadChunk
  Buffer,   \* the size of the buffer of followFile
  MaxEnd,   \* bound: the bytes of a file
  MaxFiles, \* bound: inodes
  MaxLives  \* bound: lives

ASSUME LogAssumption ==
  /\ Tails \subseteq Nat /\ Chunk \in Nat \ {0} /\ Buffer \in Nat \ {0}
  /\ \A t \in Texts : t.len \in Nat /\ t.newlines \subseteq 1..t.len
  /\ MaxEnd \in Nat /\ MaxFiles \in Nat \ {0} /\ MaxLives \in Nat \ {0}

VARIABLES
  files,  \* the contents of each inode: [life, end, newlines]
  path,   \* the inode that the path leads to, or NoFile
  log,    \* the inode that the daemon writes to
  lives,  \* lives so far
  pc,     \* where the command is
  fd,     \* the inode that it has open
  offset, \* its offset
  tail,   \* the first output, until the first poll: of what, how many lines
          \* and from where on, [lines, whole, from]
  raced,  \* the file was truncated while the first output was made
  seen,   \* of each life, how far it was printed, or Unseen
  met,    \* the lives that a poll could tell from what was printed before:
          \* it found the file shorter than that, or no file just before
  again   \* a part of a life was printed twice, or left out; or the beginning of
          \* one of `met`

environment == <<files, path, log, lives>>
output == <<tail, raced, seen, met, again>>
vars == <<environment, pc, fd, offset, output>>

NoFile == 0
Unseen == -1

Fresh(life) == [life |-> life, end |-> 0, newlines |-> {}]

NoTail == [lines |-> 0, whole |-> Fresh(1), from |-> 0]

Init ==
  /\ files = <<Fresh(1)>>
  /\ path = 1 /\ log = 1 /\ lives = 1
  /\ pc = "start" /\ fd = NoFile /\ offset = 0
  /\ tail = NoTail /\ raced = FALSE
  /\ seen = [l \in 1..MaxLives |-> Unseen]
  /\ met = {} /\ again = FALSE

(***************************************************************************)
(* The daemon and the file system.  As a bound, they stand still when the  *)
(* command has ended.                                                      *)
(***************************************************************************)

Extend(f, t) ==
  [f EXCEPT !.end = @ + t.len, !.newlines = @ \cup {f.end + i - 1 : i \in t.newlines}]

\* The log is open for appending.
DaemonWrites(t) ==
  /\ pc # "end"
  /\ files[log].end + t.len <= MaxEnd
  /\ files' = [files EXCEPT ![log] = Extend(@, t)]
  /\ UNCHANGED <<path, log, lives, pc, fd, offset, output>>

Truncate ==
  /\ pc # "end"
  /\ path # NoFile /\ lives < MaxLives
  /\ lives' = lives + 1
  /\ files' = [files EXCEPT ![path] = Fresh(lives')]
  /\ UNCHANGED <<path, log, pc, fd, offset, output>>

MoveAway ==
  /\ pc # "end"
  /\ path # NoFile
  /\ path' = NoFile
  /\ UNCHANGED <<files, log, lives, pc, fd, offset, output>>

\* The next daemon creates the log if there is none.
DaemonRestarts ==
  /\ pc # "end"
  /\ path = NoFile /\ lives < MaxLives /\ Len(files) < MaxFiles
  /\ lives' = lives + 1
  /\ files' = Append(files, Fresh(lives'))
  /\ path' = Len(files') /\ log' = path'
  /\ UNCHANGED <<pc, fd, offset, output>>

(***************************************************************************)
(* writeTail.                                                              *)
(***************************************************************************)

\* Without a file there is a message, and that is all.
OpenLog(n) ==
  /\ pc = "start" /\ path # NoFile
  /\ fd' = path
  /\ tail' = [tail EXCEPT !.lines = n]
  /\ pc' = "opened"
  /\ UNCHANGED <<environment, offset, raced, seen, met, again>>

\* The size is the end of the file by now.
SeekEnd ==
  /\ pc = "opened"
  /\ offset' = files[fd].end
  /\ tail' = [tail EXCEPT !.whole = files[fd]]
  /\ pc' = "sized"
  /\ UNCHANGED <<environment, fd, raced, seen, met, again>>

\* Mutant: the newline that ends the text counts as a separator.
LastLinesSeparator(b, n) ==
  LET breaks == b.newlines
  IN  IF n = 0 \/ Cardinality(breaks) < n THEN b.start
      ELSE 1 + CHOOSE m \in breaks : Cardinality({j \in breaks : j >= m}) = n

\* lastLines: behind the n-th newline from the end, which does not count if
\* it ends the text.
LinesFrom(b, n) ==
  LET breaks == b.newlines \ {b.end - 1}
  IN  IF n = 0 \/ Cardinality(breaks) < n THEN b.start
      ELSE 1 + CHOOSE m \in breaks : Cardinality({j \in breaks : j >= m}) = n

\* One chunk is read back at most.  What is missing by now (`raced`) is left
\* as zeros.
WriteTail ==
  LET readFrom == IF tail.lines > 0 /\ offset > Chunk THEN offset - Chunk ELSE 0
      now  == files[fd]
      text == [start |-> readFrom, end |-> offset,
               newlines |-> {n \in now.newlines : n \in readFrom..(offset - 1)}]
  IN  /\ pc = "sized"
      /\ tail' = [tail EXCEPT !.from = LinesFrom(text, tail.lines)]
      /\ raced' = (now.life # tail.whole.life)
      /\ seen' = IF raced' THEN seen ELSE [seen EXCEPT ![now.life] = offset]
      /\ pc' = "waiting"
      /\ UNCHANGED <<environment, fd, offset, met, again>>

(***************************************************************************)
(* followFile and drain.                                                   *)
(***************************************************************************)

\* A path that leads nowhere is a rotation on its way; the next life is the
\* one that the next daemon begins.
Poll ==
  /\ pc = "waiting"
  /\ IF path = NoFile
     THEN offset' = 0 /\ met' = met \cup {lives + 1} /\ UNCHANGED <<pc, fd>>
     ELSE fd' = path /\ pc' = "polled" /\ UNCHANGED <<offset, met>>
  /\ tail' = NoTail
  /\ UNCHANGED <<environment, raced, seen, again>>

Shorter == files[fd].end < offset

Meet == met' = IF Shorter THEN met \cup {files[fd].life} ELSE met

\* Mutant: what a truncated file had is waited for.
StatNever ==
  /\ pc = "polled"
  /\ Meet
  /\ pc' = "reading"
  /\ UNCHANGED <<environment, fd, offset, tail, raced, seen, again>>

\* A file that is shorter than what was read of it starts over.
Stat ==
  /\ pc = "polled"
  /\ offset' = IF Shorter THEN 0 ELSE offset
  /\ Meet
  /\ pc' = "reading"
  /\ UNCHANGED <<environment, fd, tail, raced, seen, again>>

\* What the buffer takes of what follows the offset.
Got == LET more == files[fd].end - offset
       IN  IF more < 0 THEN 0 ELSE IF more > Buffer THEN Buffer ELSE more

\* What is printed next is not what follows in its life, or its beginning.
OutOfOrder(life) ==
  IF seen[life] = Unseen THEN life \in met /\ offset > 0 ELSE seen[life] # offset

\* n bytes are written, and the offset moves; a buffer that is not full is the
\* end of the file.
Drain(n, next) ==
  LET life == files[fd].life
  IN  /\ pc = "reading"
      /\ offset' = next
      /\ seen' = IF n > 0 THEN [seen EXCEPT ![life] = offset + n] ELSE seen
      /\ again' = (again \/ (n > 0 /\ OutOfOrder(life)))
      /\ pc' = IF n < Buffer THEN "waiting" ELSE "reading"
      /\ UNCHANGED <<environment, fd, tail, raced, met>>

\* Mutant: the offset behind the last full buffer is kept.
ReadAtKeepsOffset == Drain(Got, IF Got < Buffer THEN offset ELSE offset + Got)

ReadAt == Drain(Got, offset + Got)

\* Without -f, by a signal, or because a call failed.
End ==
  /\ pc # "end"
  /\ pc' = "end"
  /\ UNCHANGED <<environment, fd, offset, output>>

Command == SeekEnd \/ WriteTail \/ Poll \/ Stat \/ ReadAt

Next ==
  \/ \E t \in Texts : DaemonWrites(t)
  \/ Truncate \/ MoveAway \/ DaemonRestarts
  \/ \E n \in Tails : OpenLog(n)
  \/ Command \/ End

Spec == Init /\ [][Next]_vars

\* The ticker fires, and a call returns.
FairSpec == Spec /\ WF_vars(Command)

(***************************************************************************)
(* Properties.                                                             *)
(***************************************************************************)

\* The shape of the state.
TypeOK ==
  /\ Len(files) \in 1..MaxFiles
  /\ \A i \in DOMAIN files :
       /\ files[i].life \in 1..lives /\ files[i].end \in 0..MaxEnd
       /\ files[i].newlines \subseteq 0..(files[i].end - 1)
  /\ path \in DOMAIN files \cup {NoFile} /\ log \in DOMAIN files
  /\ lives \in 1..MaxLives
  /\ pc \in {"start", "opened", "sized", "waiting", "polled", "reading", "end"}
  /\ pc \in {"opened", "sized", "polled", "reading"} => fd \in DOMAIN files
  /\ offset \in 0..MaxEnd
  /\ tail.from \in 0..MaxEnd

Tailed == pc \in {"waiting", "polled", "reading"}

Whole(f) == [start |-> 0, end |-> f.end, newlines |-> f.newlines]

\* The lines asked for of the file as it was when its end was sought.
AskedFrom == LastLines(Whole(tail.whole), tail.lines)

\* What is printed first are the last lines of the file as it was when its
\* end was sought, as many as asked for, whatever was appended since; if these
\* lines lie within one chunk, for more is not read back.  In any case it is no
\* line before them.
TailIsLastLines ==
  Tailed /\ ~raced =>
    /\ tail.from >= AskedFrom
    /\ tail.lines = 0 \/ tail.whole.end - AskedFrom <= Chunk => tail.from = AskedFrom

\* However polls, writes, truncations and rotations fall, what is printed of a
\* life is in order, without a hole and without a repetition; and a log that was
\* truncated or replaced starts over from its beginning, as the comment of
\* followFile says, if any poll found it shorter than what was printed before,
\* or found no log before it (of one that outgrew the offset before it was first
\* polled nothing is said).  All this unless the file was truncated in the middle
\* of the first output.
InOrder == again => raced

\* When the log settles, the command has read it to its end.
CatchesUp ==
  <>[](Tailed /\ path # NoFile => offset = files[path].end)

=============================================================================
