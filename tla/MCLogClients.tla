---------------------------- MODULE MCLogClients -----------------------------
(***************************************************************************)
(* An instance of LogClients for TLC: three services with room for two,    *)
(* limits of three lines and four bytes, one page and one logcat.          *)
(***************************************************************************)
EXTENDS LogClients

CONSTANTS web, api, db

NoFollows == [r \in {} |-> web]

\* A blank line, a partial one, and a line that begins and ends within a text.
MCTexts == {[len |-> 1, newlines |-> {1}], [len |-> 3, newlines |-> {}],
            [len |-> 5, newlines |-> {1, 4}]}

\* Three questions at a time: the store without clients, a page through a
\* restart or a removal, and logcat through evictions.
Focus ==
  LET noPage == \A p \in Pages : page[p].pc = "paused" /\ page[p].pos = 0
      noCat  == \A c \in Cats : cat[c].pc = "off"
  IN  \/ noPage /\ noCat /\ faults = 0
      \/ noCat /\ accepted \cup DOMAIN entries \subseteq {web}
      \/ noPage /\ faults = 0

=============================================================================
