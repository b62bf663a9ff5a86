----------------------------- MODULE RecentLog ------------------------------
(***************************************************************************)
(* What the inbound buffer of a session promises: the most recent messages, *)
(* newest first, at most Capacity of them.  A new message pushes the oldest *)
(* one out; an edit changes the text of a message with that identifier if   *)
(* there still is one, and touches nothing else.                            *)
(***************************************************************************)
EXTENDS Naturals, Sequences

CONSTANTS Capacity, Ids, NoId, Texts

VARIABLE log   \* newest first

Kept(k) == IF k < Capacity THEN k ELSE Capacity

Init == log = <<>>

Append1(id, text) ==
    log' = [i \in 1..Kept(Len(log) + 1) |->
               IF i = 1 THEN [id |-> id, text |-> text] ELSE log[i - 1]]

Edit(id, text) ==
    /\ id # NoId
    /\ \E i \in 1..Len(log) :
          /\ log[i].id = id
          /\ log' = [log EXCEPT ![i] = [id |-> id, text |-> text]]

\* Nothing of it is on disk: a restart leaves nothing.
Restart == log' = <<>>

Next ==
    \/ \E id \in Ids \union {NoId}, text \in Texts : Append1(id, text) \/ Edit(id, text)
    \/ Restart

Spec == Init /\ [][Next]_log
=============================================================================
