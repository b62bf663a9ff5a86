-------------------------------- MODULE Ring --------------------------------
(***************************************************************************)
(* The ring buffer of ring.go.  Every method holds the mutex throughout, so *)
(* each is one action; Recent only reads and is an operator.  A message is  *)
(* its identifier and its text.                                             *)
(***************************************************************************)
EXTENDS Integers, Sequences

CONSTANTS Capacity,   \* len(r.buf); NewRing makes it at least 1
          Ids, NoId,  \* message identifiers, and ""
          Texts, NoText

ASSUME RingAssumption ==
    /\ Capacity \in Nat \ {0}
    /\ NoId \notin Ids
    /\ NoText \notin Texts

VARIABLES buf,    \* slot 0..Capacity-1 -> message
          next,   \* slot the next Append writes
          n       \* number of valid slots

ring == <<buf, next, n>>

Slots   == 0..Capacity - 1
Entry   == [id : Ids \union {NoId}, text : Texts]
Blank   == [id |-> NoId, text |-> NoText]   \* the zero InboundMessage

NewRing ==
    /\ buf = [s \in Slots |-> Blank]
    /\ next = 0
    /\ n = 0

\* Mutant: the write position is advanced before the write.
AppendShifted(id, text) ==
    /\ next' = (next + 1) % Capacity
    /\ buf' = [buf EXCEPT ![next'] = [id |-> id, text |-> text]]
    /\ n' = IF n < Capacity THEN n + 1 ELSE n

Append1(id, text) ==
    /\ buf' = [buf EXCEPT ![next] = [id |-> id, text |-> text]]
    /\ next' = (next + 1) % Capacity
    /\ n' = IF n < Capacity THEN n + 1 ELSE n

\* The first match in slot order; a duplicate identifier leaves the others alone.
Update(id, text) ==
    /\ id # NoId
    /\ \E s \in Slots :
          /\ buf[s].id = id
          /\ \A t \in Slots : t < s => buf[t].id # id
          /\ buf' = [buf EXCEPT ![s] = [id |-> id, text |-> text]]
    /\ UNCHANGED <<next, n>>

\* The slot of the i-th newest message, i from 0, when the next write goes to nx.
SlotOf(nx, i) == (nx - 1 - i + Capacity) % Capacity

Recent(limit) ==
    [i \in 1..(IF limit <= 0 \/ limit > n THEN n ELSE limit) |-> buf[SlotOf(next, i - 1)]]

\* The process stops or crashes, and makes a new ring for the session when it starts.
Restart ==
    /\ buf' = [s \in Slots |-> Blank]
    /\ next' = 0
    /\ n' = 0

RingNext ==
    \/ \E id \in Ids \union {NoId}, text \in Texts : Append1(id, text) \/ Update(id, text)
    \/ Restart

RingSpec == NewRing /\ [][RingNext]_ring

-----------------------------------------------------------------------------

\* The counters stay within the buffer, and the slots not yet written are exactly
\* those from next on while the buffer is filling up.
RingTypeOK ==
    /\ buf \in [Slots -> Entry \union {Blank}]
    /\ next \in Slots
    /\ n \in 0..Capacity
    /\ n < Capacity => next = n
    /\ \A s \in Slots : IF s < n THEN buf[s] \in Entry ELSE buf[s] = Blank

\* The buffer implements RecentLog: Recent(0) is the log, so that wrapping around
\* never shows a message twice, out of order or after its slot was reused, and an
\* edit never lands on another message.
View == Recent(0)

Buffer == INSTANCE RecentLog WITH log <- View

ImplementsLog == Buffer!Spec
=============================================================================
