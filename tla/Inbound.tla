------------------------------- MODULE Inbound -------------------------------
(***************************************************************************)
(* The path of an inbound WhatsApp event: parseMessage sorts it, onMessage  *)
(* puts it in the session's buffer, remembers it as unread and passes it to *)
(* the webhook dispatcher, while the worker takes what is unread to         *)
(* acknowledge it.  The buffer is the log of RecentLog, which module Ring   *)
(* implements; of Enqueue, which module Dispatcher has in full, only        *)
(* whether it accepts the event is kept, and of markChatRead, which is in   *)
(* SendQueue, its locked section.  All messages are of one sender in one    *)
(* chat.                                                                    *)
(***************************************************************************)
EXTENDS Naturals, Sequences, SequencesExt

CONSTANTS
    Handlers,        \* goroutines that deliver events, one per client of the session
    Capacity,        \* Config.RingSize
    IncludeFromMe,   \* Config.IncludeFromMe
    MaxMessages      \* bound: messages that ever arrive

ASSUME InboundAssumption ==
    /\ Capacity \in Nat \ {0}
    /\ IncludeFromMe \in BOOLEAN
    /\ MaxMessages \in Nat

NoId  == 0
Ids   == 1..MaxMessages   \* messages are numbered as they arrive
IdsOrNone == Ids \union {NoId}
Texts == {"first", "edited"}

VARIABLES
    arrived,    \* how many messages have arrived
    log,        \* the buffer, newest first
    unread,     \* the message remembered as unread
    settled,    \* history: messages that were, until acknowledged or replaced by another
    task,       \* per handler: the event it works on and the next step
    announced,  \* the event the dispatcher accepted last since the process started
    stored      \* history: messages in the order they entered this process's buffer

vars == <<arrived, log, unread, settled, task, announced, stored>>

Buffer == INSTANCE RecentLog

\* ring.Update finds it: no message answers to an empty identifier.
InBuffer(id) == id # NoId /\ \E i \in 1..Len(log) : log[i].id = id

-----------------------------------------------------------------------------
(* parseMessage *)

\* An event of the library: its protocol message, whether the library unwrapped an
\* edit, whether extractContent finds a text or media in it, and its identifiers.
Raw == [protocol : {"none", "edit", "revoke", "other"}, isEdit : BOOLEAN,
        content : BOOLEAN, id : IdsOrNone, key : IdsOrNone, fromMe : BOOLEAN]

Skipped == [type |-> "skipped", id |-> NoId, fromMe |-> FALSE]

Becomes(raw, type, id) == [type |-> type, id |-> id, fromMe |-> raw.fromMe]

\* A revocation needs no content and an edit no identifier; a protocol message of
\* another kind is skipped even if there is content beside it.
Parsed(raw) ==
    CASE raw.protocol = "edit" /\ raw.content        -> Becomes(raw, "edit", raw.key)
      [] raw.protocol = "revoke" /\ raw.key # NoId   -> Becomes(raw, "revoke", raw.key)
      [] raw.protocol = "none" /\ raw.content        ->
             Becomes(raw, IF raw.isEdit THEN "edit" ELSE "message", raw.id)
      [] OTHER                                       -> Skipped

Items == {Parsed(raw) : raw \in Raw} \ {Skipped}

-----------------------------------------------------------------------------
(* onMessage, by each handler *)

Resting == [item |-> Skipped, known |-> FALSE, step |-> "rest"]

\* What is kept of an accepted event: an edit also says (history) whether its
\* message was in the buffer when it arrived.
Event(t) == [item |-> t.item, known |-> t.known]

Init ==
    /\ arrived = 0
    /\ Buffer!Init
    /\ unread = NoId /\ settled = {}
    /\ task = [h \in Handlers |-> Resting]
    /\ announced = Event(Resting)
    /\ stored = <<>>

Continues(h, step) == task' = [task EXCEPT ![h].step = step]

\* An event reaches onMessage, which drops the user's own unless configured.  The
\* library delivers a message once, perhaps without an identifier; an edit or
\* revocation may name any message.
Arrives(h) ==
    /\ task[h] = Resting
    /\ \E item \in Items :
          /\ item.fromMe => IncludeFromMe
          /\ IF item.type = "message"
               THEN /\ arrived < MaxMessages /\ arrived' = arrived + 1
                    /\ item.id \in {arrived + 1, NoId}
               ELSE UNCHANGED arrived
          /\ task' = [task EXCEPT ![h] =
                         [item |-> item, known |-> InBuffer(item.id), step |-> "store"]]
    /\ UNCHANGED <<log, unread, settled, announced, stored>>

\* ring.Append for a message, ring.Update for an edit, nothing for a revocation.
StoresNotingAll(h) ==   \* Mutant: every event is noted as unread
    /\ task[h].step = "store"
    /\ IF task[h].item.type = "message"
         THEN /\ Buffer!Append1(task[h].item.id, "first")
              /\ stored' = Append(stored, task[h].item.id)
         ELSE UNCHANGED <<log, stored>>
    /\ Continues(h, "note")
    /\ UNCHANGED <<arrived, unread, settled, announced>>

Stores(h) ==
    LET item == task[h].item IN
    /\ task[h].step = "store"
    /\ \/ /\ item.type = "message"
          /\ Buffer!Append1(item.id, "first")
          /\ stored' = Append(stored, item.id)
       \/ /\ item.type = "edit"
          /\ Buffer!Edit(item.id, "edited")
          /\ UNCHANGED stored
       \/ /\ item.type = "revoke" \/ (item.type = "edit" /\ ~InBuffer(item.id))
          /\ UNCHANGED <<log, stored>>
    /\ Continues(h, IF item.type = "message" /\ ~item.fromMe /\ item.id # NoId
                      THEN "note" ELSE "announce")
    /\ UNCHANGED <<arrived, unread, settled, announced>>

\* trackUnread: the latest message to come this far replaces an earlier one.
Notes(h) ==
    /\ task[h].step = "note"
    /\ unread' = task[h].item.id
    /\ settled' = settled \union ({unread} \ {NoId})
    /\ Continues(h, "announce")
    /\ UNCHANGED <<arrived, log, announced, stored>>

\* Enqueue accepts the event, or drops it: no URL, closed, or the queue is full.
AnnouncesEarly(h) ==   \* Mutant: the webhook is told while the buffer is updated
    /\ task[h].step \in {"store", "announce"}
    /\ announced' \in {announced, Event(task[h])}
    /\ task' = IF task[h].step = "announce" THEN [task EXCEPT ![h] = Resting] ELSE task
    /\ UNCHANGED <<arrived, log, unread, settled, stored>>

Announces(h) ==
    /\ task[h].step = "announce"
    /\ announced' \in {announced, Event(task[h])}
    /\ task' = [task EXCEPT ![h] = Resting]
    /\ UNCHANGED <<arrived, log, unread, settled, stored>>

\* markChatRead's locked section, by the worker before its reply to the chat: what it
\* takes it acknowledges next.
Acknowledges ==
    /\ unread # NoId
    /\ unread' = NoId /\ settled' = settled \union {unread}
    /\ UNCHANGED <<arrived, log, task, announced, stored>>

\* The process stops, or crashes, and starts again: everything here is in memory.
Restart ==
    /\ Buffer!Restart /\ unread' = NoId /\ settled' = {}
    /\ task' = [h \in Handlers |-> Resting]
    /\ announced' = Event(Resting) /\ stored' = <<>>
    /\ UNCHANGED arrived

Step(h) == Arrives(h) \/ Stores(h) \/ Notes(h) \/ Announces(h)

Next == (\E h \in Handlers : Step(h)) \/ Acknowledges \/ Restart

Spec == Init /\ [][Next]_vars

-----------------------------------------------------------------------------
(* Properties *)

\* Types; and only a message of someone else that has an identifier is noted as unread
\* (onMessage).
TypeOK ==
    /\ arrived \in 0..MaxMessages /\ unread \in IdsOrNone /\ settled \subseteq Ids
    /\ log \in Seq([id : IdsOrNone, text : Texts]) /\ Len(log) <= Capacity
    /\ stored \in Seq(IdsOrNone)
    /\ \A h \in Handlers :
          /\ task[h].step \in {"rest", "store", "note", "announce"}
          /\ task[h].step = "note" => /\ task[h].item.type = "message"
                                     /\ ~task[h].item.fromMe /\ task[h].item.id # NoId

Place(id) == SelectInSeq(stored, LAMBDA x : x = id)   \* 0 if it is not there

Newer(id) == Len(stored) - Place(id)

\* It is what the next reply will acknowledge, or it was until a reply did or another
\* message of the sender took its place.
Noted(id) == id = unread \/ id \in settled

\* What the webhook is told of is there when its receiver asks or replies, whatever other
\* handlers and the worker do meanwhile: a message is in the buffer unless Capacity
\* newer ones displaced it; one of someone else has been noted, so that the receiver's
\* reply acknowledges it; an edited message that is still there has its new text
\* (onMessage's order).
WebhookBacked ==
    LET item == announced.item IN
    /\ item.type = "message" /\ item.id # NoId =>
          /\ item.id \in ToSet(stored)
          /\ InBuffer(item.id) \/ Newer(item.id) >= Capacity
          /\ ~item.fromMe => Noted(item.id)
    /\ item.type = "edit" /\ announced.known =>
          \A i \in 1..Len(log) : log[i].id = item.id => log[i].text = "edited"

=============================================================================
