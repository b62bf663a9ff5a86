----------------------------- MODULE SendQueue ------------------------------
(***************************************************************************)
(* The per-session send queue of session.go: callers of send/sendMedia,    *)
(* the buffered channel sendCh, the single worker goroutine that reads the *)
(* chat, simulates typing and hands the message to the WhatsApp client,    *)
(* and stop.  The rest of the session (pairing, connection events, logout) *)
(* is the action SessionChanges, which may set status and client to        *)
(* anything between any two steps: what is shown here holds whatever the   *)
(* other methods do.  Module Pairing models those methods.                 *)
(***************************************************************************)
EXTENDS Naturals, Sequences

CONSTANTS
    Requests,    \* send calls, each with its own context
    QueueSize,   \* Config.SendQueue, at least 1 after withDefaults
    MinGap,      \* Config.SendMinGap > 0
    Statuses,    \* the values status can take
    Clients, NoClient,
    NoJob,
    Messages,    \* inbound messages of other people, each delivered once
    ChatOf,      \* message -> its unread key (chat and sender)
    AnsweredBy   \* request -> messages whose chat or phone matches its recipient

ASSUME QueueAssumption ==
    /\ QueueSize \in Nat \ {0}
    /\ MinGap \in BOOLEAN
    /\ "connected" \in Statuses
    /\ NoClient \notin Clients
    /\ NoJob \notin Requests
    /\ AnsweredBy \in [Requests -> SUBSET Messages]

VARIABLES
    status, client,   \* session fields, guarded by mu
    arrived,          \* inbound messages in the order onMessage saw them
    unread,           \* the values of the map session.unread
    toRead,           \* markChatRead's targets not yet acknowledged
    receipted,        \* messages a read receipt was attempted for
    call,             \* where each caller is, or what it returned
    cancelled,        \* requests whose context has ended
    sendCh,           \* the channel of jobs
    out,              \* per job: what the worker put in job.out, or "none"
    wpc, job, using,  \* the worker: control point, current job, its client
    handed,           \* requests passed to client.SendText / SendMedia
    stopping          \* "no", "waiting" (done closed), "returned"

sessionVars == <<status, client>>
inboxVars   == <<arrived, unread, toRead, receipted>>
callerVars  == <<call, cancelled>>
workerVars  == <<wpc, job, using>>
vars == <<status, client, arrived, unread, toRead, receipted, call, cancelled,
          sendCh, out, wpc, job, using, handed, stopping>>

Delivered == {"sent", "send_failed"}
Outcomes  == Delivered \union {"ctx", "not_connected"}
Answers   == Outcomes \union {"invalid", "queue_full"}
InService == {"taken", "checked", "opening", "reading", "typing", "ready", "sending"}

Done == stopping # "no"

Occurs(s) == {s[i] : i \in 1..Len(s)}

Init ==
    /\ status \in Statuses
    /\ client \in Clients \union {NoClient}
    /\ arrived = <<>> /\ unread = {} /\ toRead = {} /\ receipted = {}
    /\ call = [r \in Requests |-> "new"]
    /\ cancelled = {}
    /\ sendCh = <<>>
    /\ out = [r \in Requests |-> "none"]
    /\ wpc = "idle" /\ job = NoJob /\ using = NoClient
    /\ handed = {}
    /\ stopping = "no"

-----------------------------------------------------------------------------
(* The rest of the session. *)

SessionChanges ==
    /\ status' \in Statuses
    /\ client' \in Clients \union {NoClient}
    /\ UNCHANGED <<inboxVars, callerVars, sendCh, out, workerVars, handed, stopping>>

\* trackUnread: the newest message of a chat and sender replaces the older one.
Receive(m) ==
    /\ m \notin Occurs(arrived)
    /\ arrived' = Append(arrived, m)
    /\ unread' = {n \in unread : ChatOf[n] # ChatOf[m]} \union {m}
    /\ UNCHANGED <<sessionVars, toRead, receipted, callerVars, sendCh, out,
                   workerVars, handed, stopping>>

-----------------------------------------------------------------------------
(* A caller of send or sendMedia. *)

Goes(r, to) == call' = [call EXCEPT ![r] = to]

\* Validation, which any input may fail, then the status check under mu; mu is
\* released before Offer.
Call(r) ==
    /\ call[r] = "new"
    /\ \/ Goes(r, "invalid")
       \/ status # "connected" /\ Goes(r, "not_connected")
       \/ status = "connected" /\ Goes(r, "checked")
    /\ UNCHANGED <<sessionVars, inboxVars, cancelled, sendCh, out, workerVars,
                   handed, stopping>>

\* Mutant: a full queue makes room by dropping its oldest job.
OfferDroppingOldest(r) ==
    /\ call[r] = "checked"
    /\ sendCh' = Append(IF Len(sendCh) < QueueSize THEN sendCh ELSE Tail(sendCh), r)
    /\ Goes(r, "waiting")
    /\ UNCHANGED <<sessionVars, inboxVars, cancelled, out, workerVars, handed,
                   stopping>>

\* The non-blocking send on the channel.
Offer(r) ==
    /\ call[r] = "checked"
    /\ \/ /\ Len(sendCh) < QueueSize
          /\ sendCh' = Append(sendCh, r)
          /\ Goes(r, "waiting")
       \/ /\ Len(sendCh) >= QueueSize
          /\ Goes(r, "queue_full")
          /\ UNCHANGED sendCh
    /\ UNCHANGED <<sessionVars, inboxVars, cancelled, out, workerVars, handed,
                   stopping>>

\* Mutant: job.out yields its zero value when nothing was put there.
AwaitZeroValue(r) ==
    /\ call[r] = "waiting"
    /\ Goes(r, out[r]) \/ (r \in cancelled /\ Goes(r, "ctx"))
    /\ UNCHANGED <<sessionVars, inboxVars, cancelled, sendCh, out, workerVars,
                   handed, stopping>>

\* The select on ctx.Done() and job.out; either branch when both are ready.
Await(r) ==
    /\ call[r] = "waiting"
    /\ \/ out[r] # "none" /\ Goes(r, out[r])
       \/ r \in cancelled /\ Goes(r, "ctx")
    /\ UNCHANGED <<sessionVars, inboxVars, cancelled, sendCh, out, workerVars,
                   handed, stopping>>

\* Nothing reads the context before the offer, so ending earlier is no different.
CancelCtx(r) ==
    /\ call[r] \in {"checked", "waiting"}
    /\ cancelled' = cancelled \union {r}
    /\ UNCHANGED <<sessionVars, inboxVars, call, sendCh, out, workerVars, handed,
                   stopping>>

-----------------------------------------------------------------------------
(* The worker goroutine: runWorker, process, markChatRead, simulateTyping. *)

\* The send on job.out, the return from process and, with a gap, the pause.
Conclude(outcome) ==
    /\ out' = [out EXCEPT ![job] = outcome]
    /\ job' = NoJob
    /\ using' = NoClient
    /\ wpc' = IF MinGap THEN "gap" ELSE "idle"

\* select may take a job even when done is closed.
TakeJob ==
    /\ wpc = "idle"
    /\ sendCh # <<>>
    /\ job' = Head(sendCh)
    /\ sendCh' = Tail(sendCh)
    /\ wpc' = "taken"
    /\ UNCHANGED <<sessionVars, inboxVars, callerVars, out, using, handed, stopping>>

\* Mutant: the context of a queued job is not looked at.
CheckCtxSkipped ==
    /\ wpc = "taken"
    /\ wpc' = "checked"
    /\ UNCHANGED <<sessionVars, inboxVars, callerVars, sendCh, out, job, using,
                   handed, stopping>>

CheckCtx ==
    /\ wpc = "taken"
    /\ \/ job \in cancelled /\ Conclude("ctx")
       \/ /\ job \notin cancelled
          /\ wpc' = "checked"
          /\ UNCHANGED <<out, job, using>>
    /\ UNCHANGED <<sessionVars, inboxVars, callerVars, sendCh, handed, stopping>>

\* Mutant: only the status is checked before the client is used.
SnapshotUnchecked ==
    /\ wpc = "checked"
    /\ IF status # "connected"
         THEN Conclude("not_connected")
         ELSE using' = client /\ wpc' = "opening" /\ UNCHANGED <<out, job>>
    /\ UNCHANGED <<sessionVars, inboxVars, callerVars, sendCh, handed, stopping>>

\* Mutant: a job found not connected is left without an outcome.
SnapshotSilent ==
    /\ wpc = "checked"
    /\ IF status # "connected" \/ client = NoClient
         THEN job' = NoJob /\ wpc' = "idle" /\ UNCHANGED <<out, using>>
         ELSE using' = client /\ wpc' = "opening" /\ UNCHANGED <<out, job>>
    /\ UNCHANGED <<sessionVars, inboxVars, callerVars, sendCh, handed, stopping>>

SnapshotClient ==
    /\ wpc = "checked"
    /\ \/ /\ status # "connected" \/ client = NoClient
          /\ Conclude("not_connected")
       \/ /\ status = "connected" /\ client # NoClient
          /\ using' = client
          /\ wpc' = "opening"
          /\ UNCHANGED <<out, job>>
    /\ UNCHANGED <<sessionVars, inboxVars, callerVars, sendCh, handed, stopping>>

\* Mutant: the whole unread map is cleared, not only the chat replied to.
OpenChatClearingAll ==
    /\ wpc = "opening"
    /\ toRead' = unread \intersect AnsweredBy[job]
    /\ unread' = {}
    /\ wpc' = "reading"
    /\ UNCHANGED <<sessionVars, arrived, receipted, callerVars, sendCh, out, job,
                   using, handed, stopping>>

\* markChatRead, its locked part: matching entries leave the map.
OpenChat ==
    /\ wpc = "opening"
    /\ toRead' = unread \intersect AnsweredBy[job]
    /\ unread' = unread \ AnsweredBy[job]
    /\ wpc' = "reading"
    /\ UNCHANGED <<sessionVars, arrived, receipted, callerVars, sendCh, out, job,
                   using, handed, stopping>>

\* markChatRead, one receipt; an error is logged and the target is dropped.
MarkRead(m) ==
    /\ wpc = "reading"
    /\ m \in toRead
    /\ toRead' = toRead \ {m}
    /\ receipted' = receipted \union {m}
    /\ UNCHANGED <<sessionVars, arrived, unread, callerVars, sendCh, out,
                   workerVars, handed, stopping>>

\* Mutant: the reply does not wait for the read receipts.
StartTypingAtOnce ==
    /\ wpc = "reading"
    /\ wpc' \in {"typing", "ready"}
    /\ UNCHANGED <<sessionVars, inboxVars, callerVars, sendCh, out, job, using,
                   handed, stopping>>

\* typing.Duration is positive ("typing") or zero ("ready").
StartTyping ==
    /\ wpc = "reading"
    /\ toRead = {}
    /\ wpc' \in {"typing", "ready"}
    /\ UNCHANGED <<sessionVars, inboxVars, callerVars, sendCh, out, job, using,
                   handed, stopping>>

TypingInterrupted ==
    /\ wpc = "typing"
    /\ \/ job \in cancelled /\ Conclude("ctx")
       \/ job \notin cancelled /\ Done /\ Conclude("not_connected")
    /\ UNCHANGED <<sessionVars, inboxVars, callerVars, sendCh, handed, stopping>>

\* The last slice elapses; select may choose it over done or ctx.Done().
TypingDone ==
    /\ wpc = "typing"
    /\ wpc' = "ready"
    /\ UNCHANGED <<sessionVars, inboxVars, callerVars, sendCh, out, job, using,
                   handed, stopping>>

\* The commit: the client is called under a context without the caller's cancel.
HandOver ==
    /\ wpc = "ready"
    /\ handed' = handed \union {job}
    /\ wpc' = "sending"
    /\ UNCHANGED <<sessionVars, inboxVars, callerVars, sendCh, out, job, using,
                   stopping>>

\* Mutant: the client is called under the caller's own context.
SendReturnsCancelled ==
    /\ wpc = "sending"
    /\ \E outcome \in Delivered \union {"ctx"} :
          /\ outcome = "ctx" => job \in cancelled
          /\ Conclude(outcome)
    /\ UNCHANGED <<sessionVars, inboxVars, callerVars, sendCh, handed, stopping>>

\* Mutant: a caller that has gone away gets no outcome.
SendReturnsSilent ==
    /\ wpc = "sending"
    /\ IF job \in cancelled
         THEN job' = NoJob /\ using' = NoClient /\ wpc' = "idle" /\ UNCHANGED out
         ELSE \E outcome \in Delivered : Conclude(outcome)
    /\ UNCHANGED <<sessionVars, inboxVars, callerVars, sendCh, handed, stopping>>

SendReturns ==
    /\ wpc = "sending"
    /\ \E outcome \in Delivered : Conclude(outcome)
    /\ UNCHANGED <<sessionVars, inboxVars, callerVars, sendCh, handed, stopping>>

GapOver ==
    /\ wpc = "gap"
    /\ wpc' = "idle"
    /\ UNCHANGED <<sessionVars, inboxVars, callerVars, sendCh, out, job, using,
                   handed, stopping>>

\* Mutant: done is watched during the gap only.
WorkerExitsInGap ==
    /\ wpc = "gap" /\ Done
    /\ wpc' = "exited"
    /\ UNCHANGED <<sessionVars, inboxVars, callerVars, sendCh, out, job, using,
                   handed, stopping>>

WorkerExits ==
    /\ wpc \in {"idle", "gap"}
    /\ Done
    /\ wpc' = "exited"
    /\ UNCHANGED <<sessionVars, inboxVars, callerVars, sendCh, out, job, using,
                   handed, stopping>>

Worker ==
    \/ TakeJob \/ CheckCtx \/ SnapshotClient \/ OpenChat
    \/ \E m \in Messages : MarkRead(m)
    \/ StartTyping \/ TypingInterrupted \/ TypingDone \/ HandOver \/ SendReturns
    \/ GapOver \/ WorkerExits

-----------------------------------------------------------------------------
(* stop: close done, then wait for the worker. *)

StopBegins ==
    /\ stopping = "no"
    /\ stopping' = "waiting"
    /\ UNCHANGED <<sessionVars, inboxVars, callerVars, sendCh, out, workerVars, handed>>

\* Mutant: stop does not wait for the worker.
StopReturnsEarly ==
    /\ stopping = "waiting"
    /\ stopping' = "returned"
    /\ UNCHANGED <<sessionVars, inboxVars, callerVars, sendCh, out, workerVars, handed>>

StopReturns ==
    /\ stopping = "waiting"
    /\ wpc = "exited"
    /\ stopping' = "returned"
    /\ UNCHANGED <<sessionVars, inboxVars, callerVars, sendCh, out, workerVars, handed>>

Next ==
    \/ SessionChanges
    \/ \E m \in Messages : Receive(m)
    \/ \E r \in Requests : Call(r) \/ Offer(r) \/ Await(r) \/ CancelCtx(r)
    \/ Worker
    \/ StopBegins \/ StopReturns

\* Goroutines that can run do run: the worker's waits all end (timers, and the
\* 10s, 30s and 2min contexts put around the client's calls), a caller in select
\* or about to enter it proceeds, stop returns once the WaitGroup is done.
\* Nobody is obliged to call send or stop, to end a context, or to change the session.
Fairness ==
    /\ WF_vars(Worker)
    /\ WF_vars(StopReturns)
    /\ \A r \in Requests : WF_vars(Offer(r)) /\ WF_vars(Await(r))

Spec == Init /\ [][Next]_vars

FairSpec == Spec /\ Fairness

-----------------------------------------------------------------------------
(* Properties. *)

\* Every variable stays in its range.
TypeOK ==
    /\ status \in Statuses
    /\ client \in Clients \union {NoClient}
    /\ arrived \in Seq(Messages)
    /\ unread \subseteq Messages /\ toRead \subseteq Messages
    /\ receipted \subseteq Messages
    /\ call \in [Requests -> {"new", "checked", "waiting"} \union Answers]
    /\ cancelled \subseteq Requests
    /\ sendCh \in Seq(Requests)
    /\ out \in [Requests -> {"none"} \union Outcomes]
    /\ wpc \in InService \union {"idle", "gap", "exited"}
    /\ job \in Requests \union {NoJob}
    /\ using \in Clients \union {NoClient}
    /\ handed \subseteq Requests
    /\ stopping \in {"no", "waiting", "returned"}

\* What the caller is told is true of the message: an error that says it was not
\* sent (invalid, not connected, queue full) is never returned for a message
\* that was handed to WhatsApp, and success or a send error only for one that was.
OutcomeTells ==
    \A r \in Requests :
        /\ call[r] \in {"invalid", "not_connected", "queue_full"} => r \notin handed
        /\ call[r] \in Delivered => r \in handed
        /\ r \in handed /\ out[r] # "none" => out[r] \in Delivered

\* process never calls a nil client: failPairing may clear session.client while
\* status still says connected, and at any later time while the worker types.
NeverNilClient ==
    wpc \in {"opening", "reading", "typing", "ready", "sending"} => using \in Clients

\* Every inbound message is exactly one of: unread, about to be acknowledged,
\* acknowledged once, or superseded by a later message of its chat and sender.
UnreadAccounted ==
    /\ unread \intersect toRead = {}
    /\ receipted \intersect (unread \union toRead) = {}
    /\ \A i \in 1..Len(arrived) :
          \/ arrived[i] \in unread \union toRead \union receipted
          \/ \E j \in i+1..Len(arrived) : ChatOf[arrived[j]] = ChatOf[arrived[i]]

\* The human flow "open, read, reply": what was unread in the chat when the worker
\* opened it is out of the way before the reply is handed over.
ReadBeforeReply ==
    \A r \in Requests, m \in Messages :
        [](wpc = "opening" /\ job = r /\ m \in unread \intersect AnsweredBy[r]
             => [](r \in handed => m \notin unread \union toRead))

\* A request whose context ends while it is still queued is never sent.
CancelledWhileQueued ==
    \A r \in Requests :
        [](r \in cancelled /\ r \in Occurs(sendCh) => [](r \notin handed))

\* After stop has returned the session sends nothing and acknowledges nothing.
QuietAfterStop ==
    [][stopping = "returned" => UNCHANGED <<handed, receipted, out>>]_vars

\* Once handed over, a send is reported whether or not the caller is still there.
HandedIsReported ==
    \A r \in Requests : r \in handed ~> out[r] \in Delivered

\* A waiting caller is answered, unless the session is being stopped.
AnsweredUnlessStopped ==
    \A r \in Requests : call[r] = "waiting" ~> (call[r] \in Answers \/ Done)

\* stop always returns: the worker notices done from every point it can be at.
StopCompletes == stopping = "waiting" ~> stopping = "returned"

\* send's comment: it "enqueues an outgoing message, then waits for the worker's
\* outcome".  The worker may leave without one for the jobs still in the channel.
EveryCallerAnswered ==
    \A r \in Requests : call[r] = "waiting" ~> call[r] \in Answers

-----------------------------------------------------------------------------
(* The inductive invariant. *)

InLine(r) == r = job \/ r \in Occurs(sendCh)

\* The worker's locals are set exactly while a job is in service, and it leaves
\* only after done is closed, which is what stop waits for.
WorkerInv ==
    /\ (wpc \in InService) <=> (job # NoJob)
    /\ NeverNilClient
    /\ wpc = "exited" => Done
    /\ stopping = "returned" => wpc = "exited"

\* A job is in one place only, its caller waits or has given up, it has no outcome
\* yet, and it is handed over only while the client is sending it.
LineInv ==
    /\ \A i, j \in 1..Len(sendCh) : sendCh[i] = sendCh[j] => i = j
    /\ job \notin Occurs(sendCh)
    /\ \A r \in Requests : InLine(r) =>
          /\ call[r] \in {"waiting", "ctx"}
          /\ out[r] = "none"
          /\ r \in handed <=> (r = job /\ wpc = "sending")
    /\ \A r \in Requests : call[r] = "waiting" => InLine(r) \/ out[r] # "none"

VerdictInv ==
    \A r \in Requests :
        /\ call[r] \in {"new", "checked"} => r \notin handed /\ out[r] = "none"
        /\ r \in handed => r = job \/ out[r] \in Delivered
        /\ out[r] \in Delivered => r \in handed

\* TypeOK and OutcomeTells strengthened until every step preserves them.
IInv == TypeOK /\ WorkerInv /\ LineInv /\ VerdictInv /\ OutcomeTells

-----------------------------------------------------------------------------
\* The queue implements SendContract: the line is the job in service followed by
\* the channel.
Line == (IF job = NoJob THEN <<>> ELSE <<job>>) \o sendCh

Answer == [r \in Requests |-> IF call[r] \in Answers THEN call[r] ELSE "none"]

Contract == INSTANCE SendContract
    WITH Places <- QueueSize + 1, line <- Line, verdict <- out, answer <- Answer

ImplementsContract == Contract!Spec
=============================================================================
