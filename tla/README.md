# Wavonyx in TLA+

Wavonyx is a Go server that wraps WhatsApp (the whatsmeow library) behind a small
REST API: many sessions, each a WhatsApp account, each with its own send queue,
pairing, inbound buffer and webhook. This directory holds TLA+ models of its core,
TLC runs over small instances, and theorems checked by TLAPS. `PROJECT.json` maps
every definition to the lines it models and lists runs, mutants, theorems, hazards
and findings.

## 1. The system

| Part | State | Operations | Talks to |
|---|---|---|---|
| Send queue (`session.go`) | `sendCh`, one `sendJob` per caller with `out`, `done`, `unread` | `send`, `sendMedia`, `enqueue`; the worker `runWorker`/`process`/`markChatRead`/`simulateTyping`; `start`, `stop` | the client; reads `status` and `client` set by pairing |
| Life cycle and pairing (`session.go`, `wa.go`) | `status`, `client`, `jid`, `qrCode`, `pairCancel` | `login`, `consumeQR`, `markConnected`, `onDisconnected`, `onLoggedOut`, `failPairing`, `attach`, `logout` | the library's event callbacks and QR channel; the registry |
| Inbound (`session.go`, `parse.go`, `ring.go`) | the ring, the unread map | `onMessage`, `trackUnread`, `Append`, `Update`, `Recent` | called by the library; feeds the dispatcher |
| Webhook dispatcher (`webhook.go`) | `jobs`, `closed`, `dropped`, its context, worker goroutines | `Enqueue`, `deliver`, `attempt`, `Close` | every session's `onMessage`; `Manager.Close` |
| Manager (`manager.go`) | the map of sessions | `Create`, `Delete`, `UpdateWebhook`, `Start`, `Close`, and forwarding calls | registry, device store, sessions |
| Registry (`internal/registry`) | one SQLite row per session | `Create`, `List`, `UpdateJID`, `UpdateWebhook`, `Delete` | manager, `markConnected` |
| Typing (`typing`) | none | durations from text and options | the worker |
| HTTP server (`server`) | none; a handler per request | fifteen routes: what each refuses, the call it makes, the status code of each outcome | one manager call each |
| Serve process (`cmd/wavonyx/main.go`) | whether it serves, drains or closes | start, signal, shutdown with its time limit, `Manager.Close` | the HTTP server, the manager |
| Command line (`cmd/wavonyx`) | what `watch` has seen | one request per command; `watch` and `connect` poll | the HTTP server |
| Conversions (`jid.go`, `parse.go`, `mediaref.go`, `message.go`, `errors.go`, `config.go`) | none | validation, parsing, defaults | called by the parts above |

What is hard: callers, the worker, event callbacks, logins and `stop` share
`session.mu`, but most operations release it between reading and acting; the queue,
the ring and the dispatcher's channel have limits; contexts end while work is
queued or under way; `Close` has a time limit; the registry and memory are written
one after the other, with other calls, or a crash, in between.

What makes each part correct:

- *Send queue*: a caller is told the truth about its message; a message goes out at
  most once, in order; the chat is read before the reply; `stop` ends, and after it
  nothing happens.
- *Pairing*: a new pairing ends the one before it; the session's status, code and JID belong to its
  client, and the registry has that JID; pairing and `consumeQR` end.
- *Inbound*: the ring is the log of the most recent messages; no unread message is
  lost or acknowledged twice.
- *Dispatcher*: no send on a closed channel; every accepted event is settled once
  after at most `Retries` attempts, nearly in order; `Close` drains and returns.
- *Manager and registry*: the row, the map and the device store agree when nothing is
  under way, also after a crash; one id never has two sessions at work.
- *Server, process and client*: an answer tells what happened, so that a client knows
  when it may repeat a request; handlers end; a shutdown loses neither answers nor
  messages, and ends whatever the clients do; `watch` prints every message once.

## 2. Modules

Specifications:

| Module | Models | Correspondence |
|---|---|---|
| `SendContract` | what the send queue promises (abstract) | a bounded line, a set of messages handed over, verdicts, answers |
| `SendQueue` | the queue, its callers, the worker, `stop` | one action per critical section, channel operation or call to the client |
| `RecentLog` | what the ring promises (abstract) | a bounded sequence, newest first, empty after a restart |
| `Ring` | `ring.go` | one action per method, `Restart`; `Recent` is an operator |
| `Inbound` | `parseMessage`, `onMessage`, `trackUnread`, the locked section of `markChatRead` | one action per step of `onMessage`; the kinds of events are an operator |
| `Watch` | the `watch` command polling a `Ring` | one action per poll, whole or cut short; arrivals, edits and restarts on the server |
| `Dispatcher` | `webhook.go` | `Enqueue` is one action (one lock); a worker's loop is `Take`, `StartAttempt`, `PostReturns`, `BackoffOver`, `Exit`; `Close` is three actions |
| `Pairing` | one session's life cycle | `login` is five actions (the status check, the stream opened outside the lock, the locked section, `Connect`, the wait), `markConnected` three (its two locked sections with the calls between, then the write), `consumeQR` one per item |
| `PairingHistory` | what became of the writes of a JID | two history variables beside `Pairing`, which no action reads |
| `Manager` | `manager.go`, the registry and the device store for one id | one action per statement of a store or locked section; `Start`, `Close`, `Crash` |
| `Gateway` | `server.go`, the session methods the handlers reach, `runServe`, `client.go` | a handler is its refusals (`parsing`), the lookup (`finding`), and one action per step of the call that others can see; the process is `Start`, `Signal`, `Drained` or `DrainTimesOut`, `Exits` |

`SendQueueProofs`, `InboundProofs`, `RingProofs`, `WatchProofs`, `DispatcherProofs`,
`PairingProofs`, `ManagerProofs` and `GatewayProofs` hold the theorems; `MCSendQueue`,
`MCPairing`, `MCInbound` and `MCGateway` the values TLC needs.

How they fit. `SendQueue` takes everything pairing may do to `status` and `client`
as `SessionChanges`, which sets them to anything at any time, so its results hold
in particular for what `Pairing` does. `Pairing` takes `stop` from the point where
the worker has left. `Manager` sees a session as a worker, a `done` channel and the
record-then-save of a JID. `SendQueue` implements `SendContract`, and `Ring`
implements `RecentLog`, each by a refinement mapping in the detailed module.
`Watch` is composed with the real `Ring`, and its run also checks that refinement, edits
and restarts included; `Inbound` uses the buffer as `RecentLog` promises it, so it needs
nothing of `Ring`'s indices; it sees of `Enqueue` whether it accepts, and of
`markChatRead`, which `SendQueue` has in full, that it takes what is unread. `Gateway` puts
the system together as a client sees it: it keeps of every part what an answer may
depend on (the row, the map, each object's status and worker, each send's job), and
takes the order of the queue from `SendQueue`, pairing's events as any that may come
(`Event`), and the order of writes from `Manager`. An
operator marked "Mutant" is a plausible bug: putting it in place of the definition
after it must break the property `PROJECT.json` pairs it with.

## 3. What is simplified

- *SendQueue*. A message is its request; recipients are reduced to which unread
  entries a request matches (`AnsweredBy`). A duration is either zero or some time;
  the composing indicator is left out. `editMessage`, `revokeMessage` and
  `downloadMedia` do not use the queue and are left out. A nil client, `client =
  NoClient`, is possible with any status.
- *Ring*. A message is an identifier and a text.
- *Inbound*. An event of the library is its protocol message, whether it has content,
  and its identifiers; all messages are of one sender. Messages are numbered as they
  arrive and arrive once. A handler is a client's event goroutine; there are two while
  a replaced client lives on. `announced` is the last event accepted, so that the
  property speaks of any accepted event before the next one. The worker may take what
  is unread at any time, as if every reply went to this chat. `settled` is history: what
  was unread until it was acknowledged or another message took its place.
- *Watch*. The interval of the ticker is left out. A failed poll is a stutter. A poll
  whose answer is cut short is a success without messages, as `decodeEnvelope` drops
  the errors of reading and parsing; `MaxCuts` bounds them. After one, `watch` prints
  again what it had printed, although the comment at `cmd_message.go:127` says that
  nothing can reappear; `PrintedOnce` is about the time between two of them.
- *Dispatcher*. A job is the number of its acceptance. A request cannot be made of
  its URL, which the first attempt finds, or it ends in acknowledgement, permanent
  failure or retryable failure. Signing, headers and the
  length of a backoff are left out.
- *Pairing*. A login is named by the client it makes and a JID by the client paired
  as it. The library is external, modelled from its use in `wa.go`: an emitter that
  starts on a connection and ends in success, failure or a closed channel; a client
  that reconnects until disconnected; one `Connected` handler call per client at a
  time. Push names are left out. `rivals` is an auxiliary variable: a client was
  installed while an earlier one could still act. `consumeQR` discards what comes after
  a terminal item (`session.go:260-262`); the library sends nothing after one.
- *Manager*. One id, because the map and the table are keyed by id. Calls of a kind are
  numbered in the order they are made, which only names them. A session object is named
  after the call that made it. Every pairing makes a device, as every login makes a client, and a session that
  is not at work on one may be paired again; devices are numbered, and a device is
  its JID. What the library stores with it is left out. `replaced` is auxiliary: the
  devices in the store when their session was paired with another. `overlap` is auxiliary: since the process started, some call or
  pairing began before another ended. So is `strays`: a device may have been left
  without its row, by a deletion that failed, by overlapping calls, or by a crash
  between a pairing and the write of its JID. `DeleteUnmaps` follows a deletion that
  found no row too, as in the code.
- *Gateway*. One id. A request is its endpoint and what its handler does with it; the
  validations are one step, which may refuse for each reason the handler has. 201 counts
  as 200. The deletion of the device and of the row are one step (`Manager` has these
  apart). The
  library's calls return. Events come only to objects that some handler holds, for
  nobody else reads the status. Only the command line is taken to send its requests
  whole and to give up waiting; any other client may do neither. Headers, request
  identifiers and the bodies of answers are left out.

## 4. Runs

| Run | Instance | Shows |
|---|---|---|
| `send_queue` | 2 callers, queue of 1, 2 messages of one sender, a gap | all of `SendQueue`'s safety, `ImplementsContract`, liveness |
| `send_queue_stopped` | the same, no messages | finding: callers left waiting by `stop` |
| `inbound` | 2 handlers, buffer of 2, 3 messages, own ones and ones without identifier included, the worker | what the webhook is told of is there, and noted |
| `watch` | buffer of 4, polls of 3, 6 messages, 2 texts, restarts, one cut answer | the ring implements the log; each message is printed once and none missed |
| `dispatcher` | 2 workers, 2 attempts, queue of 1, 3 events, 2 closers | everything stated of the dispatcher |
| `pairing` | one login, and a device attached at boot | status, code and JID belong together; pairing ends |
| `pairing_two` | two logins on a new session, with the history of the writes | past their locked sections, one live pairing context; the registry has the session's JID |
| `pairing_wedged` | one login | finding: a failed `Connect` |
| `pairing_orphan` | one login, boot | finding: the replaced client |
| `manager` | 2 Creates, 1 Delete, 1 update, 2 pairings, crashes | row, map and devices agree, also when a session is paired again; one session at work |
| `manager_phantom` | 3 Creates, 2 Deletes | finding: a row without a session |
| `gateway` | one request of any kind, one create, delete or send of the command line, queue of 1 | answers are truthful; shutdown loses nothing and ends |

Why the bounds are enough to be interesting:

- `send_queue`: one caller is served while one waits in the full channel, so
  `ErrQueueFull`, overtaking and a job left behind by `stop` all occur; a second
  message of one sender replaces the first, before, while or after it is read.
- `inbound`: three messages in two places with two handlers: a message can be
  displaced before it is announced, and edits and revocations come for messages that
  are buffered, displaced, not yet stored, or have no identifier.
- `watch`: polls of three from a buffer of four, as 100 of 200 by default: a message
  leaves the request before it leaves the buffer. Six messages take the write position
  past the end, with any slot edited at any time. Restarts are unlimited.
- `dispatcher`: three events against a queue of one and two workers give drops,
  overtaking, retries and a full queue at `Close`. `MaxEvents` bounds the calls.
- `pairing`: one login with `Boot` already gives two clients of one session, with
  `Backlog` 1 so that the emitter blocks. `pairing_two` adds the second login; the
  constraint `OnlyLogins` leaves out stop, logout, unlinking and the three minute
  limit, which `pairing` interleaves.
- `manager`: a second Create during or after a Delete, an update, and any number of
  crashes. Every call is made at most once. `Devices` bounds the pairings: two, of one
  session, of two, or before and after a restart. A second Delete does not fit beside
  them; the theorems of `ManagerProofs` are for any number. The third Create of
  `manager_phantom` is the one refused.
- `gateway`: every endpoint meets a create, a delete or a send of the same id, with or
  without a session at the start, while the process starts, drains, runs out of time or
  exits, and either client goes away. A send against a queue of one finds it full, or
  is caught there, or while typing, or in the hands of the library. A delete may find a
  session whose worker has not begun. Two requests meet at
  any step; what takes more, `SendQueue` (callers of one queue) and `Manager` (creates
  and deletes of one id) check in their detail.

Deadlock is checked for `send_queue`, `inbound` and `watch`, which can always take a step. The
others may come to rest with every call made, so their configurations say
`CHECK_DEADLOCK FALSE`; that nothing stops half way is what their liveness
properties say.

## 5. Properties

`SendQueue`: `OutcomeTells` (what a caller is told is true of its message),
`NeverNilClient` (the worker's snapshot is never nil, whatever pairing does),
`UnreadAccounted` (each inbound message is unread, about to be acknowledged,
acknowledged or superseded, and only one of them), `ReadBeforeReply`,
`CancelledWhileQueued`, `QuietAfterStop`, `HandedIsReported`,
`AnsweredUnlessStopped`, `StopCompletes`, `ImplementsContract`.

`Inbound`: `WebhookBacked` (a message the webhook is told of is in the buffer unless
displaced, and one of someone else is unread, or was acknowledged or replaced by another
since; an edited one shows its new text). A message without an identifier is only
buffered and announced.

`Watch`: `ImplementsLog` (of its `Ring`), `PrintedOnce`, `WatchCatchesUp` (a message is
printed unless more than a poll's worth come after it).

`Dispatcher`: `FateTells` (what became of an event is true of it, and nothing is left
when the workers have gone), `InOrder`, `SettledOnce`, `CloseQuiesces`, `CloseCompletes`,
`AcceptedSettles`.

`Pairing`: `OnePairing` (logins that race each have a live context until their locked
section; past it only the one `pairCancel` ends), `JIDWasPaired`, `Undisturbed` (a connected session has a
paired client and its JID, and a code on offer is its client's and still consumed),
`ConsumerEnds`, `PairingEnds`; `PairingHistory` adds `JIDSaved` (with no write of a JID
pending, the row has the session's, unless the last write failed or two crossed). `Undisturbed` is stated for sessions
whose clients did not overlap (`~rivals`): with an overlap it is false of the code,
which is finding 2.

`Manager`: `AgreeAtRest` (calls that did not overlap leave row, map and device store
saying the same, but for the devices whose session was paired again; a crash may fall
anywhere), `OneAtWork`, `ClosedIsDown`, `DeletedWorkerEnds`.
Each says in its hypotheses which overlaps and failures it excludes; the hazards in
`PROJECT.json` say what happens then.

`Gateway`: `Truthful` (a 2xx is written only when the request did what it asks for, a
4xx only when it did not and never will, so only a 5xx or silence leaves the client in
doubt), `ShutdownLosesNothing`, `HandlersEnd`, `ServerExits`. What the code does not
promise is in their hypotheses: a login answered 404 goes on pairing; a creation answered
409 may leave a row (finding 4); an object taken from the map by a second Delete
(`manager.go:361`), or deleted before its worker began (`manager.go:255`), is not waited
for by a shutdown; and a send queued on a session that
was deleted waits until its client gives up (finding 3).

## 6. Fairness

- *SendQueue*: the worker runs, because each of its waits ends: timers fire, and
  each client call is made under a context of 10 s, 30 s or 2 min. A caller in or
  before its `select` proceeds, and `stop` returns once the WaitGroup is done.
  Nobody has to call, cancel, or change the session. Nothing makes `select` prefer
  `done` over another branch.
- *Dispatcher*: a worker runs, because `http.Client.Timeout` bounds each attempt and
  backoffs are timers; `Close` returns once the WaitGroup is done. The five second
  timer need not expire: `CloseCompletes` rests on retries being bounded.
- *Pairing*: goroutines run; the pairing context's three minutes pass; the library
  ends a stream whose context has ended, and its codes run out. Nobody has to log
  in, scan, or log out.
- *Watch*: ticks go on and not all polls fail; nothing has to arrive.
- *Gateway*: handlers and workers go on while the process lives, for every call they
  make is bounded by a context or a timer, or returns; a handler reads its request only
  when the client sends it. A command receives its answer or gives up, as its HTTP
  client has a time limit (`client.go:33-38`). A shutdown that is not over ends after
  thirty seconds (`main.go:270`), and the process exits when `Manager.Close` returns.
  Nobody has to make a request, and no signal has to come.
- *Manager*: a call that has begun goes on, and a worker told to stop does. The
  process may stay down, and nobody has to call.

## 7. Proofs

Every safety property that a passing run checks is also a theorem: the run shows it on
a small instance, the theorem for every value of the constants under the `ASSUME`s of
the modules. Those are: a queue, ring, backlog, window or retry count of at least one (the
two `withDefaults`, `NewRing`, the library and a constant of `watch` ensure it), finitely
many dispatcher workers, calls and messages numbered, and model values that differ. Each inductive
invariant was first checked by TLC as an invariant of the component's run.

- `SendQueueProofs`. The inductive invariant `IInv` is `TypeOK`, `OutcomeTells` and:
  `WorkerInv` (the worker's locals are set exactly while it serves a job; it leaves
  only after `done`), `LineInv` (a job is in one place, its caller waits or has
  given up, it has no outcome, and it is handed over only while the worker is
  sending it) and `VerdictInv` (handed over and reported agree). `OutcomeTells`
  alone is not inductive: nothing in it says that a job still queued has not been
  handed over already. `TypeCorrect`, `CallersToldTruth` and `ClientNeverNil` follow
  from it. `StoppedIsQuiet` adds that a worker that has left takes no step.
  `CancelledNeverSent` is by a second invariant: a doomed request is still queued,
  or at the context check, or concluded unsent. `NoMessageLost` is by a third,
  `InboxInv`, on the unread messages: what is unread, about to be acknowledged or
  acknowledged has arrived, and there is something left to acknowledge only while the
  worker is reading the chat; otherwise the next `OpenChat` would lose it.
  `ReadsBeforeReplying` follows the targets of one reply from `OpenChat` to `HandOver`.
  `QueueImplementsContract` maps the line to the job in service followed by the
  channel, and each step to a step of the contract or a stutter.
- `InboundProofs`, for any number of handlers, messages and places. `WebhookBacked` speaks
  of one event accepted in the past, so the invariant follows a message from its arrival:
  `OnceInv` (a message with an identifier enters the buffer once and no two handlers bring
  the same),
  `LogInv` (the buffer is the end of what entered it), `DoneInv` (a handler past a step of
  `onMessage` finds what that step did still in place, whatever the others did since)
  and `ToldInv` (so does the dispatcher). Edits need the most: that no copy of the
  message with its old text enters the buffer after the edit was applied there.
  That a message past `trackUnread` is noted survives the other handlers and the worker
  because whatever takes it from `unread` settles it.
- `RingProofs`. `RingTypeOK` is inductive; with it, arithmetic modulo the capacity gives
  where the i-th newest message is and how that moves when one is appended, and
  `RingImplementsLog` follows.
- `WatchProofs` builds on `RingProofs`. The command remembers only its previous poll, so
  that it prints nothing twice rests on `PrintedInv`: what a poll can reach and the
  previous one did not find is newer than all that was printed since the last cut answer. It is preserved because the
  oldest message in reach never becomes older. `SeenInv` says that what watch takes
  for seen was printed, or was there before it, and gives `NothingSkipped`, the safety
  half of `WatchCatchesUp`. What the loop over an answer prints is a recursive function of
  the answer; that it is the unseen messages in the order of arrival is proved by
  taking the first round that would do otherwise. `WatchedBufferIsLog` lifts
  `RingImplementsLog` to the composition.
- `DispatcherProofs`. `IInv` adds `ChannelInv` (the channel holds the last accepted
  events, in order), `WorkerInv` (each worker holds its own job and counts its
  posts), `EventInv` (what is taken and unfinished is held; a posted event leaves a
  worker that is free or holds it or a later one) and `CloserInv`. From it: types,
  fates, draining, and `DeliveredInOrder`, where the unfinished earlier events
  inject into the workers other than that one. `SettledForGood` and `ClosedIsQuiet` are
  action properties from the same invariant.
- `PairingProofs`, for any number of logins and any `Backlog`. `MarkInv` (a JID on its way
  through `markConnected` is of a paired device) gives `OnlyPairedJIDs`; `ContextInv` (a
  live context is of a login that has opened its stream and not come to its locked
  section, or the one `pairCancel` ends) gives `OnePairingAtATime`. `StreamInv`
  says how a QR stream can end, by lemmas on taking and adding the items of a
  channel: a consumer never finds it closed unless its context ended or its last item
  was the scan or a failure. `SoleInv`, `OfferInv` and `ConnectedInv` hold while no two
  clients overlap, and give `PairingUndisturbed`: everything that can act belongs to
  the session's client, a code on offer is being consumed or goes with the
  section of `markConnected` that comes next, and a connected session has its client's
  JID. `SessionJIDSaved` is about `PairingHistory`: its invariant `SavedInv` says that, as
  long as no two writes crossed, all calls that are at their write have one JID, the
  session's, and that otherwise the row has it unless the last write failed.
- `ManagerProofs`, for any number of calls, with failures and crashes at any step.
  `CallInv` gives each call's control and what it knows, `MemoryInv` what a crash and the
  end of the process leave in memory. `WorkInv` gives `NeverTwoAtWork`: unless two Deletes
  have one target, the session a Delete has looked up stays in the map until that Delete
  removes it. `SerialInv`, `RowInv` and `DeviceInv` say, for calls that do not overlap,
  how row, map and devices may differ in the middle of each call and of each pairing, a
  second one of the same session included, and give
  `AgreementAtRest` and `CloseLeavesNoWorker`. `DeviceInv` also speaks of a process that is
  down, since the row and the devices are what a restart begins with.
- `GatewayProofs`, for any number of requests, commands and any queue. `IInv` is
  `TypeOK`, `Truthful` and: `JobInv` (what a send's job has come to says whether the
  message went out, and an answer other than a failure came after its end), `DidInv`
  (which handlers still at work have done what was asked, of which `Truthful` alone says
  nothing), `FoundInv` (a handler past the lookup holds an object) and `StopInv` (who may
  be told to stop, and by whom; once closed in an orderly way, no handler is at work and
  only the worker `Manager.Close` waits for is; a session without a worker is one that
  `Create` is about to start).
  `TypeCorrect`, `AnswersAreTruthful` and `OrderlyShutdown` follow.

Only model-checked: the liveness properties (`HandedIsReported`, `AnsweredUnlessStopped`,
`StopCompletes`, `WatchCatchesUp`, `CloseCompletes`, `AcceptedSettles`, `ConsumerEnds`,
`PairingEnds`, `DeletedWorkerEnds`, `HandlersEnd`, `ServerExits`), because the prover
treats neither fairness nor `ENABLED`, and the four findings, whose counterexamples are
TLC's. The library's induction theorems take an operator, which no backend
instantiates; where a proof here needs induction over numbers it takes a least
counterexample, by `LeastNumber`, from the well-foundedness of `<`.

## 8. Findings

1. `pairing_wedged`: when `client.Connect` fails, `login` (`session.go:225`) leaves
   the status at `pairing`, with no code, and `consumeQR`, which would reset it, is
   not started. Later logins return `ErrQRNotAvailable`.
2. `pairing_orphan`: `login` on a disconnected session replaces a client that is
   still reconnecting with the same handlers; its `Connected` event marks the new,
   unpaired client connected (`session.go:187`, `session.go:303`).
3. `send_queue_stopped`: `stop` leaves jobs in the channel unanswered, and
   `enqueue` does not look at `done` (`session.go:626`); the callers wait for their
   own contexts.
4. `manager_phantom`: a Create between the two last steps of a Delete leaves a row
   without a session (`manager.go:248`): Create then says the id exists, and every
   other call that it does not, until a restart.

The models also show, as hypotheses of the properties and without a run of its own, that a
second pairing leaves a device: `login` refuses only connected and pairing sessions, so
one that is paired and disconnected may be logged in again; it gets a fresh device
(`wa.go:112-115`) and its JID overwrites the old one. `Delete` removes the device of the
current JID only (`manager.go:352`), so the earlier one stays in the store, where no row
names it: `replaced` in `AgreeAtRest`.

## 9. Not modelled

- What `parse.go` copies from an event beside its kind; the strings in `jid.go`,
  `mediaref.go` and `message.go`, and the defaults of `config.go`: pure conversions.
  Their refusals are outcomes of a handler's first steps.
- `typing`: durations are sums of quotients of floats and of random draws, which neither
  TLC nor the provers have; whatever they give is clamped at the end, and `SendQueue` and
  `Gateway` let typing take no time or some. So is the length of a backoff left out.
- The loop of `connect`, and printing (`output.go`, `qr.go`); the example is a
  demonstration.
- SQL, signatures, logging, push names, formats, headers and request identifiers, and
  what the library does inside.

## 10. Plan

Done: `SendContract` and `SendQueue` (the most important behaviour), `Ring`,
`Inbound`, `Watch` composed with `Ring`, `Dispatcher`, `Pairing`, `Manager` with the
registry and the device store, `Gateway` (server, process and client together), and the
proofs above. Next, in this order:

1. The safety halves of the liveness properties as theorems: which step is possible in
   every state that still owes an answer, and what it brings closer to the end, as
   `NothingSkipped` does for `watch`.
2. `Connect`, the polling loop of the command line against a changing pairing:
   `connect` ends, and what it says of a pairing is so.
3. The arithmetic of the backoff, with 64 bit wrap-around, against its stated range.
