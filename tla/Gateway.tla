------------------------------ MODULE Gateway -------------------------------
(***************************************************************************)
(* The wavonyx service as its clients see it: requests over HTTP, the       *)
(* handlers of server.go, the Manager and session methods they call, the     *)
(* life of the serve process, and the command line as one of the clients.    *)
(* There is one session id; a session object is named after the request      *)
(* that created it, or Boot when Start did.  What the methods do inside is   *)
(* reduced to what an answer may depend on: modules Manager, Pairing and     *)
(* SendQueue have the rest.                                                  *)
(***************************************************************************)
EXTENDS Naturals, FiniteSets

CONSTANTS
    Requests,    \* HTTP requests, each made once
    Commands,    \* those made by the command line, which does not wait for ever
    Boot,        \* the session object Start makes
    None,
    Endpoints,   \* what each of them may be for
    QueueSize    \* Config.SendQueue

Objects == Requests \union {Boot}

Ops == {"health", "create", "list", "get", "update", "login", "qr", "logout", "delete",
        "send", "recent", "download", "edit", "revoke", "other"}

\* Those the command line has calls for.
Calls == Ops \ {"other"}

ASSUME GatewayAssumption ==
    /\ Commands \subseteq Requests
    /\ Endpoints \in [Requests -> SUBSET Ops]
    /\ \A r \in Commands : Endpoints[r] \subseteq Calls
    /\ Boot \notin Requests /\ None \notin Objects
    /\ QueueSize \in Nat \ {0}

VARIABLES
    proc,      \* the process: "starting", "serving", "draining", "closing", "exited"
    abrupt,    \* it closes without having waited for its handlers
    closed,    \* the object in the map when Manager.Close took its snapshot
    row,       \* the row of the registry: "absent" or "present"
    current,   \* the object in m.sessions, or None
    status,    \* per object: its status
    worker,    \* per object: "none", "running", "stopping" (done is closed), "left";
               \* "halted": done was closed before the worker began; "late": it began then
    op, stage, \* per request: its endpoint, and where its handler is
    answer,    \* per request: the status code written, or 0
    obj,       \* per request: the session object its handler found
    job,       \* per request: its send job
    did,       \* requests that did what they ask for
    report     \* per request: what its client makes of it

processVars == <<proc, abrupt, closed>>
sessionVars == <<row, current, status, worker>>
handlerVars == <<op, stage, answer, obj>>
vars == <<processVars, sessionVars, handlerVars, job, did, report>>

Statuses == {"created", "pairing", "connected", "disconnected", "logged_out"}

-----------------------------------------------------------------------------
(* What is refused, and the status codes. *)

Text      == {"missing_text", "invalid_typing"}
Recipient == {"invalid_recipient"}
Token     == {"invalid_token"}
Webhook   == {"invalid_webhook"}

Conflicts == {"session_exists", "already_connected", "not_connected", "not_logged_in"}
Missing   == {"session_not_found", "qr_not_available", "unknown_route"}
Failures  == {"send_failed", "media_download_failed"}

\* Mutant: a failed send is reported as a conflict.
StatusOfAsConflict(code) ==
    CASE code = "ok"                           -> 200
      [] code = "unauthorized"                 -> 401
      [] code \in Missing                      -> 404
      [] code \in Conflicts \union Failures    -> 409
      [] code = "media_too_large"              -> 413
      [] code = "queue_full"                   -> 429
      [] code = "internal"                     -> 500
      [] OTHER                                 -> 400

\* classify, with the codes the handlers write themselves; 201 counts as 200.
StatusOf(code) ==
    CASE code = "ok"                           -> 200
      [] code = "unauthorized"                 -> 401
      [] code \in Missing                      -> 404
      [] code \in Conflicts                    -> 409
      [] code = "media_too_large"              -> 413
      [] code = "queue_full"                   -> 429
      [] code = "internal"                     -> 500
      [] code \in Failures                     -> 502
      [] OTHER                                 -> 400

Success == {200}
Refusal == {400, 401, 404, 409, 413, 429}
Failure == {500, 502}

-----------------------------------------------------------------------------
Init ==
    /\ proc = "starting" /\ abrupt = FALSE /\ closed = None
    /\ row \in {"absent", "present"} /\ current = None
    /\ status = [o \in Objects |-> "created"]
    /\ worker = [o \in Objects |-> "none"]
    /\ op = [r \in Requests |-> "none"] /\ stage = [r \in Requests |-> "new"]
    /\ answer = [r \in Requests |-> 0] /\ obj = [r \in Requests |-> None]
    /\ job = [r \in Requests |-> "none"]
    /\ did = {}
    /\ report = [r \in Requests |-> "none"]

InFlight(r) == stage[r] \notin {"new", "unsent", "answered", "cut"}

At(r, o, s) == op[r] = o /\ stage[r] = s

Moves(r, to) == stage' = [stage EXCEPT ![r] = to] /\ UNCHANGED <<op, answer, obj>>

\* writeData, writeError and writeAPIError; the handler returns.
Answers(r, code) ==
    /\ answer' = [answer EXCEPT ![r] = StatusOf(code)]
    /\ stage' = [stage EXCEPT ![r] = "answered"]
    /\ UNCHANGED <<op, obj>>

AnswersOneOf(r, codes) == \E code \in codes : Answers(r, code)

Does(r) == did' = did \union {r}

-----------------------------------------------------------------------------
(* Clients. *)

\* A connection is accepted only while the process listens.
Submits(r) ==
    /\ stage[r] = "new"
    /\ \/ /\ proc = "serving"
          /\ \E o \in Endpoints[r] : op' = [op EXCEPT ![r] = o]
          /\ stage' = [stage EXCEPT ![r] = "parsing"]
          /\ report' = [report EXCEPT ![r] = "waiting"]
       \/ /\ proc # "serving"
          /\ stage' = [stage EXCEPT ![r] = "unsent"]
          /\ report' = [report EXCEPT ![r] = "lost"]
          /\ UNCHANGED op
    /\ UNCHANGED <<processVars, sessionVars, answer, obj, job, did>>

\* decodeEnvelope: the status decides.  A body that is cut short goes unnoticed, and
\* the command goes on without data, but a download fails.
Receives(r) ==
    /\ report[r] = "waiting" /\ stage[r] = "answered"
    /\ \E what \in IF answer[r] \notin Success THEN {"refused"}
                   ELSE IF op[r] = "download" THEN {"done", "lost"} ELSE {"done"} :
          report' = [report EXCEPT ![r] = what]
    /\ UNCHANGED <<processVars, sessionVars, handlerVars, job, did>>

\* The client's timeout, an interrupt, or a broken connection, before an answer comes:
\* the context of the handler ends.
GivesUp(r) ==
    /\ report[r] = "waiting" /\ stage[r] # "answered"
    /\ report' = [report EXCEPT ![r] = "lost"]
    /\ UNCHANGED <<processVars, sessionVars, handlerVars, job, did>>

CtxDone(r) == report[r] = "lost"

-----------------------------------------------------------------------------
(* Handlers, up to the call of the Manager: what each refuses by itself.  The checks *)
(* the Manager makes before it looks for the session are among them.                 *)

auth == {"unauthorized"}

decodeJSON == {"invalid_json"}

parseMultipart == {"media_too_large", "invalid_multipart", "missing_file", "invalid_typing"}

Handles(r, o, refusals, next) ==
    /\ At(r, o, "parsing")
    /\ AnswersOneOf(r, refusals) \/ Moves(r, next)
    /\ UNCHANGED <<processVars, sessionVars, job, did, report>>

health(r)         == Handles(r, "health", {}, "calling")
createSession(r)  ==
    Handles(r, "create", auth \union decodeJSON \union Webhook \union {"invalid_session_id"},
            "calling")
listSessions(r)   == Handles(r, "list", auth, "calling")
getSession(r)     == Handles(r, "get", auth, "finding")
updateSession(r)  ==
    Handles(r, "update", auth \union decodeJSON \union Webhook \union {"missing_webhook_url"},
            "finding")
login(r)          == Handles(r, "login", auth, "finding")
qr(r)             == Handles(r, "qr", auth, "finding")
logout(r)         == Handles(r, "logout", auth, "finding")
deleteSession(r)  == Handles(r, "delete", auth, "finding")
sendMessage(r)    == Handles(r, "send", auth \union decodeJSON \union parseMultipart, "finding")
recentMessages(r) == Handles(r, "recent", auth \union {"invalid_limit"}, "finding")
downloadMedia(r)  == Handles(r, "download", auth \union Token, "finding")
editMessage(r)    == Handles(r, "edit", auth \union decodeJSON, "finding")
revokeMessage(r)  == Handles(r, "revoke", auth \union decodeJSON, "finding")

notFound(r) ==
    /\ At(r, "other", "parsing")
    /\ Answers(r, "unknown_route")
    /\ UNCHANGED <<processVars, sessionVars, job, did, report>>

Parses(r) ==
    \/ health(r) \/ notFound(r) \/ createSession(r) \/ listSessions(r) \/ getSession(r)
    \/ updateSession(r) \/ login(r) \/ qr(r) \/ logout(r) \/ deleteSession(r)
    \/ sendMessage(r) \/ recentMessages(r) \/ downloadMedia(r) \/ editMessage(r)
    \/ revokeMessage(r)

-----------------------------------------------------------------------------
(* Handlers: finding the session, and reading it. *)

\* Manager.session: the object found is used from here on, deleted or not.
Finds(r) ==
    /\ stage[r] = "finding"
    /\ \/ current = None /\ Answers(r, "session_not_found")
       \/ /\ current # None
          /\ obj' = [obj EXCEPT ![r] = current]
          /\ stage' = [stage EXCEPT ![r] = "calling"]
          /\ UNCHANGED <<op, answer>>
    /\ UNCHANGED <<processVars, sessionVars, job, did, report>>

\* List, Get and Recent (and health) only read.
Reads(r) ==
    /\ op[r] \in {"health", "list", "get", "recent"} /\ stage[r] = "calling"
    /\ Answers(r, "ok") /\ Does(r)
    /\ UNCHANGED <<processVars, sessionVars, job, report>>

\* There is a code only while pairing, and not always then.
currentQR(r) ==
    /\ At(r, "qr", "calling")
    /\ \/ status[obj[r]] = "pairing" /\ Answers(r, "ok") /\ Does(r)
       \/ Answers(r, "qr_not_available") /\ UNCHANGED did
    /\ UNCHANGED <<processVars, sessionVars, job, report>>

-----------------------------------------------------------------------------
(* Handlers: sessions come and go.  A statement of the registry may fail. *)

CreatesRow(r) ==
    /\ At(r, "create", "calling")
    /\ \/ row = "present" /\ Answers(r, "session_exists") /\ UNCHANGED row
       \/ Answers(r, "internal") /\ UNCHANGED row
       \/ row = "absent" /\ row' = "present" /\ Moves(r, "mapping")
    /\ UNCHANGED <<processVars, current, status, worker, job, did, report>>

\* Enters the map, unless an object is still there: from here on it can be found.
CreatesSession(r) ==
    /\ At(r, "create", "mapping")
    /\ \/ current # None /\ Answers(r, "session_exists") /\ UNCHANGED current
       \/ current = None /\ current' = r /\ Moves(r, "starting")
    /\ UNCHANGED <<processVars, row, status, worker, job, did, report>>

\* Mutant: the worker is not started.
StartsNothing(r) ==
    /\ At(r, "create", "starting")
    /\ Answers(r, "ok") /\ Does(r)
    /\ UNCHANGED <<processVars, sessionVars, job, report>>

\* start, after the lock is released: the object may have been stopped by now.
StartsWorker(r) ==
    /\ At(r, "create", "starting")
    /\ worker' = [worker EXCEPT ![r] = IF @ = "none" THEN "running" ELSE "late"]
    /\ Answers(r, "ok") /\ Does(r)
    /\ UNCHANGED <<processVars, row, current, status, job, report>>

UpdateWebhook(r) ==
    /\ At(r, "update", "calling")
    /\ \/ row = "present" /\ Answers(r, "ok") /\ Does(r)
       \/ row = "absent" /\ Answers(r, "session_not_found") /\ UNCHANGED did
       \/ Answers(r, "internal") /\ UNCHANGED did
    /\ UNCHANGED <<processVars, sessionVars, job, report>>

\* The worker of an object is in the middle of a job.
Busy(o) == \E r \in Requests : obj[r] = o /\ job[r] \in {"typing", "sending"}

CloseDone(o) ==
    worker' = [worker EXCEPT ![o] = CASE @ = "running" -> "stopping"
                                      [] @ = "none"    -> "halted"
                                      [] OTHER         -> @]

\* What stop waits for: a worker that has not begun does not count (WaitGroup).
Awaited(o) == worker[o] \in {"halted", "left"}

DoneIsClosed(o) == worker[o] \in {"stopping", "late"}

DeleteStops(r) ==
    /\ At(r, "delete", "calling")
    /\ CloseDone(obj[r])
    /\ Moves(r, "stopping")
    /\ UNCHANGED <<processVars, row, current, status, job, did, report>>

\* stop has waited for a worker that had begun; the client is disconnected, the device deleted,
\* and then the row.
DeletesRow(r) ==
    /\ At(r, "delete", "stopping")
    /\ Awaited(obj[r])
    /\ \/ row' = "absent" /\ Moves(r, "unmapping")
       \/ Answers(r, "internal") /\ UNCHANGED row
    /\ UNCHANGED <<processVars, current, status, worker, job, did, report>>

DeletesSession(r) ==
    /\ At(r, "delete", "unmapping")
    /\ current' = None
    /\ Answers(r, "ok") /\ Does(r)
    /\ UNCHANGED <<processVars, row, status, worker, job, report>>

-----------------------------------------------------------------------------
(* Handlers: pairing. *)

\* The switch on the status.
LogsIn(r) ==
    /\ At(r, "login", "calling")
    /\ \/ status[obj[r]] = "connected" /\ Answers(r, "already_connected") /\ UNCHANGED did
       \/ status[obj[r]] = "pairing" /\ Answers(r, "ok") /\ Does(r)
       \/ status[obj[r]] = "pairing" /\ Answers(r, "qr_not_available") /\ UNCHANGED did
       \/ /\ status[obj[r]] \notin {"connected", "pairing"}
          /\ Moves(r, "opening") /\ UNCHANGED did
    /\ UNCHANGED <<processVars, sessionVars, job, report>>

\* NewClient and PairQR, and the session is pairing, whatever its status has become;
\* that pairing goes on whatever the request is answered.
BeginsPairing(r) ==
    /\ At(r, "login", "opening")
    /\ \/ Answers(r, "internal") /\ UNCHANGED <<status, did>>
       \/ /\ status' = [status EXCEPT ![obj[r]] = "pairing"]
          /\ Moves(r, "pairing") /\ Does(r)
    /\ UNCHANGED <<processVars, row, current, worker, job, report>>

\* Connect fails or the context ends; no code in fifteen seconds, or the pairing ends
\* first; or the first code.
LoginReturns(r) ==
    /\ At(r, "login", "pairing")
    /\ AnswersOneOf(r, {"internal", "qr_not_available", "ok"})
    /\ UNCHANGED <<processVars, sessionVars, job, did, report>>

LogsOut(r) ==
    /\ At(r, "logout", "calling")
    /\ \/ status[obj[r]] \in {"connected", "disconnected"} /\ Moves(r, "asking")
       \/ Answers(r, "not_logged_in")   \* another status, or no client
    /\ UNCHANGED <<processVars, sessionVars, job, did, report>>

LogoutReturns(r) ==
    /\ At(r, "logout", "asking")
    /\ \/ Answers(r, "internal") /\ UNCHANGED <<status, did>>
       \/ /\ status' = [status EXCEPT ![obj[r]] = "logged_out"]
          /\ Answers(r, "ok") /\ Does(r)
    /\ UNCHANGED <<processVars, row, current, worker, job, report>>

\* Events of the library and the end of a pairing, for an object that has a client;
\* only while a handler has the object, for nobody else reads its status.
Event(o) ==
    /\ \E r \in Requests : InFlight(r) /\ obj[r] = o
    /\ \/ status[o] \notin {"created", "logged_out"}
       \/ \E r \in Requests : op[r] = "login" /\ obj[r] = o /\ stage[r] # "calling"
    /\ \E s \in {"connected", "logged_out"}
               \union (IF status[o] = "connected" THEN {"disconnected"} ELSE {"pairing"})
               \union (IF status[o] = "pairing" THEN {"created"} ELSE {}) :
          status' = [status EXCEPT ![o] = s]
    /\ UNCHANGED <<processVars, row, current, worker, handlerVars, job, did, report>>

-----------------------------------------------------------------------------
(* Handlers: messages. *)

\* What the session checks of what it is given, before it looks at its status.
send      == Text \union Recipient
sendMedia == {"missing_media", "media_too_large", "invalid_typing"} \union Recipient

\* connectedClient, and then the call of the library begins.
Asks(r, o, refusals) ==
    /\ At(r, o, "calling")
    /\ \/ AnswersOneOf(r, refusals) /\ UNCHANGED did
       \/ Answers(r, "not_connected") /\ UNCHANGED did   \* another status, or no client
       \/ status[obj[r]] = "connected" /\ Moves(r, "asking") /\ Does(r)
    /\ UNCHANGED <<processVars, sessionVars, job, report>>

Edits(r)     == Asks(r, "edit", {"missing_text"} \union Recipient)
Revokes(r)   == Asks(r, "revoke", Recipient)
Downloads(r) == Asks(r, "download", Token)

Asked(r, o, failure) ==
    /\ At(r, o, "asking")
    /\ AnswersOneOf(r, {"ok", failure})
    /\ UNCHANGED <<processVars, sessionVars, job, did, report>>

Edited(r)     == Asked(r, "edit", "send_failed")
Revoked(r)    == Asked(r, "revoke", "send_failed")
Downloaded(r) == Asked(r, "download", "media_download_failed")

Queue(o) == {r \in Requests : obj[r] = o /\ job[r] = "queued"}

\* The checks, and enqueue up to the select on the channel.
Enqueues(r) ==
    /\ At(r, "send", "calling")
    /\ \/ AnswersOneOf(r, send \union sendMedia) /\ UNCHANGED job
       \/ Answers(r, "not_connected") /\ status[obj[r]] # "connected" /\ UNCHANGED job
       \/ /\ status[obj[r]] = "connected"
          /\ IF Cardinality(Queue(obj[r])) < QueueSize
             THEN Moves(r, "queued") /\ job' = [job EXCEPT ![r] = "queued"]
             ELSE Answers(r, "queue_full") /\ UNCHANGED job
    /\ UNCHANGED <<processVars, sessionVars, did, report>>

\* Mutant: the caller waits for the worker only.
AwaitsForEver(r) ==
    /\ At(r, "send", "queued")
    /\ \/ job[r] = "sent" /\ Answers(r, "ok")
       \/ job[r] = "failed" /\ Answers(r, "send_failed")
       \/ job[r] = "offline" /\ Answers(r, "not_connected")
       \/ job[r] = "cancelled" /\ Answers(r, "internal")
    /\ UNCHANGED <<processVars, sessionVars, job, did, report>>

\* The wait for the outcome or the end of the context.
Awaits(r) ==
    /\ At(r, "send", "queued")
    /\ \/ job[r] = "sent" /\ Answers(r, "ok")
       \/ job[r] = "failed" /\ Answers(r, "send_failed")
       \/ job[r] = "offline" /\ Answers(r, "not_connected")
       \/ (job[r] = "cancelled" \/ CtxDone(r)) /\ Answers(r, "internal")
    /\ UNCHANGED <<processVars, sessionVars, job, did, report>>

-----------------------------------------------------------------------------
(* The worker of a session; in which order it takes the jobs is module SendQueue's *)
(* matter.                                                                          *)

Job(r, from, to) == job[r] = from /\ job' = [job EXCEPT ![r] = to]

\* It may still find a job queued when done is closed.
Takes(r) ==
    /\ worker[obj[r]] = "running" \/ DoneIsClosed(obj[r])
    /\ ~Busy(obj[r])
    /\ \/ CtxDone(r) /\ Job(r, "queued", "cancelled")
       \/ ~CtxDone(r) /\ Job(r, "queued", "offline")   \* another status, or no client
       \/ ~CtxDone(r) /\ status[obj[r]] = "connected" /\ Job(r, "queued", "typing")
    /\ UNCHANGED did

\* Mutant: an interrupted job is given its outcome and sent all the same.
TypesOn(r) ==
    /\ \/ DoneIsClosed(obj[r]) /\ Job(r, "typing", "offline") /\ Does(r)
       \/ CtxDone(r) /\ Job(r, "typing", "cancelled") /\ UNCHANGED did
       \/ Job(r, "typing", "sending") /\ Does(r)

\* Typing is interrupted, or the message is handed to the library.
Types(r) ==
    /\ \/ DoneIsClosed(obj[r]) /\ Job(r, "typing", "offline") /\ UNCHANGED did
       \/ CtxDone(r) /\ Job(r, "typing", "cancelled") /\ UNCHANGED did
       \/ Job(r, "typing", "sending") /\ Does(r)

Sent(r) == \E end \in {"sent", "failed"} : Job(r, "sending", end) /\ UNCHANGED did

Works(r) ==
    /\ job[r] # "none"
    /\ Takes(r) \/ Types(r) \/ Sent(r)
    /\ UNCHANGED <<processVars, sessionVars, handlerVars, report>>

\* Mutant: stop does not wait for the job in hand.
WorkerDropped(o) ==
    /\ DoneIsClosed(o)
    /\ worker' = [worker EXCEPT ![o] = "left"]
    /\ UNCHANGED <<processVars, row, current, status, handlerVars, job, did, report>>

WorkerLeaves(o) ==
    /\ DoneIsClosed(o) /\ ~Busy(o)
    /\ worker' = [worker EXCEPT ![o] = "left"]
    /\ UNCHANGED <<processVars, row, current, status, handlerVars, job, did, report>>

-----------------------------------------------------------------------------
(* The serve process. *)

\* NewManager and Start: an object for the row, or a failure and the process dies.
Start ==
    /\ proc = "starting"
    /\ \/ /\ proc' = "exited"
          /\ UNCHANGED sessionVars
       \/ /\ proc' = "serving"
          /\ IF row = "present"
             THEN /\ current' = Boot
                  /\ worker' = [worker EXCEPT ![Boot] = "running"]
                  /\ \E s \in {"created", "disconnected", "logged_out"} :
                        status' = [status EXCEPT ![Boot] = s]
             ELSE UNCHANGED <<current, worker, status>>
          /\ UNCHANGED row
    /\ UNCHANGED <<abrupt, closed, handlerVars, job, did, report>>

\* SIGINT or SIGTERM: Shutdown stops listening and waits for the handlers.
Signal ==
    /\ proc = "serving"
    /\ proc' = "draining"
    /\ UNCHANGED <<abrupt, closed, sessionVars, handlerVars, job, did, report>>

\* Manager.Close: the sessions of the map are stopped.
Close ==
    /\ proc' = "closing"
    /\ closed' = current
    /\ IF current # None THEN CloseDone(current) ELSE UNCHANGED worker
    /\ UNCHANGED <<row, current, status, handlerVars, job, did, report>>

\* Mutant: Shutdown is not waited for.
DrainedAtOnce == proc = "draining" /\ Close /\ UNCHANGED abrupt

Drained ==
    /\ proc = "draining"
    /\ \A r \in Requests : ~InFlight(r)
    /\ Close /\ UNCHANGED abrupt

\* Mutant: the shutdown has no time limit.
DrainTimesOutNever == FALSE /\ UNCHANGED vars

\* Thirty seconds, or ListenAndServe fails while serving.
DrainTimesOut == proc = "draining" /\ Close /\ abrupt' = TRUE

ListenFails == proc = "serving" /\ Close /\ abrupt' = TRUE

\* Close has waited for the workers that had begun; the handlers still at work are cut off.
Exits ==
    /\ proc = "closing"
    /\ \A o \in Objects : o = closed => Awaited(o)
    /\ proc' = "exited"
    /\ stage' = [r \in Requests |-> IF InFlight(r) THEN "cut" ELSE stage[r]]
    /\ UNCHANGED <<abrupt, closed, sessionVars, op, answer, obj, job, did, report>>

-----------------------------------------------------------------------------
Handler(r) ==
    \/ Parses(r) \/ Finds(r) \/ Reads(r) \/ currentQR(r)
    \/ CreatesRow(r) \/ CreatesSession(r) \/ StartsWorker(r) \/ UpdateWebhook(r)
    \/ DeleteStops(r) \/ DeletesRow(r) \/ DeletesSession(r)
    \/ LogsIn(r) \/ BeginsPairing(r) \/ LoginReturns(r) \/ LogsOut(r) \/ LogoutReturns(r)
    \/ Edits(r) \/ Revokes(r) \/ Downloads(r) \/ Edited(r) \/ Revoked(r) \/ Downloaded(r)
    \/ Enqueues(r) \/ Awaits(r)

Server == Start \/ Signal \/ Drained \/ DrainTimesOut \/ ListenFails \/ Exits

Next ==
    \/ \E r \in Requests : Submits(r) \/ Receives(r) \/ GivesUp(r)
    \/ /\ proc # "exited"
       /\ \/ \E r \in Requests : Handler(r) \/ Works(r)
          \/ \E o \in Objects : Event(o) \/ WorkerLeaves(o)
    \/ Server

Spec == Init /\ [][Next]_vars

\* What goes on by itself while the process lives: handlers (one reads its request
\* only when the client sends it, which a command does) and workers.
Running ==
    /\ proc # "exited"
    /\ \/ \E r \in Requests : Works(r) \/ (Handler(r) /\ (stage[r] # "parsing" \/ r \in Commands))
       \/ \E o \in Objects : WorkerLeaves(o)

\* Those steps are finitely many, so fairness to any of them is fairness to each.  A
\* command gives up in the end, and a shutdown has a time limit.
Fairness ==
    /\ WF_vars(Running)
    /\ WF_vars(\E r \in Commands : Receives(r) \/ GivesUp(r))
    /\ WF_vars(DrainTimesOut \/ Exits)

FairSpec == Spec /\ Fairness

-----------------------------------------------------------------------------
(* Properties. *)

CanBeFound(o) == o = current \/ \E r \in Requests : obj[r] = o

\* Every variable has its type; an answer has a status code; and an object that can be
\* found but never had a worker is one whose Create is about to start it (manager.go:255),
\* or was cut off there.
TypeOK ==
    /\ proc \in {"starting", "serving", "draining", "closing", "exited"}
    /\ abrupt \in BOOLEAN /\ closed \in Objects \union {None}
    /\ row \in {"absent", "present"} /\ current \in Objects \union {None}
    /\ status \in [Objects -> Statuses]
    /\ worker \in [Objects -> {"none", "running", "stopping", "left", "halted", "late"}]
    /\ op \in [Requests -> Ops \union {"none"}]
    /\ stage \in [Requests -> {"new", "unsent", "parsing", "finding", "calling", "mapping",
                               "starting", "stopping", "unmapping", "opening", "pairing", "asking",
                               "queued", "answered", "cut"}]
    /\ answer \in [Requests -> {0} \union Success \union Refusal \union Failure]
    /\ obj \in [Requests -> Objects \union {None}]
    /\ job \in [Requests -> {"none", "queued", "typing", "sending", "sent", "failed",
                             "offline", "cancelled"}]
    /\ did \subseteq Requests
    /\ report \in [Requests -> {"none", "waiting", "lost", "refused", "done"}]
    /\ \A r \in Requests : (stage[r] = "answered") <=> (answer[r] # 0)
    /\ \A o \in Objects : CanBeFound(o) /\ worker[o] \in {"none", "halted"} =>
          o \in Requests /\ stage[o] \in {"starting", "cut"}

\* The answer tells what happened (server.go:438-495, session.go:523-609): a 2xx is
\* written only when the request did what it asks for, also when the caller and the
\* worker disagree about who finishes first; a 4xx only when it did not and never will,
\* so that repeating it is safe.  Only a 5xx, or no answer, leaves the client in doubt.
\* A login's 404 is left out: the pairing it began goes on.  (A creation's 409 may leave
\* a row behind, but no session: see module Manager.)
Truthful ==
    \A r \in Requests :
        /\ answer[r] \in Success => r \in did
        /\ answer[r] \in Refusal /\ op[r] # "login" => r \notin did
        /\ report[r] = "done" => answer[r] \in Success

\* A shutdown that did not run out of time (main.go:268-275) answered every request
\* that had come in, and left no message in the hands of the library, not even one
\* whose caller was gone before the shutdown began; but an object that is no longer in
\* the map is not waited for if nobody stopped it (manager.go:361), or its worker began
\* only afterwards (manager.go:255).
ShutdownLosesNothing ==
    proc = "exited" /\ ~abrupt =>
        \A r \in Requests :
            /\ stage[r] # "cut"
            /\ job[r] \in {"typing", "sending"} =>
                  obj[r] # current /\ worker[obj[r]] \in {"running", "late"}

\* A send that waits in the queue of an object whose worker has left.
Stranded(r) == At(r, "send", "queued") /\ worker[obj[r]] = "left"

\* Handlers end (server.go, session.go:540-545): in the end none is at work, but where
\* a client neither sends the whole request nor gives up, or waits for ever on a
\* session deleted meanwhile.
HandlersEnd ==
    <>[]\A r \in Requests :
            InFlight(r) => r \notin Commands /\ (stage[r] = "parsing" \/ Stranded(r))

\* Once asked to stop (main.go:257-275) the process does not stay half closed: it
\* exits, whatever its clients do.
ServerExits == <>[](proc \notin {"draining", "closing"})
=============================================================================
