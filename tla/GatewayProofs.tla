--------------------------- MODULE GatewayProofs ----------------------------
(***************************************************************************)
(* Proofs about the service for every set of requests and every queue       *)
(* size: an answer tells the truth, and a shutdown loses nothing.           *)
(***************************************************************************)
EXTENDS Gateway, TLAPS

\* A send and its job: what the job has come to says whether the message went out, and
\* an answer that is not a failure was given after the job's end.
JobInv ==
    \A r \in Requests :
        /\ job[r] # "none" => op[r] = "send" /\ stage[r] \in {"queued", "answered", "cut"}
        /\ stage[r] = "queued" => op[r] = "send" /\ job[r] # "none"
        /\ job[r] # "none" => (r \in did <=> job[r] \in {"sending", "sent", "failed"})
        /\ answer[r] \in Success \union Refusal =>
              job[r] \in {"none", "sent", "failed", "offline", "cancelled"}

\* Which handlers have done what they were asked for.
DidInv ==
    \A r \in Requests :
        /\ stage[r] \in {"new", "unsent", "parsing", "finding", "calling", "mapping",
                         "starting", "stopping", "unmapping", "opening"} => r \notin did
        /\ stage[r] = "pairing" => op[r] = "login" /\ r \in did
        /\ stage[r] = "asking" =>
              /\ op[r] \in {"edit", "revoke", "download", "logout"}
              /\ r \in did <=> op[r] # "logout"

\* Which handlers have a session object.
Holds == {"update", "login", "qr", "logout", "delete", "send", "recent", "download",
          "edit", "revoke", "get"}

FoundInv ==
    \A r \in Requests :
        /\ stage[r] \in {"stopping", "unmapping"} => op[r] = "delete" /\ obj[r] # None
        /\ stage[r] \in {"opening", "pairing"} => op[r] = "login" /\ obj[r] # None
        /\ stage[r] = "asking" \/ job[r] # "none" => obj[r] # None
        /\ stage[r] = "calling" /\ op[r] \in Holds => obj[r] # None

\* Who is told to stop, and by whom: while the process serves, by a deletion that waits;
\* once it closes in order, by Manager.Close.
StopInv ==
    /\ \A r \in Requests :
          /\ job[r] \in {"typing", "sending"} => worker[obj[r]] \in {"running", "stopping", "late"}
          /\ stage[r] = "cut" => proc = "exited"
          /\ proc = "starting" => stage[r] \in {"new", "unsent"}
    /\ proc = "starting" =>
          current = None /\ closed = None /\ \A o \in Objects : worker[o] = "none"
    /\ proc \in {"starting", "serving", "draining"} =>
          \A o \in Objects : worker[o] = "stopping" =>
              \E r \in Requests : At(r, "delete", "stopping") /\ obj[r] = o
    /\ proc \in {"closing", "exited"} /\ ~abrupt =>
          /\ \A r \in Requests : ~InFlight(r) /\ stage[r] # "cut"
          /\ \A o \in Objects : worker[o] = "stopping" => o = closed
          /\ current = closed
          /\ closed # None => worker[closed] \in {"stopping", "late", "left"}
          /\ proc = "exited" /\ closed # None => worker[closed] = "left"

IInv == TypeOK /\ JobInv /\ DidInv /\ FoundInv /\ StopInv /\ Truthful

-----------------------------------------------------------------------------
(* Status codes. *)

Refused ==
    auth \union decodeJSON \union parseMultipart \union Webhook \union Text \union Recipient
    \union Token \union Missing \union Conflicts
    \union {"invalid_session_id", "missing_webhook_url", "invalid_limit", "missing_media",
            "media_too_large", "queue_full"}

\* A refusal has a 4xx code, a failure of WhatsApp 502, and success 200.
LEMMA Codes ==
    /\ \A code \in Refused : StatusOf(code) \in Refusal
    /\ StatusOf("ok") = 200 /\ StatusOf("internal") = 500
    /\ \A code \in Failures : StatusOf(code) = 502
<1> USE DEF StatusOf, Missing, Conflicts, Failures, Refusal
<1>1. \A code \in Refused : StatusOf(code) \in Refusal
  BY DEF Refused, auth, decodeJSON, parseMultipart, Webhook, Text, Recipient, Token
<1>2. StatusOf("ok") = 200 /\ StatusOf("internal") = 500
  OBVIOUS
<1>3. \A code \in Failures : StatusOf(code) = 502
  OBVIOUS
<1> QED BY <1>1, <1>2, <1>3

\* It holds at the start: there are no requests yet, and no objects.
LEMMA InitInv == Init => IInv
<1> SUFFICES ASSUME Init PROVE IInv
  OBVIOUS
<1> USE GatewayAssumption DEF Init, Objects
<1>1. TypeOK
  BY DEF TypeOK, Statuses, CanBeFound
<1>2. JobInv /\ DidInv /\ FoundInv /\ Truthful
  BY DEF JobInv, DidInv, FoundInv, Truthful, Success, Refusal
<1>3. StopInv
  BY DEF StopInv
<1> QED BY <1>1, <1>2, <1>3 DEF IInv

\* One step per group of actions; the variables a group writes stay in their types.
LEMMA StepTypeOK ==
    ASSUME IInv, Next PROVE TypeOK'
<1> USE GatewayAssumption, Codes
    DEF IInv, TypeOK, FoundInv, Holds, Objects, Statuses, Ops, Success, Refusal, Failure,
        Refused,
        auth, decodeJSON, parseMultipart, Webhook, Text, Recipient, Token, Missing,
            Conflicts, Failures,
        send, sendMedia, CloseDone, Awaited, DoneIsClosed, CanBeFound, processVars, sessionVars, handlerVars, At, Moves,
            Answers, AnswersOneOf, Does, Job, InFlight
<1>1. CASE \E r \in Requests : Parses(r)
  BY <1>1 DEF Parses, Handles, health, notFound, createSession, listSessions, getSession,
      updateSession, login, qr, logout, deleteSession, sendMessage, recentMessages,
      downloadMedia, editMessage, revokeMessage
<1>2. CASE \E r \in Requests :
            Submits(r) \/ Receives(r) \/ GivesUp(r)
  BY <1>2 DEF Submits, Receives, GivesUp
<1>3. CASE \E r \in Requests :
            Finds(r) \/ Reads(r) \/ currentQR(r)
  BY <1>3 DEF Finds, Reads, currentQR
<1>4. CASE \E r \in Requests :
            CreatesRow(r) \/ CreatesSession(r) \/ StartsWorker(r) \/ UpdateWebhook(r) \/
                DeleteStops(r) \/ DeletesRow(r) \/ DeletesSession(r)
  BY <1>4 DEF CreatesRow, CreatesSession, StartsWorker, UpdateWebhook, DeleteStops, DeletesRow,
      DeletesSession
<1>5. CASE \E r \in Requests :
            LogsIn(r) \/ BeginsPairing(r) \/ LoginReturns(r) \/ LogsOut(r) \/ LogoutReturns(r)
  BY <1>5 DEF LogsIn, BeginsPairing, LoginReturns, LogsOut, LogoutReturns
<1>6. CASE \E r \in Requests :
            Edits(r) \/ Revokes(r) \/ Downloads(r) \/ Edited(r) \/ Revoked(r) \/ Downloaded(r)
  BY <1>6 DEF Edits, Revokes, Downloads, Edited, Revoked, Downloaded, Asks, Asked
<1>7. CASE \E r \in Requests :
            Enqueues(r) \/ Awaits(r)
  BY <1>7 DEF Enqueues, Awaits
<1>8. CASE \E r \in Requests : Works(r) /\ Takes(r)
  BY <1>8 DEF Works, Takes
<1>9. CASE \E r \in Requests : Works(r) /\ Types(r)
  BY <1>9 DEF Works, Types
<1>10. CASE \E r \in Requests : Works(r) /\ Sent(r)
  BY <1>10 DEF Works, Sent
<1>11. CASE \E o \in Objects : Event(o)
  BY <1>11 DEF Event
<1>12. CASE \E o \in Objects : WorkerLeaves(o)
  BY <1>12 DEF WorkerLeaves
<1>13. CASE Start
  BY <1>13 DEF Start
<1>14. CASE Signal
  BY <1>14 DEF Signal
<1>15. CASE Drained
  BY <1>15 DEF Drained, Close
<1>16. CASE DrainTimesOut
  BY <1>16 DEF DrainTimesOut, Close
<1>17. CASE ListenFails
  BY <1>17 DEF ListenFails, Close
<1>18. CASE Exits
  BY <1>18 DEF Exits
<1> QED BY <1>1, <1>2, <1>3, <1>4, <1>5, <1>6, <1>7, <1>8, <1>9, <1>10, <1>11, <1>12, <1>13,
    <1>14, <1>15, <1>16, <1>17, <1>18 DEF Next, Handler, Server, Works

\* A request has a job only if it is a send that found an object; its handler waits for
\* that job until it has an outcome.
LEMMA StepJobInv ==
    ASSUME IInv, Next PROVE JobInv'
<1> USE GatewayAssumption, Codes
    DEF IInv, TypeOK, JobInv, DidInv, Refused, Success, Refusal, Failure,
        auth, decodeJSON, parseMultipart, Webhook, Text, Recipient, Token, Missing,
            Conflicts, Failures,
        send, sendMedia, CloseDone, Awaited, DoneIsClosed, CanBeFound, processVars, sessionVars, handlerVars, At, Moves,
            Answers, AnswersOneOf, Does, Job, InFlight
<1>1. CASE \E r \in Requests : Parses(r)
  BY <1>1 DEF Parses, Handles, health, notFound, createSession, listSessions, getSession,
      updateSession, login, qr, logout, deleteSession, sendMessage, recentMessages,
      downloadMedia, editMessage, revokeMessage
<1>2. CASE \E r \in Requests :
            Submits(r) \/ Receives(r) \/ GivesUp(r)
  BY <1>2 DEF Submits, Receives, GivesUp
<1>3. CASE \E r \in Requests :
            Finds(r) \/ Reads(r) \/ currentQR(r)
  BY <1>3 DEF Finds, Reads, currentQR
<1>4. CASE \E r \in Requests :
            CreatesRow(r) \/ CreatesSession(r) \/ StartsWorker(r) \/ UpdateWebhook(r) \/
                DeleteStops(r) \/ DeletesRow(r) \/ DeletesSession(r)
  BY <1>4 DEF CreatesRow, CreatesSession, StartsWorker, UpdateWebhook, DeleteStops, DeletesRow,
      DeletesSession
<1>5. CASE \E r \in Requests :
            LogsIn(r) \/ BeginsPairing(r) \/ LoginReturns(r) \/ LogsOut(r) \/ LogoutReturns(r)
  BY <1>5 DEF LogsIn, BeginsPairing, LoginReturns, LogsOut, LogoutReturns
<1>6. CASE \E r \in Requests :
            Edits(r) \/ Revokes(r) \/ Downloads(r) \/ Edited(r) \/ Revoked(r) \/ Downloaded(r)
  BY <1>6 DEF Edits, Revokes, Downloads, Edited, Revoked, Downloaded, Asks, Asked
<1>7. CASE \E r \in Requests :
            Enqueues(r) \/ Awaits(r)
  BY <1>7 DEF Enqueues, Awaits
<1>8. CASE \E r \in Requests : Works(r) /\ Takes(r)
  BY <1>8 DEF Works, Takes
<1>9. CASE \E r \in Requests : Works(r) /\ Types(r)
  BY <1>9 DEF Works, Types
<1>10. CASE \E r \in Requests : Works(r) /\ Sent(r)
  BY <1>10 DEF Works, Sent
<1>11. CASE \E o \in Objects : Event(o)
  BY <1>11 DEF Event
<1>12. CASE \E o \in Objects : WorkerLeaves(o)
  BY <1>12 DEF WorkerLeaves
<1>13. CASE Start
  BY <1>13 DEF Start
<1>14. CASE Signal
  BY <1>14 DEF Signal
<1>15. CASE Drained
  BY <1>15 DEF Drained, Close
<1>16. CASE DrainTimesOut
  BY <1>16 DEF DrainTimesOut, Close
<1>17. CASE ListenFails
  BY <1>17 DEF ListenFails, Close
<1>18. CASE Exits
  BY <1>18 DEF Exits
<1> QED BY <1>1, <1>2, <1>3, <1>4, <1>5, <1>6, <1>7, <1>8, <1>9, <1>10, <1>11, <1>12, <1>13,
    <1>14, <1>15, <1>16, <1>17, <1>18 DEF Next, Handler, Server, Works

\* What has been done so far, told from where the handler and the job are.
LEMMA StepDidInv ==
    ASSUME IInv, Next PROVE DidInv'
<1> USE GatewayAssumption, Codes
    DEF IInv, TypeOK, JobInv, DidInv, Refused, Success, Refusal, Failure,
        auth, decodeJSON, parseMultipart, Webhook, Text, Recipient, Token, Missing,
            Conflicts, Failures,
        send, sendMedia, CloseDone, Awaited, DoneIsClosed, CanBeFound, processVars, sessionVars, handlerVars, At, Moves,
            Answers, AnswersOneOf, Does, Job, InFlight
<1>1. CASE \E r \in Requests : Parses(r)
  BY <1>1 DEF Parses, Handles, health, notFound, createSession, listSessions, getSession,
      updateSession, login, qr, logout, deleteSession, sendMessage, recentMessages,
      downloadMedia, editMessage, revokeMessage
<1>2. CASE \E r \in Requests :
            Submits(r) \/ Receives(r) \/ GivesUp(r)
  BY <1>2 DEF Submits, Receives, GivesUp
<1>3. CASE \E r \in Requests :
            Finds(r) \/ Reads(r) \/ currentQR(r)
  BY <1>3 DEF Finds, Reads, currentQR
<1>4. CASE \E r \in Requests :
            CreatesRow(r) \/ CreatesSession(r) \/ StartsWorker(r) \/ UpdateWebhook(r) \/
                DeleteStops(r) \/ DeletesRow(r) \/ DeletesSession(r)
  BY <1>4 DEF CreatesRow, CreatesSession, StartsWorker, UpdateWebhook, DeleteStops, DeletesRow,
      DeletesSession
<1>5. CASE \E r \in Requests :
            LogsIn(r) \/ BeginsPairing(r) \/ LoginReturns(r) \/ LogsOut(r) \/ LogoutReturns(r)
  BY <1>5 DEF LogsIn, BeginsPairing, LoginReturns, LogsOut, LogoutReturns
<1>6. CASE \E r \in Requests :
            Edits(r) \/ Revokes(r) \/ Downloads(r) \/ Edited(r) \/ Revoked(r) \/ Downloaded(r)
  BY <1>6 DEF Edits, Revokes, Downloads, Edited, Revoked, Downloaded, Asks, Asked
<1>7. CASE \E r \in Requests :
            Enqueues(r) \/ Awaits(r)
  BY <1>7 DEF Enqueues, Awaits
<1>8. CASE \E r \in Requests : Works(r) /\ Takes(r)
  BY <1>8 DEF Works, Takes
<1>9. CASE \E r \in Requests : Works(r) /\ Types(r)
  BY <1>9 DEF Works, Types
<1>10. CASE \E r \in Requests : Works(r) /\ Sent(r)
  BY <1>10 DEF Works, Sent
<1>11. CASE \E o \in Objects : Event(o)
  BY <1>11 DEF Event
<1>12. CASE \E o \in Objects : WorkerLeaves(o)
  BY <1>12 DEF WorkerLeaves
<1>13. CASE Start
  BY <1>13 DEF Start
<1>14. CASE Signal
  BY <1>14 DEF Signal
<1>15. CASE Drained
  BY <1>15 DEF Drained, Close
<1>16. CASE DrainTimesOut
  BY <1>16 DEF DrainTimesOut, Close
<1>17. CASE ListenFails
  BY <1>17 DEF ListenFails, Close
<1>18. CASE Exits
  BY <1>18 DEF Exits
<1> QED BY <1>1, <1>2, <1>3, <1>4, <1>5, <1>6, <1>7, <1>8, <1>9, <1>10, <1>11, <1>12, <1>13,
    <1>14, <1>15, <1>16, <1>17, <1>18 DEF Next, Handler, Server, Works

\* A handler past the lookup has an object, and only those need one.
LEMMA StepFoundInv ==
    ASSUME IInv, Next PROVE FoundInv'
<1> USE GatewayAssumption, Codes
    DEF IInv, TypeOK, JobInv, FoundInv, Holds, Refused, Success, Refusal, Failure,
        auth, decodeJSON, parseMultipart, Webhook, Text, Recipient, Token, Missing,
            Conflicts, Failures,
        send, sendMedia, CloseDone, Awaited, DoneIsClosed, CanBeFound, processVars, sessionVars, handlerVars, At, Moves,
            Answers, AnswersOneOf, Does, Job, InFlight
<1>1. CASE \E r \in Requests : Parses(r)
  BY <1>1 DEF Parses, Handles, health, notFound, createSession, listSessions, getSession,
      updateSession, login, qr, logout, deleteSession, sendMessage, recentMessages,
      downloadMedia, editMessage, revokeMessage
<1>2. CASE \E r \in Requests :
            Submits(r) \/ Receives(r) \/ GivesUp(r)
  BY <1>2 DEF Submits, Receives, GivesUp
<1>3. CASE \E r \in Requests :
            Finds(r) \/ Reads(r) \/ currentQR(r)
  BY <1>3 DEF Finds, Reads, currentQR
<1>4. CASE \E r \in Requests :
            CreatesRow(r) \/ CreatesSession(r) \/ StartsWorker(r) \/ UpdateWebhook(r) \/
                DeleteStops(r) \/ DeletesRow(r) \/ DeletesSession(r)
  BY <1>4 DEF CreatesRow, CreatesSession, StartsWorker, UpdateWebhook, DeleteStops, DeletesRow,
      DeletesSession
<1>5. CASE \E r \in Requests :
            LogsIn(r) \/ BeginsPairing(r) \/ LoginReturns(r) \/ LogsOut(r) \/ LogoutReturns(r)
  BY <1>5 DEF LogsIn, BeginsPairing, LoginReturns, LogsOut, LogoutReturns
<1>6. CASE \E r \in Requests :
            Edits(r) \/ Revokes(r) \/ Downloads(r) \/ Edited(r) \/ Revoked(r) \/ Downloaded(r)
  BY <1>6 DEF Edits, Revokes, Downloads, Edited, Revoked, Downloaded, Asks, Asked
<1>7. CASE \E r \in Requests :
            Enqueues(r) \/ Awaits(r)
  BY <1>7 DEF Enqueues, Awaits
<1>8. CASE \E r \in Requests : Works(r) /\ Takes(r)
  BY <1>8 DEF Works, Takes
<1>9. CASE \E r \in Requests : Works(r) /\ Types(r)
  BY <1>9 DEF Works, Types
<1>10. CASE \E r \in Requests : Works(r) /\ Sent(r)
  BY <1>10 DEF Works, Sent
<1>11. CASE \E o \in Objects : Event(o)
  BY <1>11 DEF Event
<1>12. CASE \E o \in Objects : WorkerLeaves(o)
  BY <1>12 DEF WorkerLeaves
<1>13. CASE Start
  BY <1>13 DEF Start
<1>14. CASE Signal
  BY <1>14 DEF Signal
<1>15. CASE Drained
  BY <1>15 DEF Drained, Close
<1>16. CASE DrainTimesOut
  BY <1>16 DEF DrainTimesOut, Close
<1>17. CASE ListenFails
  BY <1>17 DEF ListenFails, Close
<1>18. CASE Exits
  BY <1>18 DEF Exits
<1> QED BY <1>1, <1>2, <1>3, <1>4, <1>5, <1>6, <1>7, <1>8, <1>9, <1>10, <1>11, <1>12, <1>13,
    <1>14, <1>15, <1>16, <1>17, <1>18 DEF Next, Handler, Server, Works

\* Answers are written where the code that is answered agrees with DidInv and JobInv.
LEMMA StepTruthful ==
    ASSUME IInv, Next PROVE Truthful'
<1> USE GatewayAssumption, Codes
    DEF IInv, TypeOK, JobInv, DidInv, Truthful, Refused, Success, Refusal, Failure,
        auth, decodeJSON, parseMultipart, Webhook, Text, Recipient, Token, Missing,
            Conflicts, Failures,
        send, sendMedia, CloseDone, Awaited, DoneIsClosed, CanBeFound, processVars, sessionVars, handlerVars, At, Moves,
            Answers, AnswersOneOf, Does, Job, InFlight
<1>1. CASE \E r \in Requests : Parses(r)
  BY <1>1 DEF Parses, Handles, health, notFound, createSession, listSessions, getSession,
      updateSession, login, qr, logout, deleteSession, sendMessage, recentMessages,
      downloadMedia, editMessage, revokeMessage
<1>2. CASE \E r \in Requests :
            Submits(r) \/ Receives(r) \/ GivesUp(r)
  BY <1>2 DEF Submits, Receives, GivesUp
<1>3. CASE \E r \in Requests :
            Finds(r) \/ Reads(r) \/ currentQR(r)
  BY <1>3 DEF Finds, Reads, currentQR
<1>4. CASE \E r \in Requests :
            CreatesRow(r) \/ CreatesSession(r) \/ StartsWorker(r) \/ UpdateWebhook(r) \/
                DeleteStops(r) \/ DeletesRow(r) \/ DeletesSession(r)
  BY <1>4 DEF CreatesRow, CreatesSession, StartsWorker, UpdateWebhook, DeleteStops, DeletesRow,
      DeletesSession
<1>5. CASE \E r \in Requests :
            LogsIn(r) \/ BeginsPairing(r) \/ LoginReturns(r) \/ LogsOut(r) \/ LogoutReturns(r)
  BY <1>5 DEF LogsIn, BeginsPairing, LoginReturns, LogsOut, LogoutReturns
<1>6. CASE \E r \in Requests :
            Edits(r) \/ Revokes(r) \/ Downloads(r) \/ Edited(r) \/ Revoked(r) \/ Downloaded(r)
  BY <1>6 DEF Edits, Revokes, Downloads, Edited, Revoked, Downloaded, Asks, Asked
<1>7. CASE \E r \in Requests :
            Enqueues(r) \/ Awaits(r)
  BY <1>7 DEF Enqueues, Awaits
<1>8. CASE \E r \in Requests : Works(r) /\ Takes(r)
  BY <1>8 DEF Works, Takes
<1>9. CASE \E r \in Requests : Works(r) /\ Types(r)
  BY <1>9 DEF Works, Types
<1>10. CASE \E r \in Requests : Works(r) /\ Sent(r)
  BY <1>10 DEF Works, Sent
<1>11. CASE \E o \in Objects : Event(o)
  BY <1>11 DEF Event
<1>12. CASE \E o \in Objects : WorkerLeaves(o)
  BY <1>12 DEF WorkerLeaves
<1>13. CASE Start
  BY <1>13 DEF Start
<1>14. CASE Signal
  BY <1>14 DEF Signal
<1>15. CASE Drained
  BY <1>15 DEF Drained, Close
<1>16. CASE DrainTimesOut
  BY <1>16 DEF DrainTimesOut, Close
<1>17. CASE ListenFails
  BY <1>17 DEF ListenFails, Close
<1>18. CASE Exits
  BY <1>18 DEF Exits
<1> QED BY <1>1, <1>2, <1>3, <1>4, <1>5, <1>6, <1>7, <1>8, <1>9, <1>10, <1>11, <1>12, <1>13,
    <1>14, <1>15, <1>16, <1>17, <1>18 DEF Next, Handler, Server, Works

\* While the process closes, and after it, nothing is in flight but after a shutdown that
\* ran out of time; and a job in hand keeps its worker from leaving.
LEMMA StepStopInv ==
    ASSUME IInv, Next PROVE StopInv'
<1> USE GatewayAssumption, Codes
    DEF IInv, TypeOK, JobInv, FoundInv, StopInv, Refused, Success, Refusal, Failure,
        auth, decodeJSON, parseMultipart, Webhook, Text, Recipient, Token, Missing,
            Conflicts, Failures,
        send, sendMedia, CloseDone, Awaited, DoneIsClosed, CanBeFound, processVars, sessionVars, handlerVars, At, Moves,
            Answers, AnswersOneOf, Does, Job, InFlight
<1>1. CASE \E r \in Requests : Parses(r)
  BY <1>1 DEF Parses, Handles, health, notFound, createSession, listSessions, getSession,
      updateSession, login, qr, logout, deleteSession, sendMessage, recentMessages,
      downloadMedia, editMessage, revokeMessage
<1>2. CASE \E r \in Requests :
            Submits(r) \/ Receives(r) \/ GivesUp(r)
  BY <1>2 DEF Submits, Receives, GivesUp
<1>3. CASE \E r \in Requests :
            Finds(r) \/ Reads(r) \/ currentQR(r)
  BY <1>3 DEF Finds, Reads, currentQR
<1>4. CASE \E r \in Requests :
            CreatesRow(r) \/ CreatesSession(r) \/ StartsWorker(r) \/ UpdateWebhook(r) \/
                DeleteStops(r) \/ DeletesRow(r) \/ DeletesSession(r)
  BY <1>4 DEF CreatesRow, CreatesSession, StartsWorker, UpdateWebhook, DeleteStops, DeletesRow,
      DeletesSession
<1>5. CASE \E r \in Requests :
            LogsIn(r) \/ BeginsPairing(r) \/ LoginReturns(r) \/ LogsOut(r) \/ LogoutReturns(r)
  BY <1>5 DEF LogsIn, BeginsPairing, LoginReturns, LogsOut, LogoutReturns
<1>6. CASE \E r \in Requests :
            Edits(r) \/ Revokes(r) \/ Downloads(r) \/ Edited(r) \/ Revoked(r) \/ Downloaded(r)
  BY <1>6 DEF Edits, Revokes, Downloads, Edited, Revoked, Downloaded, Asks, Asked
<1>7. CASE \E r \in Requests :
            Enqueues(r) \/ Awaits(r)
  BY <1>7 DEF Enqueues, Awaits
<1>8. CASE \E r \in Requests : Works(r) /\ Takes(r)
  BY <1>8 DEF Works, Takes
<1>9. CASE \E r \in Requests : Works(r) /\ Types(r)
  BY <1>9 DEF Works, Types
<1>10. CASE \E r \in Requests : Works(r) /\ Sent(r)
  BY <1>10 DEF Works, Sent
<1>11. CASE \E o \in Objects : Event(o)
  BY <1>11 DEF Event
<1>12. CASE \E o \in Objects : WorkerLeaves(o)
  BY <1>12 DEF WorkerLeaves, Busy
<1>13. CASE Start
  BY <1>13 DEF Start, Objects
<1>14. CASE Signal
  BY <1>14 DEF Signal
<1>15. CASE Drained
  BY <1>15 DEF Drained, Close
<1>16. CASE DrainTimesOut
  BY <1>16 DEF DrainTimesOut, Close
<1>17. CASE ListenFails
  BY <1>17 DEF ListenFails, Close
<1>18. CASE Exits
  BY <1>18 DEF Exits
<1> QED BY <1>1, <1>2, <1>3, <1>4, <1>5, <1>6, <1>7, <1>8, <1>9, <1>10, <1>11, <1>12, <1>13,
    <1>14, <1>15, <1>16, <1>17, <1>18 DEF Next, Handler, Server, Works

\* The parts together.
LEMMA StepInv == IInv /\ [Next]_vars => IInv'
<1> SUFFICES ASSUME IInv, [Next]_vars PROVE IInv'
  OBVIOUS
<1>1. CASE Next
  BY <1>1, StepTypeOK, StepJobInv, StepDidInv, StepFoundInv, StepStopInv, StepTruthful DEF IInv
<1>2. CASE UNCHANGED vars
  BY <1>2 DEF vars, processVars, sessionVars, handlerVars, IInv, TypeOK, JobInv, DidInv,
      FoundInv,
              StopInv, Truthful, InFlight, At, CanBeFound
<1> QED BY <1>1, <1>2

\* The inductive invariant holds throughout.
LEMMA Invariance == Spec => []IInv
BY InitInv, StepInv, PTL DEF Spec

\* The state of the service keeps its type; an object that can be found but never had a
\* worker is one whose Create is about to start it (manager.go:255), or was cut off there.
THEOREM TypeCorrect == Spec => []TypeOK
<1>1. IInv => TypeOK
  BY DEF IInv
<1> QED BY <1>1, Invariance, PTL

\* A 2xx only for a request that was done, and a 4xx only for one that never will be
\* (server.go:438-495), whatever the other requests, the worker and the process do.
THEOREM AnswersAreTruthful == Spec => []Truthful
<1>1. IInv => Truthful
  BY DEF IInv
<1> QED BY <1>1, Invariance, PTL

\* A shutdown within its time (main.go:268-275) answers every request that came in and
\* leaves no message in the hands of the library, but for the objects nobody waits for.
THEOREM OrderlyShutdown == Spec => []ShutdownLosesNothing
<1>1. IInv => ShutdownLosesNothing
  BY DEF IInv, TypeOK, JobInv, FoundInv, StopInv, ShutdownLosesNothing, Objects
<1> QED BY <1>1, Invariance, PTL
=============================================================================
