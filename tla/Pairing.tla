------------------------------ MODULE Pairing -------------------------------
(***************************************************************************)
(* The life cycle of one session of session.go: concurrent login calls,    *)
(* the consumeQR goroutine of each, the event handlers bound to every       *)
(* client the session has had, logout, the attach of a paired session at    *)
(* boot, and the end of stop.  A login call is identified with the client   *)
(* it creates, and a device JID with the client that was paired as it.      *)
(* The WhatsApp library is modelled from its use in wa.go: a client dials,  *)
(* drops and reconnects, streams QR items, and reports events.              *)
(***************************************************************************)
EXTENDS Naturals, Sequences, FiniteSets

CONSTANTS
    Logins,      \* calls of login, and the clients they create
    Boot,        \* the client attach loads for a session already paired
    NoClient,
    Backlog      \* capacity of the channel PairQR returns

ASSUME PairingAssumption ==
    /\ Boot \notin Logins
    /\ NoClient \notin Logins \union {Boot}
    /\ Backlog \in Nat \ {0}

Clients == Logins \union {Boot}

VARIABLES
    status, client, jid,  \* session fields, guarded by mu
    qr,          \* the client whose unexpired code is offered
    cancelOf,    \* the login whose context pairCancel ends
    row,         \* the JID in the registry
    link,        \* per client: "off", "dialing" (or reconnecting), "up", "online"
    paired,      \* per client: "no", "yes", "unlinked"
    ctx,         \* per login, its pairing context: "none", "live", "cancelled", "expired"
    stream,      \* per login, the library's QR emitter: "none", "opened" by PairQR,
                 \* "emitting" codes, "closed"
    items,       \* per login: QR items not yet consumed
    login,       \* per login: control point or result
    eater,       \* per login: its consumeQR goroutine
    mark,        \* calls of markConnected under way
    leaver,      \* the client a logout call works on
    leaving,     \* that call: "idle", "asking", "unlinked"
    stopped,     \* stop has disconnected the client
    rivals       \* auxiliary: a client was installed while another was alive

sessionVars == <<status, client, jid, qr, cancelOf, row>>
deviceVars  == <<link, paired>>
streamVars  == <<stream, items>>
logoutVars  == <<leaver, leaving>>
vars == <<sessionVars, deviceVars, ctx, streamVars, login, eater, mark, logoutVars,
          stopped, rivals>>

\* markConnected runs in consumeQR ("scan") and in the Connected handler ("event").
Markers == ({"scan"} \X Logins) \union ({"event"} \X Clients)

Resting == [step |-> "out", who |-> NoClient]

Init ==
    /\ \/ \* newSession, never paired
          /\ status = "created" /\ client = NoClient /\ row = NoClient
          /\ link = [c \in Clients |-> "off"]
          /\ paired = [c \in Clients |-> "no"]
       \/ \* Start found the device and attach loaded it
          /\ status = "disconnected" /\ client = Boot /\ row = Boot
          /\ link = [c \in Clients |-> IF c = Boot THEN "dialing" ELSE "off"]
          /\ paired = [c \in Clients |-> IF c = Boot THEN "yes" ELSE "no"]
       \/ \* Start did not find it, or LoadClient failed
          /\ status = "logged_out" /\ client = NoClient /\ row = Boot
          /\ link = [c \in Clients |-> "off"]
          /\ paired = [c \in Clients |-> IF c = Boot THEN "unlinked" ELSE "no"]
    /\ jid = row
    /\ qr = NoClient /\ cancelOf = NoClient
    /\ ctx = [l \in Logins |-> "none"]
    /\ stream = [l \in Logins |-> "none"]
    /\ items = [l \in Logins |-> <<>>]
    /\ login = [l \in Logins |-> "new"]
    /\ eater = [l \in Logins |-> "off"]
    /\ mark = [k \in Markers |-> Resting]
    /\ leaver = NoClient /\ leaving = "idle"
    /\ stopped = FALSE /\ rivals = FALSE

\* The context of a login, when there is one, ends unless it already has.
Cancelled(l) == [ctx EXCEPT ![l] = IF @ = "live" THEN "cancelled" ELSE @]

\* pairCancel(), when there is one.
PairCancel == IF cancelOf = NoClient THEN ctx ELSE Cancelled(cancelOf)

\* client.Disconnect(); the library does not reconnect after it.
Off(c) == IF c = NoClient THEN link ELSE [link EXCEPT ![c] = "off"]

-----------------------------------------------------------------------------
(* login *)

Goes(l, to) == login' = [login EXCEPT ![l] = to]

\* The switch on the status: an error, or in pairing the code on offer if there is
\* one, is returned.  mu is released before the client is made.
BeginLogin(l) ==
    /\ login[l] = "new"
    /\ \/ status \in {"connected", "pairing"} /\ Goes(l, "returned")
       \/ status \notin {"connected", "pairing"} /\ Goes(l, "passed")
    /\ UNCHANGED <<sessionVars, deviceVars, ctx, streamVars, eater, mark,
                   logoutVars, stopped, rivals>>

\* Something of client c can still act on the session.
Alive(c) ==
    \/ link[c] # "off"
    \/ mark[<<"event", c>>] # Resting
    \/ c \in Logins /\ (login[c] = "installed" \/ eater[c] \in {"reading", "scanned"})

\* NewClient and PairQR, either of which may fail: from here the context of this login
\* is live, whatever other logins do.
Opens(l) ==
    /\ login[l] = "passed"
    /\ \/ Goes(l, "returned") /\ UNCHANGED <<ctx, stream>>
       \/ /\ Goes(l, "opened")
          /\ ctx' = [ctx EXCEPT ![l] = "live"]
          /\ stream' = [stream EXCEPT ![l] = "opened"]
    /\ UNCHANGED <<sessionVars, deviceVars, items, eater, mark, logoutVars, stopped, rivals>>

\* Mutant: the pairing under way is not cancelled.
InstallUncancelling(l) ==
    /\ login[l] = "opened"
    /\ Goes(l, "installed")
    /\ client' = l /\ status' = "pairing" /\ qr' = NoClient /\ cancelOf' = l
    /\ link' = [link EXCEPT ![l] = "dialing"]
    /\ rivals' = (rivals \/ \E c \in Clients \ {l} : Alive(c))
    /\ UNCHANGED <<jid, row, paired, ctx, streamVars, eater, mark, logoutVars, stopped>>

\* The locked section: the context pairCancel ends is ended and replaced.
Install(l) ==
    /\ login[l] = "opened"
    /\ Goes(l, "installed")
    /\ client' = l /\ status' = "pairing" /\ qr' = NoClient /\ cancelOf' = l
    /\ ctx' = PairCancel
    /\ link' = [link EXCEPT ![l] = "dialing"]
    /\ rivals' = (rivals \/ \E c \in Clients \ {l} : Alive(c))
    /\ UNCHANGED <<jid, row, paired, streamVars, eater, mark, logoutVars, stopped>>

\* client.Connect(), then go consumeQR; on an error the status stays as it is.
Connect(l) ==
    /\ login[l] = "installed"
    /\ \/ /\ link' = [link EXCEPT ![l] = "up"]
          /\ eater' = [eater EXCEPT ![l] = "reading"]
          /\ Goes(l, "waiting")
          /\ UNCHANGED ctx
       \/ /\ link' = Off(l)
          /\ ctx' = Cancelled(l)
          /\ Goes(l, "failed")
          /\ UNCHANGED eater
    /\ UNCHANGED <<sessionVars, paired, streamVars, mark, logoutVars, stopped, rivals>>

\* The select on the first code, the caller's context and fifteen seconds: any of
\* them, since the caller's context may end at any time.
LoginReturns(l) ==
    /\ login[l] = "waiting"
    /\ Goes(l, "returned")
    /\ UNCHANGED <<sessionVars, deviceVars, ctx, streamVars, eater, mark,
                   logoutVars, stopped, rivals>>

-----------------------------------------------------------------------------
(* markConnected: read session.client; ask it for its JID; record; persist. *)

\* Mutant: no test for a nil client.
ReadsUnchecked(k) == mark' = [mark EXCEPT ![k] = [step |-> "ask", who |-> client]]

Reads(k) == mark' = [mark EXCEPT ![k] =
    IF client = NoClient THEN Resting ELSE [step |-> "ask", who |-> client]]

\* Mutant: an unpaired client's JID is recorded too.
MarkAsksAny(k) ==
    /\ mark[k].step = "ask"
    /\ mark' = [mark EXCEPT ![k] = [@ EXCEPT !.step = "record"]]
    /\ UNCHANGED <<sessionVars, deviceVars, ctx, streamVars, login, eater, logoutVars,
                   stopped, rivals>>

MarkAsks(k) ==
    /\ mark[k].step = "ask"
    /\ mark' = [mark EXCEPT ![k] =
           [step |-> "record", who |-> IF paired[@.who] = "yes" THEN @.who ELSE NoClient]]
    /\ UNCHANGED <<sessionVars, deviceVars, ctx, streamVars, login, eater, logoutVars,
                   stopped, rivals>>

\* Mutant: the JID of a session that had one before is not written.
MarkRecordsFirst(k) ==
    /\ mark[k].step = "record"
    /\ status' = "connected" /\ qr' = NoClient
    /\ jid' = IF mark[k].who = NoClient THEN jid ELSE mark[k].who
    /\ mark' = [mark EXCEPT ![k] =
           IF mark[k].who = NoClient \/ jid # NoClient THEN Resting
           ELSE [@ EXCEPT !.step = "persist"]]
    /\ UNCHANGED <<client, cancelOf, row, deviceVars, ctx, streamVars, login, eater,
                   logoutVars, stopped, rivals>>

\* Mutant: a session that has a JID keeps it.
MarkRecordsOnce(k) ==
    /\ mark[k].step = "record"
    /\ status' = "connected" /\ qr' = NoClient
    /\ jid' = IF jid # NoClient THEN jid ELSE mark[k].who
    /\ mark' = [mark EXCEPT ![k] =
           IF mark[k].who = NoClient \/ jid' = jid THEN Resting
           ELSE [@ EXCEPT !.step = "persist"]]
    /\ UNCHANGED <<client, cancelOf, row, deviceVars, ctx, streamVars, login, eater,
                   logoutVars, stopped, rivals>>

MarkRecords(k) ==
    /\ mark[k].step = "record"
    /\ status' = "connected" /\ qr' = NoClient
    /\ jid' = IF mark[k].who = NoClient THEN jid ELSE mark[k].who
    /\ mark' = [mark EXCEPT ![k] =
           IF mark[k].who \in {NoClient, jid} THEN Resting ELSE [@ EXCEPT !.step = "persist"]]
    /\ UNCHANGED <<client, cancelOf, row, deviceVars, ctx, streamVars, login, eater,
                   logoutVars, stopped, rivals>>

\* UpdateJID, whose failure is logged.
MarkPersists(k) ==
    /\ mark[k].step = "persist"
    /\ row' \in {mark[k].who, row}
    /\ mark' = [mark EXCEPT ![k] = Resting]
    /\ UNCHANGED <<status, client, jid, qr, cancelOf, deviceVars, ctx, streamVars, login,
                   eater, logoutVars, stopped, rivals>>

Mark(k) == MarkAsks(k) \/ MarkRecords(k) \/ MarkPersists(k)

-----------------------------------------------------------------------------
(* consumeQR *)

Eats(l, item) ==
    /\ eater[l] = "reading"
    /\ items[l] # <<>>
    /\ Head(items[l]) = item
    /\ items' = [items EXCEPT ![l] = Tail(@)]

\* Mutant: first has no buffer, and login may have left.
EatCodeUnbuffered(l) ==
    /\ login[l] = "waiting"
    /\ Eats(l, "code")
    /\ qr' = l
    /\ status' = IF status = "connected" THEN status ELSE "pairing"
    /\ UNCHANGED <<client, jid, cancelOf, row, deviceVars, ctx, stream, login, eater, mark,
                   logoutVars, stopped, rivals>>

\* The value for login fits in the channel first, so signal never waits.
EatCode(l) ==
    /\ Eats(l, "code")
    /\ qr' = l
    /\ status' = IF status = "connected" THEN status ELSE "pairing"
    /\ UNCHANGED <<client, jid, cancelOf, row, deviceVars, ctx, stream, login, eater,
                   mark, logoutVars, stopped, rivals>>

EatSuccess(l) ==
    /\ Eats(l, "success")
    /\ eater' = [eater EXCEPT ![l] = "scanned"]
    /\ Reads(<<"scan", l>>)
    /\ UNCHANGED <<sessionVars, deviceVars, ctx, stream, login, logoutVars,
                   stopped, rivals>>

\* markConnected has returned: terminal, cancel().
Scanned(l) ==
    /\ eater[l] = "scanned"
    /\ mark[<<"scan", l>>] = Resting
    /\ eater' = [eater EXCEPT ![l] = "draining"]
    /\ ctx' = Cancelled(l)
    /\ UNCHANGED <<sessionVars, deviceVars, streamVars, login, mark, logoutVars, stopped,
                   rivals>>

\* Mutant: a pairing that fails leaves the session as it is.
EatFailureQuietly(l) ==
    /\ Eats(l, "failure")
    /\ eater' = [eater EXCEPT ![l] = "draining"]
    /\ ctx' = Cancelled(l)
    /\ UNCHANGED <<sessionVars, deviceVars, stream, login, mark, logoutVars, stopped,
                   rivals>>

\* "timeout" or "error": failPairing, terminal, cancel().
EatFailure(l) ==
    /\ Eats(l, "failure")
    /\ status' = IF status = "pairing" THEN "created" ELSE status
    /\ qr' = NoClient
    /\ client' = NoClient
    /\ link' = Off(client)
    /\ eater' = [eater EXCEPT ![l] = "draining"]
    /\ ctx' = Cancelled(l)
    /\ UNCHANGED <<jid, cancelOf, row, paired, stream, login, mark, logoutVars,
                   stopped, rivals>>

\* The channel is closed and empty: the deferred cancel().  Nothing
\* follows a terminal item, so draining is waiting for the close.
EaterEnds(l) ==
    /\ eater[l] \in {"reading", "draining"}
    /\ items[l] = <<>> /\ stream[l] = "closed"
    /\ eater' = [eater EXCEPT ![l] = "over"]
    /\ ctx' = Cancelled(l)
    /\ UNCHANGED <<sessionVars, deviceVars, streamVars, login, mark, logoutVars, stopped,
                   rivals>>

Eater(l) == EatCode(l) \/ EatSuccess(l) \/ Scanned(l) \/ EatFailure(l) \/ EaterEnds(l)

-----------------------------------------------------------------------------
(* logout and stop *)

\* The client and the status are read under mu; ErrNotLoggedIn changes nothing.
LogoutBegins ==
    /\ leaving = "idle"
    /\ client # NoClient /\ status \in {"connected", "disconnected"}
    /\ leaver' = client /\ leaving' = "asking"
    /\ UNCHANGED <<sessionVars, deviceVars, ctx, streamVars, login, eater, mark, stopped,
                   rivals>>

\* client.Logout: an error, or the device is unlinked and deleted.
LogoutAsks ==
    /\ leaving = "asking"
    /\ \/ /\ leaving' = "idle" /\ leaver' = NoClient
          /\ UNCHANGED deviceVars
       \/ /\ link[leaver] = "online" /\ paired[leaver] = "yes"
          /\ paired' = [paired EXCEPT ![leaver] = "unlinked"]
          /\ link' = Off(leaver)
          /\ leaving' = "unlinked" /\ UNCHANGED leaver
    /\ UNCHANGED <<sessionVars, ctx, streamVars, login, eater, mark, stopped, rivals>>

LogoutRecords ==
    /\ leaving = "unlinked"
    /\ status' = "logged_out" /\ qr' = NoClient
    /\ leaving' = "idle" /\ leaver' = NoClient
    /\ UNCHANGED <<client, jid, cancelOf, row, deviceVars, ctx, streamVars, login, eater,
                   mark, stopped, rivals>>

\* stop after its worker has left: pairCancel() and client.Disconnect().
Stop ==
    /\ stopped' = TRUE
    /\ ctx' = PairCancel
    /\ link' = Off(client)
    /\ UNCHANGED <<sessionVars, paired, streamVars, login, eater, mark, logoutVars, rivals>>

-----------------------------------------------------------------------------
(* The WhatsApp library, and time. *)

\* The emitter starts on a connection and goes on whatever becomes of it.
Emits(l, item, to) ==
    /\ stream[l] = "emitting" \/ (stream[l] = "opened" /\ link[l] = "up")
    /\ Len(items[l]) < Backlog
    /\ items' = [items EXCEPT ![l] = Append(@, item)]
    /\ stream' = [stream EXCEPT ![l] = to]

GivesCode(l) ==
    /\ Emits(l, "code", "emitting")
    /\ UNCHANGED <<sessionVars, deviceVars, ctx, login, eater, mark, logoutVars, stopped,
                   rivals>>

\* The phone scans the code; the client reconnects as the new device.
Scan(l) ==
    /\ stream[l] = "emitting" /\ link[l] = "up"
    /\ Emits(l, "success", "closed")
    /\ paired' = [paired EXCEPT ![l] = "yes"]
    /\ link' = [link EXCEPT ![l] = "dialing"]
    /\ UNCHANGED <<sessionVars, ctx, login, eater, mark, logoutVars, stopped, rivals>>

\* No code is left, the server refuses, or the connection drops while pairing; a drop
\* is also reported to onDisconnected.
StreamFails(l) ==
    /\ Emits(l, "failure", "closed")
    /\ \/ UNCHANGED status
       \/ link[l] = "up" /\ status = "connected" /\ status' = "disconnected"
    /\ link' = Off(l)
    /\ UNCHANGED <<client, jid, qr, cancelOf, row, paired, ctx, login, eater, mark, logoutVars, stopped, rivals>>

\* The context has ended: the stream closes without a last item.
StreamCut(l) ==
    /\ stream[l] \in {"opened", "emitting"} /\ login[l] \notin {"opened", "installed"}
    /\ ctx[l] \in {"cancelled", "expired"}
    /\ stream' = [stream EXCEPT ![l] = "closed"]
    /\ link' = Off(l)
    /\ UNCHANGED <<sessionVars, paired, ctx, items, login, eater, mark, logoutVars,
                   stopped, rivals>>

\* The three minutes of login are over.
PairingExpires(l) ==
    /\ ctx[l] = "live"
    /\ ctx' = [ctx EXCEPT ![l] = "expired"]
    /\ UNCHANGED <<sessionVars, deviceVars, streamVars, login, eater, mark, logoutVars,
                   stopped, rivals>>

\* The code on offer expires.
QRExpires ==
    /\ qr # NoClient
    /\ qr' = NoClient
    /\ UNCHANGED <<status, client, jid, cancelOf, row, deviceVars, ctx, streamVars, login,
                   eater, mark, logoutVars, stopped, rivals>>

\* events.Connected, one handler call of a client at a time.
ComesOnline(c) ==
    /\ link[c] = "dialing" /\ paired[c] = "yes"
    /\ mark[<<"event", c>>] = Resting
    /\ link' = [link EXCEPT ![c] = "online"]
    /\ Reads(<<"event", c>>)
    /\ UNCHANGED <<sessionVars, paired, ctx, streamVars, login, eater, logoutVars, stopped,
                   rivals>>

\* events.Disconnected, then reconnecting, or StreamReplaced: onDisconnected.
GoesOffline(c) ==
    /\ link[c] = "online"
    /\ \E next \in {"dialing", "off"} : link' = [link EXCEPT ![c] = next]
    /\ status' = IF status = "connected" THEN "disconnected" ELSE status
    /\ UNCHANGED <<client, jid, qr, cancelOf, row, paired, ctx, streamVars, login, eater,
                   mark, logoutVars, stopped, rivals>>

\* events.LoggedOut, the phone removed the device: onLoggedOut.
Unlinked(c) ==
    /\ link[c] = "online" /\ paired[c] = "yes"
    /\ link' = Off(c)
    /\ paired' = [paired EXCEPT ![c] = "unlinked"]
    /\ status' = "logged_out" /\ qr' = NoClient
    /\ UNCHANGED <<client, jid, cancelOf, row, ctx, streamVars, login, eater, mark,
                   logoutVars, stopped, rivals>>

Library ==
    \/ \E l \in Logins : GivesCode(l) \/ Scan(l) \/ StreamFails(l) \/ StreamCut(l)
    \/ \E l \in Logins : PairingExpires(l)
    \/ QRExpires
    \/ \E c \in Clients : ComesOnline(c) \/ GoesOffline(c) \/ Unlinked(c)

Next ==
    \/ \E l \in Logins : BeginLogin(l) \/ Opens(l) \/ Install(l) \/ Connect(l) \/ LoginReturns(l) \/ Eater(l)
    \/ \E k \in Markers : Mark(k)
    \/ LogoutBegins \/ LogoutAsks \/ LogoutRecords
    \/ Stop
    \/ Library

\* Goroutines that can run do run; the library ends a stream whose context has
\* ended, and a stream it has started runs out of codes; the three minutes pass.
\* Nobody has to log in, scan, drop a connection or log out.
Fairness ==
    /\ \A l \in Logins :
          /\ WF_vars(Opens(l)) /\ WF_vars(Install(l)) /\ WF_vars(Connect(l)) /\ WF_vars(LoginReturns(l))
          /\ WF_vars(Eater(l))
          /\ WF_vars(StreamFails(l)) /\ WF_vars(StreamCut(l)) /\ WF_vars(PairingExpires(l))
    /\ \A k \in Markers : WF_vars(Mark(k))
    /\ WF_vars(QRExpires)

Spec == Init /\ [][Next]_vars

FairSpec == Spec /\ Fairness

-----------------------------------------------------------------------------
(* Properties. *)

\* Every variable stays in its range; a client is there whenever it is called, and no
\* empty JID is ever written.
TypeOK ==
    /\ status \in {"created", "pairing", "connected", "disconnected", "logged_out"}
    /\ {client, jid, qr, row, leaver} \subseteq Clients \union {NoClient}
    /\ cancelOf \in Logins \union {NoClient}
    /\ link \in [Clients -> {"off", "dialing", "up", "online"}]
    /\ paired \in [Clients -> {"no", "yes", "unlinked"}]
    /\ ctx \in [Logins -> {"none", "live", "cancelled", "expired"}]
    /\ stream \in [Logins -> {"none", "opened", "emitting", "closed"}]
    /\ items \in [Logins -> Seq({"code", "success", "failure"})]
    /\ login \in [Logins -> {"new", "passed", "opened", "installed", "waiting", "failed", "returned"}]
    /\ eater \in [Logins -> {"off", "reading", "scanned", "draining", "over"}]
    /\ mark \in [Markers -> [step : {"out", "ask", "record", "persist"},
                             who : Clients \union {NoClient}]]
    /\ \A k \in Markers : mark[k].step \in {"ask", "persist"} => mark[k].who # NoClient
    /\ leaving \in {"idle", "asking", "unlinked"}
    /\ leaving = "idle" \/ leaver # NoClient
    /\ {stopped, rivals} \subseteq BOOLEAN

\* Logins that passed the status check together each have a live context until their
\* locked section; past it, the only live one is that which pairCancel ends, so that the
\* next login, or stop, leaves no earlier pairing behind.
OnePairing == \A l \in Logins : ctx[l] = "live" /\ login[l] # "opened" => l = cancelOf

\* The registry and the session hold only the JIDs of devices that were paired, so
\* that a boot never looks for a device that cannot exist.
JIDWasPaired == \A c \in Clients : c \in {jid, row} => paired[c] # "no"

\* Between one pairing and the next (no client installed while an earlier one could
\* still act) a connected session has a client, a paired one, and its JID; and a code on
\* offer is one of the current client, and still being consumed.
Undisturbed ==
    ~rivals =>
        /\ status = "connected" =>
              /\ client # NoClient
              /\ paired[client] # "no"
              /\ paired[client] = "yes" => jid = client
        /\ qr # NoClient =>
              /\ qr = client
              /\ eater[qr] \in {"reading", "scanned"} \/ ctx[qr] = "expired" \/ stopped

\* consumeQR always ends, whether or not its login is still waiting.
ConsumerEnds == \A l \in Logins : eater[l] = "reading" ~> eater[l] = "over"

\* A pairing does not last: it ends in a connection or back at created, unless
\* Connect failed, the context ended first, the session was stopped, or two
\* clients of the session overlapped.
PairingEnds ==
    status = "pairing" ~>
        \/ status # "pairing"
        \/ \E l \in Logins : login[l] = "failed" \/ ctx[l] = "expired"
        \/ stopped \/ rivals

\* message.go: "StatusConnected: paired and connected to WhatsApp".
ConnectedIsPaired ==
    status = "connected" => client # NoClient /\ paired[client] # "no"

\* message.go: "StatusPairing: a QR code is being offered and awaiting a scan", here
\* only while the session runs and the three minutes are not over.
PairingOffers ==
    status = "pairing" ~>
        \/ qr # NoClient \/ status # "pairing"
        \/ stopped \/ \E l \in Logins : ctx[l] = "expired"
=============================================================================
