---------------------------- MODULE PairingProofs ----------------------------
(***************************************************************************)
(* Proofs about the life cycle of a session for any number of login calls  *)
(* and any capacity of the QR channel: one pairing past the locked section  *)
(* of login, JIDs of paired devices only, in the registry once written, and *)
(* a status and a code that are true of the client while no two overlap.    *)
(***************************************************************************)
EXTENDS PairingHistory, SequenceTheorems, TLAPS

Items    == {"code", "success", "failure"}
Terminal == {"success", "failure"}

\* The items of a stream: nothing follows a terminal one.
OnlyLast(s) == \A i \in 1..Len(s) : s[i] \in Terminal => i = Len(s)
Ended(s)    == s # <<>> /\ s[Len(s)] \in Terminal
Success(s)  == s[Len(s)] = "success"

\* The JIDs on their way into the session and the registry are of paired devices, like
\* those in them; a consumer calls markConnected when its phone has scanned, a handler
\* when its paired client has connected.
MarkInv ==
    /\ JIDWasPaired
    /\ \A k \in Markers :
          /\ mark[k].step = "out" => mark[k] = Resting
          /\ mark[k].step # "out" => paired[k[2]] # "no"
          /\ mark[k].step \in {"record", "persist"} /\ mark[k].who # NoClient =>
                paired[mark[k].who] # "no"
    /\ \A l \in Logins : mark[<<"scan", l>>].step # "out" => eater[l] = "scanned"

\* The context of a login that has been through the locked section and is still live is
\* the one pairCancel ends; before it, nothing but time can end it.
ContextInv ==
    \A l \in Logins :
        /\ ctx[l] = "live" /\ login[l] # "opened" => cancelOf = l
        /\ login[l] \in {"new", "passed", "opened"} => cancelOf # l
        /\ login[l] = "opened" => ctx[l] \in {"live", "expired"}

\* A stream ends with the scan, with a failure, or because its context has ended.
StreamInv ==
    \A l \in Logins :
        /\ login[l] \in {"new", "passed"} =>
              stream[l] = "none" /\ ctx[l] = "none"
        /\ login[l] \in {"new", "passed", "opened"} => link[l] = "off"
        /\ login[l] \in {"new", "passed", "opened", "installed"} => eater[l] = "off"
        /\ login[l] \in {"opened", "installed"} => stream[l] = "opened"
        /\ login[l] = "installed" => link[l] # "up"
        /\ stream[l] = "none" => items[l] = <<>>
        /\ stream[l] # "closed" => paired[l] = "no"
        /\ OnlyLast(items[l])
        /\ Ended(items[l]) => stream[l] = "closed" /\ (Success(items[l]) <=> paired[l] # "no")
        /\ eater[l] = "scanned" => paired[l] # "no"
        /\ eater[l] = "reading" /\ stream[l] = "closed" =>
              ctx[l] \in {"cancelled", "expired"} \/ Ended(items[l])

\* While no two clients overlap: what can act on the session belongs to its client ...
SoleInv ==
    ~rivals =>
        /\ \A c \in Clients : Alive(c) => c = client
        /\ \A k \in Markers : mark[k].step # "out" => mark[k].who \in {client, NoClient}
        /\ \A k \in Markers : mark[k].step = "record" /\ mark[k].who = NoClient =>
              paired[k[2]] = "unlinked"

\* ... and the pairing of that client is cut short only by stop or by time; its code
\* goes with the first section of markConnected that follows the scan.
OfferInv ==
    ~rivals =>
        /\ \A l \in Logins : (login[l] = "installed" \/ eater[l] = "reading")
              /\ ctx[l] = "cancelled" => stopped
        /\ qr # NoClient =>
              /\ qr \in Logins /\ qr = client
              /\ \/ eater[qr] = "reading"
                 \/ eater[qr] = "scanned" /\ mark[<<"scan", qr>>].step \in {"ask", "record"}
                 \/ ctx[qr] = "expired" \/ stopped

ConnectedInv ==
    ~rivals /\ status = "connected" =>
        /\ client # NoClient
        /\ paired[client] # "no"
        /\ paired[client] = "yes" => jid = client

IInv ==
    /\ TypeOK /\ MarkInv /\ ContextInv /\ StreamInv
    /\ SoleInv /\ OfferInv /\ ConnectedInv

-----------------------------------------------------------------------------
(* The items of a stream. *)

\* Taking the first item keeps the end, unless that item was it.
LEMMA TailEnds ==
    ASSUME NEW s \in Seq(Items), s # <<>>, OnlyLast(s)
    PROVE  /\ Tail(s) \in Seq(Items) /\ OnlyLast(Tail(s))
           /\ Head(s) \in Terminal => /\ Tail(s) = <<>> /\ Ended(s)
                                      /\ (Success(s) <=> Head(s) = "success")
           /\ Head(s) \notin Terminal => (Ended(Tail(s)) <=> Ended(s))
           /\ Ended(Tail(s)) => (Success(Tail(s)) <=> Success(s))
           /\ ~Ended(<<>>) /\ OnlyLast(<<>>)
<1> DEFINE n == Len(s)
<1>1. /\ n \in Nat \ {0} /\ Head(s) = s[1] /\ Tail(s) \in Seq(Items) /\ Len(Tail(s)) = n - 1
      /\ \A i \in 1..n - 1 : Tail(s)[i] = s[i + 1]
  OBVIOUS
<1>2. \A i \in 1..n : s[i] \in Terminal => i = n
  BY DEF OnlyLast
<1>0. n = Len(s) /\ (Tail(s) = <<>> <=> n = 1)
  BY <1>1, EmptySeq
<1> HIDE DEF n
<1>3. OnlyLast(Tail(s))
  <2>1. ASSUME NEW i \in 1..n - 1, Tail(s)[i] \in Terminal PROVE i = n - 1
    <3>1. i + 1 \in 1..n /\ s[i + 1] \in Terminal
      BY <1>1, <2>1
    <3>2. i + 1 = n
      BY <1>2, <3>1
    <3> QED BY <1>1, <3>2
  <2> QED BY <1>0, <1>1, <2>1 DEF OnlyLast
<1>4. CASE n = 1
  BY <1>0, <1>1, <1>3, <1>4 DEF Ended, Success, OnlyLast
<1>5. CASE n > 1
  <2>1. Tail(s)[n - 1] = s[n] /\ Tail(s) # <<>> /\ Head(s) \notin Terminal
    <3>1. n - 1 \in 1..n - 1 /\ 1 \in 1..n /\ 1 # n /\ (n - 1) + 1 = n
      BY <1>1, <1>5
    <3>2. Tail(s)[n - 1] = s[n] /\ s[1] \notin Terminal
      BY <1>1, <1>2, <3>1
    <3> QED BY <1>0, <1>1, <1>5, <3>2
  <2>2. Ended(Tail(s)) <=> Ended(s)
    BY <1>0, <1>1, <2>1 DEF Ended
  <2>3. Success(Tail(s)) <=> Success(s)
    BY <1>0, <1>1, <2>1 DEF Success
  <2> QED BY <1>0, <1>1, <1>3, <2>1, <2>2, <2>3 DEF Ended, Success, OnlyLast
<1> QED BY <1>0, <1>1, <1>4, <1>5

\* An item added to a stream that has not ended is its end if it is terminal.
LEMMA AppendEnds ==
    ASSUME NEW s \in Seq(Items), OnlyLast(s), ~Ended(s), NEW item \in Items
    PROVE  LET t == Append(s, item) IN
           /\ t \in Seq(Items) /\ OnlyLast(t) /\ t # <<>>
           /\ Ended(t) <=> item \in Terminal
           /\ Success(t) <=> item = "success"
<1> DEFINE t == Append(s, item)  n == Len(s)
<1>1. /\ n \in Nat /\ Len(t) = n + 1 /\ t[n + 1] = item /\ t \in Seq(Items) /\ t # <<>>
      /\ \A i \in 1..n : t[i] = s[i]
  OBVIOUS
<1>2. \A i \in 1..n : s[i] \notin Terminal
  BY <1>1 DEF OnlyLast, Ended
<1>3. OnlyLast(t)
  BY <1>1, <1>2 DEF OnlyLast
<1> QED BY <1>1, <1>3 DEF Ended, Success

\* What consumeQR takes: a code leaves the end of the stream as it is, and nothing
\* follows another item.
LEMMA EatingCode ==
    ASSUME TypeOK, StreamInv, NEW l \in Logins, Eats(l, "code")
    PROVE  /\ \A m \in Logins \ {l} : items'[m] = items[m]
           /\ OnlyLast(items'[l])
           /\ Ended(items'[l]) <=> Ended(items[l])
           /\ Ended(items[l]) => (Success(items'[l]) <=> Success(items[l]))
<1>1. /\ items[l] \in Seq(Items) /\ items[l] # <<>> /\ Head(items[l]) \notin Terminal
      /\ items \in [Logins -> Seq(Items)] /\ items' = [items EXCEPT ![l] = Tail(items[l])]
  BY DEF TypeOK, Eats, Items, Terminal
<1>2. OnlyLast(items[l])
  BY DEF StreamInv
<1>3. items'[l] = Tail(items[l])
  BY <1>1
<1> QED BY <1>1, <1>2, <1>3, TailEnds

\* A terminal item is the last that consumeQR takes.
LEMMA EatingLast ==
    ASSUME TypeOK, StreamInv, NEW l \in Logins, NEW item \in Terminal, Eats(l, item)
    PROVE  /\ \A m \in Logins \ {l} : items'[m] = items[m]
           /\ OnlyLast(items'[l])
           /\ items'[l] = <<>> /\ ~Ended(items'[l])
           /\ Ended(items[l])
           /\ Success(items[l]) <=> item = "success"
<1>1. /\ items[l] \in Seq(Items) /\ items[l] # <<>> /\ Head(items[l]) = item
      /\ items \in [Logins -> Seq(Items)] /\ items' = [items EXCEPT ![l] = Tail(items[l])]
  BY DEF TypeOK, Eats, Items
<1>2. OnlyLast(items[l])
  BY DEF StreamInv
<1>3. items'[l] = Tail(items[l])
  BY <1>1
<1>4. /\ OnlyLast(Tail(items[l])) /\ Tail(items[l]) = <<>> /\ Ended(items[l])
      /\ Success(items[l]) <=> item = "success"
  BY <1>1, <1>2, TailEnds
<1>5. ~Ended(<<>>)
  BY DEF Ended
<1> QED BY <1>1, <1>3, <1>4, <1>5

\* What the library emits: nothing comes after a terminal item, and a failure is the end
\* of a pairing that was not scanned.
LEMMA Emitting ==
    ASSUME TypeOK, StreamInv, NEW l \in Logins, NEW item \in Items, NEW to, Emits(l, item, to)
    PROVE  /\ items' \in [Logins -> Seq(Items)]
           /\ \A m \in Logins \ {l} : items'[m] = items[m]
           /\ OnlyLast(items'[l])
           /\ Ended(items'[l]) <=> item \in Terminal
           /\ Success(items'[l]) <=> item = "success"
           /\ paired[l] = "no" /\ stream' = [stream EXCEPT ![l] = to]
<1>1. /\ items[l] \in Seq(Items)
      /\ items \in [Logins -> Seq(Items)]
      /\ items' = [items EXCEPT ![l] = Append(items[l], item)]
      /\ stream[l] \in {"opened", "emitting"} /\ stream' = [stream EXCEPT ![l] = to]
  BY DEF TypeOK, Emits, Items
<1>2. OnlyLast(items[l]) /\ ~Ended(items[l]) /\ paired[l] = "no"
  BY <1>1 DEF StreamInv
<1>3. items'[l] = Append(items[l], item)
  BY <1>1
<1> QED BY <1>1, <1>2, <1>3, AppendEnds

\* No stream has ended before its first item.
LEMMA NoneEnded == ~Ended(<<>>)
<1> QED BY DEF Ended

-----------------------------------------------------------------------------
(* Who calls markConnected, and when a client is installed. *)

\* markConnected runs for a client that can still act on the session.
LEMMA MarkAlive ==
    ASSUME TypeOK, MarkInv, NEW k \in Markers, mark[k].step # "out"
    PROVE  k[2] \in Clients /\ Alive(k[2])
<1>1. CASE \E l \in Logins : k = <<"scan", l>>
  BY <1>1 DEF MarkInv, Alive, Clients
<1>2. CASE \E c \in Clients : k = <<"event", c>>
  BY <1>2 DEF Alive, Resting
<1> QED BY <1>1, <1>2 DEF Markers

\* While no clients overlap, it runs for the client of the session ...
LEMMA MarkOfClient ==
    ASSUME TypeOK, MarkInv, SoleInv, ~rivals, NEW k \in Markers, mark[k].step # "out"
    PROVE  /\ client \in Clients /\ k[2] = client /\ paired[client] # "no"
           /\ mark[k].who \in {client, NoClient}
<1>1. k[2] \in Clients /\ k[2] = client
  BY MarkAlive DEF SoleInv
<1> QED BY <1>1 DEF MarkInv, SoleInv

\* ... and a client is installed when none can act any more.
LEMMA Installing ==
    ASSUME IInv, NEW l \in Logins, Install(l), ~rivals'
    PROVE  /\ client' = l /\ status' = "pairing" /\ qr' = NoClient /\ login[l] = "opened"
           /\ ~rivals /\ ctx'[l] \in {"live", "expired"}
           /\ \A c \in Clients : ~Alive(c) /\ (c # l => ~Alive(c)')
           /\ \A k \in Markers : mark[k].step = "out"
           /\ UNCHANGED <<paired, eater, mark, stopped>>
<1>1. /\ login[l] = "opened" /\ login' = [login EXCEPT ![l] = "installed"]
      /\ client' = l /\ status' = "pairing" /\ qr' = NoClient /\ ~rivals
      /\ \A c \in Clients \ {l} : ~Alive(c)
      /\ link' = [link EXCEPT ![l] = "dialing"]
      /\ ctx' = PairCancel
      /\ UNCHANGED <<paired, eater, mark, stopped>>
  <2>1. rivals \in BOOLEAN
    BY DEF IInv, TypeOK
  <2> QED BY <2>1 DEF Install, Goes
<1>2. ~Alive(l)
  <2>1. stream[l] = "opened" /\ link[l] = "off" /\ eater[l] = "off" /\ paired[l] = "no"
    BY <1>1 DEF IInv, StreamInv
  <2>2. mark[<<"event", l>>] = Resting
    <3>1. <<"event", l>> \in Markers /\ <<"event", l>>[2] = l
      BY DEF Markers, Clients
    <3> QED BY <2>1, <3>1 DEF IInv, MarkInv, TypeOK
  <2> QED BY <1>1, <2>1, <2>2 DEF Alive
<1>3. \A k \in Markers : mark[k].step = "out"
  BY <1>1, <1>2, MarkAlive DEF IInv
<1>4. ASSUME NEW c \in Clients, c # l PROVE ~Alive(c)'
  <2>1. ~Alive(c)
    BY <1>1, <1>4
  <2>2. c \in Logins => login'[c] = login[c]
    BY <1>1, <1>4 DEF IInv, TypeOK
  <2>3. link'[c] = link[c]
    BY <1>1, <1>4 DEF IInv, TypeOK
  <2> QED BY <1>1, <2>1, <2>2, <2>3 DEF Alive
<1>5. ctx'[l] \in {"live", "expired"}
  <2>1. cancelOf # l /\ ctx[l] \in {"live", "expired"}
    BY <1>1 DEF IInv, ContextInv
  <2> QED BY <1>1, <2>1 DEF PairCancel, Cancelled, IInv, TypeOK
<1> QED BY <1>1, <1>2, <1>3, <1>4, <1>5

-----------------------------------------------------------------------------
(* The invariant is inductive. *)

\* It holds at the start, of a new session and of one that was paired before.
LEMMA InitInv == Init => IInv
<1> SUFFICES ASSUME Init PROVE IInv
  OBVIOUS
<1> USE PairingAssumption DEF Init, Clients, Markers, Resting
<1>1. client \in {Boot, NoClient} /\ row \in {Boot, NoClient} /\ jid = row
  OBVIOUS
<1>2. /\ link \in [Clients -> {"off", "dialing", "up", "online"}]
      /\ paired \in [Clients -> {"no", "yes", "unlinked"}]
      /\ \A l \in Logins : link[l] = "off" /\ paired[l] = "no"
      /\ row = Boot => paired[Boot] # "no"
      /\ link[Boot] # "off" => client = Boot
  OBVIOUS
<1>3. status \notin {"pairing", "connected"}
  OBVIOUS
<1>4. TypeOK
  <2>1. /\ mark \in [Markers -> [step : {"out", "ask", "record", "persist"},
                              who : Clients \union {NoClient}]]
        /\ \A k \in Markers : mark[k].step = "out"
    OBVIOUS
  <2>2. items \in [Logins -> Seq({"code", "success", "failure"})]
    OBVIOUS
  <2>3. {client, jid, qr, row, leaver} \subseteq Clients \union {NoClient}
    BY <1>1
  <2>4. status \in {"created", "pairing", "connected", "disconnected", "logged_out"}
    OBVIOUS
  <2>5. /\ ctx \in [Logins -> {"none", "live", "cancelled", "expired"}]
        /\ stream \in [Logins -> {"none", "opened", "emitting", "closed"}]
        /\ login \in [Logins -> {"new", "passed", "opened", "installed", "waiting", "failed", "returned"}]
        /\ eater \in [Logins -> {"off", "reading", "scanned", "draining", "over"}]
        /\ cancelOf = NoClient /\ leaving = "idle" /\ ~stopped /\ ~rivals
        /\ stopped \in BOOLEAN /\ rivals \in BOOLEAN
    OBVIOUS
  <2> QED BY <1>2, <2>1, <2>2, <2>3, <2>4, <2>5 DEF TypeOK
<1>5. MarkInv
  BY <1>1, <1>2 DEF MarkInv, JIDWasPaired
<1>6. ContextInv /\ StreamInv
  BY <1>2 DEF ContextInv, StreamInv, OnlyLast, Ended
<1>7. SoleInv
  BY <1>1, <1>2 DEF SoleInv, Alive
<1>8. OfferInv /\ ConnectedInv
  BY <1>3 DEF OfferInv, ConnectedInv
<1> QED BY <1>4, <1>5, <1>6, <1>7, <1>8 DEF IInv

\* Every write stays in its type; a client is asked and a JID persisted only if there is
\* one.
LEMMA StepTypeOK ==
    ASSUME IInv, Next PROVE TypeOK'
<1> USE PairingAssumption
    DEF IInv, TypeOK, Clients, Markers, Resting, sessionVars, deviceVars, streamVars, logoutVars
<1>1. ASSUME NEW l \in Logins, BeginLogin(l) PROVE TypeOK'
  <2>1. login' \in [Logins -> {"new", "passed", "opened", "installed", "waiting", "failed", "returned"}]
    <3>1. login \in [Logins -> {"new", "passed", "opened", "installed", "waiting", "failed", "returned"}]
      OBVIOUS
    <3>2. login' = [login EXCEPT ![l] = "returned"] \/ login' = [login EXCEPT ![l] = "passed"]
      BY <1>1 DEF BeginLogin, Goes
    <3> HIDE DEF IInv, TypeOK
    <3> QED BY <3>1, <3>2
  <2>2. UNCHANGED <<client, status, jid, qr, cancelOf, row, link, paired, ctx, stream, items, eater,
                    mark, leaver, leaving, stopped, rivals>>
    BY <1>1 DEF BeginLogin
  <2> QED BY <2>1, <2>2
<1>2. ASSUME NEW l \in Logins, Install(l) PROVE TypeOK'
  BY <1>2 DEF Install, Goes, PairCancel, Cancelled
<1>3. ASSUME NEW l \in Logins, Connect(l) PROVE TypeOK'
  <2>1. CASE /\ Goes(l, "waiting") /\ link' = [link EXCEPT ![l] = "up"]
             /\ eater' = [eater EXCEPT ![l] = "reading"] /\ ctx' = ctx
    BY <1>3, <2>1 DEF Connect, Goes
  <2>2. CASE Goes(l, "failed") /\ link' = Off(l) /\ ctx' = Cancelled(l) /\ eater' = eater
    <3>1. link' \in [Clients -> {"off", "dialing", "up", "online"}]
      BY <2>2 DEF Off
    <3>2. ctx' \in [Logins -> {"none", "live", "cancelled", "expired"}]
      BY <2>2 DEF Cancelled
    <3>3. login' \in [Logins -> {"new", "passed", "opened", "installed", "waiting", "failed", "returned"}]
      BY <2>2 DEF Goes
    <3>4. UNCHANGED <<client, status, jid, qr, cancelOf, row, paired, items, stream, mark, leaver,
                      leaving, stopped, rivals>>
      BY <1>3 DEF Connect
    <3> QED BY <2>2, <3>1, <3>2, <3>3, <3>4
  <2> QED BY <1>3, <2>1, <2>2 DEF Connect
<1>4. ASSUME NEW l \in Logins, LoginReturns(l) PROVE TypeOK'
  BY <1>4 DEF LoginReturns, Goes
<1>5. ASSUME NEW l \in Logins, EatCode(l) PROVE TypeOK'
  BY <1>5 DEF EatCode, Eats
<1>6. ASSUME NEW l \in Logins, EatSuccess(l) PROVE TypeOK'
  BY <1>6 DEF EatSuccess, Eats, Reads
<1>7. ASSUME NEW l \in Logins, Scanned(l) PROVE TypeOK'
  BY <1>7 DEF Scanned, Cancelled
<1>8. ASSUME NEW l \in Logins, EatFailure(l) PROVE TypeOK'
  BY <1>8 DEF EatFailure, Eats, Cancelled, Off
<1>9. ASSUME NEW l \in Logins, EaterEnds(l) PROVE TypeOK'
  BY <1>9 DEF EaterEnds, Cancelled
<1>10. ASSUME NEW k \in Markers, MarkAsks(k) PROVE TypeOK'
  BY <1>10 DEF MarkAsks
<1>11. ASSUME NEW k \in Markers, MarkRecords(k) PROVE TypeOK'
  <2>1. mark[k].who \in Clients \union {NoClient}
    OBVIOUS
  <2>2. CASE mark[k].who \in {NoClient, jid}
    BY <1>11, <2>1, <2>2 DEF MarkRecords
  <2>3. CASE mark[k].who \notin {NoClient, jid}
    <3>1. mark' = [mark EXCEPT ![k] = [mark[k] EXCEPT !.step = "persist"]]
      BY <1>11, <2>3 DEF MarkRecords
    <3>2. [mark[k] EXCEPT !.step = "persist"] = [step |-> "persist", who |-> mark[k].who]
      OBVIOUS
    <3> QED BY <1>11, <2>1, <2>3, <3>1, <3>2 DEF MarkRecords
  <2> QED BY <2>2, <2>3
<1>12. ASSUME NEW k \in Markers, MarkPersists(k) PROVE TypeOK'
  BY <1>12 DEF MarkPersists
<1>13. CASE LogoutBegins
  BY <1>13 DEF LogoutBegins
<1>14. CASE LogoutAsks
  <2>1. /\ link \in [Clients -> {"off", "dialing", "up", "online"}]
        /\ paired \in [Clients -> {"no", "yes", "unlinked"}]
    OBVIOUS
  <2>2. /\ link' \in [Clients -> {"off", "dialing", "up", "online"}]
        /\ paired' \in [Clients -> {"no", "yes", "unlinked"}]
    <3>1. CASE deviceVars' = deviceVars
      BY <2>1, <3>1
    <3>2. CASE /\ paired' = [paired EXCEPT ![leaver] = "unlinked"]
               /\ link' = Off(leaver)
      BY <2>1, <3>2 DEF Off
    <3> HIDE DEF IInv, TypeOK
    <3> QED BY <1>14, <3>1, <3>2 DEF LogoutAsks
  <2>3. /\ leaving' \in {"idle", "unlinked"} /\ leaver' \in Clients \union {NoClient}
        /\ leaving' = "idle" \/ leaver' # NoClient
    BY <1>14 DEF LogoutAsks
  <2>4. UNCHANGED <<client, status, jid, qr, cancelOf, row, ctx, stream, items, login, eater, mark,
                    stopped, rivals>>
    BY <1>14 DEF LogoutAsks
  <2> QED BY <2>1, <2>2, <2>3, <2>4
<1>15. CASE LogoutRecords
  BY <1>15 DEF LogoutRecords
<1>16. CASE Stop
  BY <1>16 DEF Stop, PairCancel, Cancelled, Off
<1>17. ASSUME NEW l \in Logins, GivesCode(l) PROVE TypeOK'
  BY <1>17 DEF GivesCode, Emits
<1>18. ASSUME NEW l \in Logins, Scan(l) PROVE TypeOK'
  BY <1>18 DEF Scan, Emits
<1>19. ASSUME NEW l \in Logins, StreamFails(l) PROVE TypeOK'
  BY <1>19 DEF StreamFails, Emits, Off
<1>20. ASSUME NEW l \in Logins, StreamCut(l) PROVE TypeOK'
  BY <1>20 DEF StreamCut, Off
<1>21. ASSUME NEW l \in Logins, PairingExpires(l) PROVE TypeOK'
  BY <1>21 DEF PairingExpires
<1>22. CASE QRExpires
  BY <1>22 DEF QRExpires
<1>23. ASSUME NEW c \in Clients, ComesOnline(c) PROVE TypeOK'
  BY <1>23 DEF ComesOnline, Reads
<1>24. ASSUME NEW c \in Clients, GoesOffline(c) PROVE TypeOK'
  BY <1>24 DEF GoesOffline
<1>25. ASSUME NEW c \in Clients, Unlinked(c) PROVE TypeOK'
  BY <1>25 DEF Unlinked, Off
<1>26. ASSUME NEW l \in Logins, Opens(l) PROVE TypeOK'
  <2>1. CASE Goes(l, "returned") /\ UNCHANGED <<ctx, stream>>
    BY <1>26, <2>1 DEF Opens, Goes
  <2>2. CASE /\ Goes(l, "opened")
             /\ ctx' = [ctx EXCEPT ![l] = "live"]
             /\ stream' = [stream EXCEPT ![l] = "opened"]
    BY <1>26, <2>2 DEF Opens, Goes
  <2> HIDE DEF IInv, TypeOK, Clients, Markers, Resting, sessionVars, deviceVars, streamVars,
          logoutVars
  <2> QED BY <1>26, <2>1, <2>2 DEF Opens
<1> HIDE DEF IInv, TypeOK, Clients, Markers, Resting, sessionVars, deviceVars, streamVars,
        logoutVars
<1> QED BY <1>1, <1>2, <1>3, <1>4, <1>5, <1>6, <1>7, <1>8, <1>9, <1>10, <1>11, <1>12, <1>13, <1>14,
    <1>15, <1>16, <1>17, <1>18, <1>19, <1>20, <1>21, <1>22, <1>23, <1>24, <1>25, <1>26
    DEF Next, Eater, Mark, Library

\* markConnected starts for a client that has been paired, asks the client of the session
\* for its JID, and records and persists no other; what has been paired never counts as
\* unpaired again.
LEMMA StepMarkInv ==
    ASSUME IInv, Next PROVE MarkInv'
<1> USE PairingAssumption
    DEF IInv, TypeOK, Clients, Markers, Resting, sessionVars, deviceVars, streamVars,
        logoutVars, MarkInv, JIDWasPaired, StreamInv, Terminal
<1>1. ASSUME NEW l \in Logins, BeginLogin(l) PROVE MarkInv'
  BY <1>1 DEF BeginLogin, Goes
<1>2. ASSUME NEW l \in Logins, Install(l) PROVE MarkInv'
  BY <1>2 DEF Install, Goes, PairCancel, Cancelled
<1>3. ASSUME NEW l \in Logins, Connect(l) PROVE MarkInv'
  BY <1>3 DEF Connect, Goes, Cancelled, Off
<1>4. ASSUME NEW l \in Logins, LoginReturns(l) PROVE MarkInv'
  BY <1>4 DEF LoginReturns, Goes
<1>5. ASSUME NEW l \in Logins, EatCode(l) PROVE MarkInv'
  BY <1>5 DEF EatCode, Eats
<1>6. ASSUME NEW l \in Logins, EatSuccess(l) PROVE MarkInv'
  <2>1. /\ Eats(l, "success") /\ eater[l] = "reading"
        /\ eater' = [eater EXCEPT ![l] = "scanned"]
        /\ UNCHANGED <<jid, row, paired>>
    BY <1>6 DEF EatSuccess, Eats
  <2>2. paired[l] # "no"
    BY <2>1, EatingLast
  <2>3. /\ mark' = [mark EXCEPT ![<<"scan", l>>] =
               IF client = NoClient THEN Resting ELSE [step |-> "ask", who |-> client]]
        /\ <<"scan", l>> \in Markers
    BY <1>6 DEF EatSuccess, Reads
  <2>4. \A k \in Markers \ {<<"scan", l>>} : mark'[k] = mark[k]
    BY <2>3
  <2>5. mark'[<<"scan", l>>] = Resting \/ mark'[<<"scan", l>>].step = "ask"
    BY <2>3
  <2>6. \A m \in Logins \ {l} : <<"scan", m>> \in Markers \ {<<"scan", l>>}
    OBVIOUS
  <2>7. ASSUME NEW k \in Markers
        PROVE  /\ mark'[k].step = "out" => mark'[k] = Resting
               /\ mark'[k].step # "out" => paired[k[2]] # "no"
               /\ mark'[k].step \in {"record", "persist"} /\ mark'[k].who # NoClient =>
                     paired[mark'[k].who] # "no"
    <3>1. CASE k = <<"scan", l>>
      BY <2>2, <2>5, <3>1
    <3>2. CASE k # <<"scan", l>>
      BY <2>4, <3>2
    <3> QED BY <3>1, <3>2
  <2>8. ASSUME NEW m \in Logins, mark'[<<"scan", m>>].step # "out" PROVE eater'[m] = "scanned"
    <3>1. CASE m = l
      BY <2>1, <3>1
    <3>2. CASE m # l
      BY <2>1, <2>4, <2>6, <2>8, <3>2
    <3> QED BY <3>1, <3>2
  <2> QED BY <2>1, <2>7, <2>8
<1>7. ASSUME NEW l \in Logins, Scanned(l) PROVE MarkInv'
  <2>1. UNCHANGED <<jid, row, paired, mark>> /\ mark[<<"scan", l>>].step = "out"
    BY <1>7 DEF Scanned
  <2>2. ASSUME NEW m \in Logins, mark'[<<"scan", m>>].step # "out" PROVE eater'[m] = "scanned"
    <3>1. m # l
      BY <2>1, <2>2
    <3> QED BY <1>7, <2>1, <2>2, <3>1 DEF Scanned
  <2>3. JIDWasPaired'
    BY <2>1
  <2> QED BY <2>1, <2>2, <2>3
<1>8. ASSUME NEW l \in Logins, EatFailure(l) PROVE MarkInv'
  BY <1>8 DEF EatFailure, Eats, Cancelled, Off
<1>9. ASSUME NEW l \in Logins, EaterEnds(l) PROVE MarkInv'
  <2>1. /\ UNCHANGED <<jid, row, paired, mark>> /\ eater[l] \in {"reading", "draining"}
        /\ eater' = [eater EXCEPT ![l] = "over"]
    BY <1>9 DEF EaterEnds
  <2>2. ASSUME NEW m \in Logins, mark'[<<"scan", m>>].step # "out" PROVE eater'[m] = "scanned"
    BY <2>1, <2>2
  <2>3. JIDWasPaired'
    BY <2>1
  <2> QED BY <2>1, <2>2, <2>3
<1>10. ASSUME NEW k \in Markers, MarkAsks(k) PROVE MarkInv'
  BY <1>10 DEF MarkAsks
<1>11. ASSUME NEW k \in Markers, MarkRecords(k) PROVE MarkInv'
  BY <1>11 DEF MarkRecords
<1>12. ASSUME NEW k \in Markers, MarkPersists(k) PROVE MarkInv'
  BY <1>12 DEF MarkPersists
<1>13. CASE LogoutBegins
  BY <1>13 DEF LogoutBegins
<1>14. CASE LogoutAsks
  BY <1>14 DEF LogoutAsks, Off
<1>15. CASE LogoutRecords
  BY <1>15 DEF LogoutRecords
<1>16. CASE Stop
  BY <1>16 DEF Stop, PairCancel, Cancelled, Off
<1>17. ASSUME NEW l \in Logins, GivesCode(l) PROVE MarkInv'
  BY <1>17 DEF GivesCode, Emits
<1>18. ASSUME NEW l \in Logins, Scan(l) PROVE MarkInv'
  BY <1>18 DEF Scan, Emits
<1>19. ASSUME NEW l \in Logins, StreamFails(l) PROVE MarkInv'
  BY <1>19 DEF StreamFails, Emits, Off
<1>20. ASSUME NEW l \in Logins, StreamCut(l) PROVE MarkInv'
  BY <1>20 DEF StreamCut, Off
<1>21. ASSUME NEW l \in Logins, PairingExpires(l) PROVE MarkInv'
  BY <1>21 DEF PairingExpires
<1>22. CASE QRExpires
  BY <1>22 DEF QRExpires
<1>23. ASSUME NEW c \in Clients, ComesOnline(c) PROVE MarkInv'
  BY <1>23 DEF ComesOnline, Reads
<1>24. ASSUME NEW c \in Clients, GoesOffline(c) PROVE MarkInv'
  BY <1>24 DEF GoesOffline
<1>25. ASSUME NEW c \in Clients, Unlinked(c) PROVE MarkInv'
  BY <1>25 DEF Unlinked, Off
<1>26. ASSUME NEW l \in Logins, Opens(l) PROVE MarkInv'
  BY <1>26 DEF Opens, Goes
<1> HIDE DEF IInv, TypeOK, Clients, Markers, Resting, sessionVars, deviceVars, streamVars,
        logoutVars, MarkInv, JIDWasPaired, StreamInv, Terminal
<1> QED BY <1>1, <1>2, <1>3, <1>4, <1>5, <1>6, <1>7, <1>8, <1>9, <1>10, <1>11, <1>12, <1>13, <1>14,
    <1>15, <1>16, <1>17, <1>18, <1>19, <1>20, <1>21, <1>22, <1>23, <1>24, <1>25, <1>26
    DEF Next, Eater, Mark, Library

\* The locked section of login makes its context the one that pairCancel ends, and ends
\* the one before.
LEMMA StepContextInv ==
    ASSUME IInv, Next PROVE ContextInv'
<1> USE PairingAssumption
    DEF IInv, TypeOK, Clients, Markers, Resting, sessionVars, deviceVars, streamVars,
        logoutVars, ContextInv
<1>1. ASSUME NEW l \in Logins, BeginLogin(l) PROVE ContextInv'
  BY <1>1 DEF BeginLogin, Goes
<1>2. ASSUME NEW l \in Logins, Install(l) PROVE ContextInv'
  BY <1>2 DEF Install, Goes, PairCancel, Cancelled
<1>3. ASSUME NEW l \in Logins, Connect(l) PROVE ContextInv'
  BY <1>3 DEF Connect, Goes, Cancelled, Off
<1>4. ASSUME NEW l \in Logins, LoginReturns(l) PROVE ContextInv'
  BY <1>4 DEF LoginReturns, Goes
<1>5. ASSUME NEW l \in Logins, EatCode(l) PROVE ContextInv'
  BY <1>5 DEF EatCode, Eats
<1>6. ASSUME NEW l \in Logins, EatSuccess(l) PROVE ContextInv'
  BY <1>6 DEF EatSuccess, Eats, Reads
<1>7. ASSUME NEW l \in Logins, Scanned(l) PROVE ContextInv'
  BY <1>7 DEF Scanned, Cancelled, StreamInv
<1>8. ASSUME NEW l \in Logins, EatFailure(l) PROVE ContextInv'
  BY <1>8 DEF EatFailure, Eats, Cancelled, Off, StreamInv
<1>9. ASSUME NEW l \in Logins, EaterEnds(l) PROVE ContextInv'
  BY <1>9 DEF EaterEnds, Cancelled, StreamInv
<1>10. ASSUME NEW k \in Markers, MarkAsks(k) PROVE ContextInv'
  BY <1>10 DEF MarkAsks
<1>11. ASSUME NEW k \in Markers, MarkRecords(k) PROVE ContextInv'
  BY <1>11 DEF MarkRecords
<1>12. ASSUME NEW k \in Markers, MarkPersists(k) PROVE ContextInv'
  BY <1>12 DEF MarkPersists
<1>13. CASE LogoutBegins
  BY <1>13 DEF LogoutBegins
<1>14. CASE LogoutAsks
  BY <1>14 DEF LogoutAsks, Off
<1>15. CASE LogoutRecords
  BY <1>15 DEF LogoutRecords
<1>16. CASE Stop
  BY <1>16 DEF Stop, PairCancel, Cancelled, Off
<1>17. ASSUME NEW l \in Logins, GivesCode(l) PROVE ContextInv'
  BY <1>17 DEF GivesCode, Emits
<1>18. ASSUME NEW l \in Logins, Scan(l) PROVE ContextInv'
  BY <1>18 DEF Scan, Emits
<1>19. ASSUME NEW l \in Logins, StreamFails(l) PROVE ContextInv'
  BY <1>19 DEF StreamFails, Emits, Off
<1>20. ASSUME NEW l \in Logins, StreamCut(l) PROVE ContextInv'
  BY <1>20 DEF StreamCut, Off
<1>21. ASSUME NEW l \in Logins, PairingExpires(l) PROVE ContextInv'
  BY <1>21 DEF PairingExpires
<1>22. CASE QRExpires
  BY <1>22 DEF QRExpires
<1>23. ASSUME NEW c \in Clients, ComesOnline(c) PROVE ContextInv'
  BY <1>23 DEF ComesOnline, Reads
<1>24. ASSUME NEW c \in Clients, GoesOffline(c) PROVE ContextInv'
  BY <1>24 DEF GoesOffline
<1>25. ASSUME NEW c \in Clients, Unlinked(c) PROVE ContextInv'
  BY <1>25 DEF Unlinked, Off
<1>26. ASSUME NEW l \in Logins, Opens(l) PROVE ContextInv'
  BY <1>26 DEF Opens, Goes
<1> HIDE DEF IInv, TypeOK, Clients, Markers, Resting, sessionVars, deviceVars, streamVars,
        logoutVars, ContextInv
<1> QED BY <1>1, <1>2, <1>3, <1>4, <1>5, <1>6, <1>7, <1>8, <1>9, <1>10, <1>11, <1>12, <1>13, <1>14,
    <1>15, <1>16, <1>17, <1>18, <1>19, <1>20, <1>21, <1>22, <1>23, <1>24, <1>25, <1>26
    DEF Next, Eater, Mark, Library

\* A login goes on to install, connect and consume, and its stream from codes to an end.
LEMMA StepStreamInv ==
    ASSUME IInv, Next PROVE StreamInv'
<1> USE PairingAssumption
    DEF IInv, TypeOK, Clients, Markers, Resting, sessionVars, deviceVars, streamVars,
        logoutVars, StreamInv, Terminal, Items
<1>1. ASSUME NEW l \in Logins, BeginLogin(l) PROVE StreamInv'
  BY <1>1 DEF BeginLogin, Goes
<1>2. ASSUME NEW l \in Logins, Install(l) PROVE StreamInv'
  <2>1. /\ login[l] = "opened" /\ login' = [login EXCEPT ![l] = "installed"]
        /\ link' = [link EXCEPT ![l] = "dialing"]
        /\ UNCHANGED <<paired, stream, items, eater>>
    BY <1>2 DEF Install, Goes
  <2>2. \A m \in Logins : ctx'[m] \in {ctx[m], "cancelled"} /\ (ctx'[m] = ctx[m] \/ ctx[m] = "live")
    BY <1>2 DEF Install, PairCancel, Cancelled
  <2>3. \A m \in Logins \ {l} : login'[m] = login[m] /\ link'[m] = link[m]
    BY <2>1
  <2>4. login'[l] = "installed" /\ link'[l] = "dialing"
    BY <2>1
  <2> QED BY <2>1, <2>2, <2>3, <2>4
<1>3. ASSUME NEW l \in Logins, Connect(l) PROVE StreamInv'
  <2>1. CASE /\ Goes(l, "waiting") /\ link' = [link EXCEPT ![l] = "up"]
             /\ eater' = [eater EXCEPT ![l] = "reading"] /\ ctx' = ctx
    BY <1>3, <2>1 DEF Connect, Goes
  <2>2. CASE Goes(l, "failed") /\ link' = Off(l) /\ ctx' = Cancelled(l) /\ eater' = eater
    BY <1>3, <2>2 DEF Connect, Goes, Off, Cancelled
  <2> QED BY <1>3, <2>1, <2>2 DEF Connect
<1>4. ASSUME NEW l \in Logins, LoginReturns(l) PROVE StreamInv'
  BY <1>4 DEF LoginReturns, Goes
<1>5. ASSUME NEW l \in Logins, EatCode(l) PROVE StreamInv'
  <2>1. Eats(l, "code") /\ items[l] # <<>> /\ UNCHANGED <<paired, link, ctx, stream, login, eater>>
    BY <1>5 DEF EatCode, Eats
  <2>2. /\ \A m \in Logins \ {l} : items'[m] = items[m]
        /\ OnlyLast(items'[l])
        /\ Ended(items'[l]) <=> Ended(items[l])
        /\ Ended(items[l]) => (Success(items'[l]) <=> Success(items[l]))
    BY <2>1, EatingCode
  <2> QED BY <2>1, <2>2
<1>6. ASSUME NEW l \in Logins, EatSuccess(l) PROVE StreamInv'
  <2>1. /\ Eats(l, "success") /\ eater[l] = "reading"
        /\ eater' = [eater EXCEPT ![l] = "scanned"]
        /\ UNCHANGED <<paired, link, ctx, stream, login>>
    BY <1>6 DEF EatSuccess, Eats
  <2>2. /\ \A m \in Logins \ {l} : items'[m] = items[m] /\ eater'[m] = eater[m]
        /\ items'[l] = <<>> /\ ~Ended(items'[l]) /\ OnlyLast(items'[l])
        /\ Ended(items[l]) /\ Success(items[l])
    BY <2>1, EatingLast
  <2>3. eater'[l] = "scanned" /\ login[l] \notin {"new", "passed", "opened", "installed"}
    BY <2>1
  <2> QED BY <2>1, <2>2, <2>3
<1>7. ASSUME NEW l \in Logins, Scanned(l) PROVE StreamInv'
  BY <1>7 DEF Scanned, Cancelled
<1>8. ASSUME NEW l \in Logins, EatFailure(l) PROVE StreamInv'
  <2>1. /\ Eats(l, "failure") /\ eater[l] = "reading"
        /\ eater' = [eater EXCEPT ![l] = "draining"]
        /\ UNCHANGED <<paired, stream, login>>
    BY <1>8 DEF EatFailure, Eats
  <2>2. \A m \in Logins : /\ link'[m] = link[m] \/ link'[m] = "off"
                          /\ ctx'[m] = ctx[m] \/ ctx[m] = "live"
                          /\ ctx'[m] = ctx[m] \/ ctx'[m] = "cancelled"
    BY <1>8 DEF EatFailure, Cancelled, Off
  <2>3. /\ \A m \in Logins \ {l} : items'[m] = items[m]
        /\ items'[l] = <<>> /\ ~Ended(items'[l]) /\ OnlyLast(items'[l])
    BY <2>1, EatingLast
  <2>4. /\ \A m \in Logins \ {l} : eater'[m] = eater[m]
        /\ eater'[l] = "draining" /\ login[l] \notin {"new", "passed", "opened", "installed"}
    BY <2>1
  <2> QED BY <2>1, <2>2, <2>3, <2>4
<1>9. ASSUME NEW l \in Logins, EaterEnds(l) PROVE StreamInv'
  BY <1>9 DEF EaterEnds, Cancelled
<1>10. ASSUME NEW k \in Markers, MarkAsks(k) PROVE StreamInv'
  BY <1>10 DEF MarkAsks
<1>11. ASSUME NEW k \in Markers, MarkRecords(k) PROVE StreamInv'
  BY <1>11 DEF MarkRecords
<1>12. ASSUME NEW k \in Markers, MarkPersists(k) PROVE StreamInv'
  BY <1>12 DEF MarkPersists
<1>13. CASE LogoutBegins
  BY <1>13 DEF LogoutBegins
<1>14. CASE LogoutAsks
  BY <1>14 DEF LogoutAsks, Off
<1>15. CASE LogoutRecords
  BY <1>15 DEF LogoutRecords
<1>16. CASE Stop
  BY <1>16 DEF Stop, PairCancel, Cancelled, Off
<1>17. ASSUME NEW l \in Logins, GivesCode(l) PROVE StreamInv'
  <2>1. /\ Emits(l, "code", "emitting")
        /\ stream[l] = "opened" => link[l] = "up"
        /\ stream[l] \in {"opened", "emitting"}
        /\ UNCHANGED <<paired, link, ctx, login, eater>>
    BY <1>17 DEF GivesCode, Emits
  <2>2. /\ \A m \in Logins \ {l} : items'[m] = items[m]
        /\ OnlyLast(items'[l])
        /\ Ended(items'[l]) <=> "code" \in Terminal
        /\ Success(items'[l]) <=> "code" = "success"
        /\ paired[l] = "no" /\ stream' = [stream EXCEPT ![l] = "emitting"]
    BY <2>1, Emitting
  <2>3. login[l] \notin {"new", "passed", "opened", "installed"}
    BY <2>1
  <2> QED BY <2>1, <2>2, <2>3
<1>18. ASSUME NEW l \in Logins, Scan(l) PROVE StreamInv'
  <2>1. /\ Emits(l, "success", "closed")
        /\ stream[l] = "opened" => link[l] = "up"
        /\ stream[l] \in {"opened", "emitting"}
        /\ paired' = [paired EXCEPT ![l] = "yes"] /\ stream[l] = "emitting"
        /\ link' = [link EXCEPT ![l] = "dialing"]
        /\ UNCHANGED <<ctx, login, eater>>
    BY <1>18 DEF Scan, Emits
  <2>2. /\ \A m \in Logins \ {l} : items'[m] = items[m]
        /\ OnlyLast(items'[l])
        /\ Ended(items'[l]) <=> "success" \in Terminal
        /\ Success(items'[l]) <=> "success" = "success"
        /\ paired[l] = "no" /\ stream' = [stream EXCEPT ![l] = "closed"]
    BY <2>1, Emitting
  <2>3. login[l] \notin {"new", "passed", "opened", "installed"}
    BY <2>1
  <2> QED BY <2>1, <2>2, <2>3
<1>19. ASSUME NEW l \in Logins, StreamFails(l) PROVE StreamInv'
  <2>1. /\ Emits(l, "failure", "closed")
        /\ stream[l] = "opened" => link[l] = "up"
        /\ stream[l] \in {"opened", "emitting"}
        /\ link' = [link EXCEPT ![l] = "off"]
        /\ UNCHANGED <<paired, ctx, login, eater>>
    BY <1>19 DEF StreamFails, Off, Emits
  <2>2. /\ \A m \in Logins \ {l} : items'[m] = items[m]
        /\ OnlyLast(items'[l])
        /\ Ended(items'[l]) <=> "failure" \in Terminal
        /\ Success(items'[l]) <=> "failure" = "success"
        /\ paired[l] = "no" /\ stream' = [stream EXCEPT ![l] = "closed"]
    BY <2>1, Emitting
  <2>3. login[l] \notin {"new", "passed", "opened", "installed"}
    BY <2>1
  <2> QED BY <2>1, <2>2, <2>3
<1>20. ASSUME NEW l \in Logins, StreamCut(l) PROVE StreamInv'
  BY <1>20 DEF StreamCut, Off
<1>21. ASSUME NEW l \in Logins, PairingExpires(l) PROVE StreamInv'
  BY <1>21 DEF PairingExpires
<1>22. CASE QRExpires
  BY <1>22 DEF QRExpires
<1>23. ASSUME NEW c \in Clients, ComesOnline(c) PROVE StreamInv'
  BY <1>23 DEF ComesOnline, Reads
<1>24. ASSUME NEW c \in Clients, GoesOffline(c) PROVE StreamInv'
  BY <1>24 DEF GoesOffline
<1>25. ASSUME NEW c \in Clients, Unlinked(c) PROVE StreamInv'
  BY <1>25 DEF Unlinked, Off
<1>26. ASSUME NEW l \in Logins, Opens(l) PROVE StreamInv'
  BY <1>26 DEF Opens, Goes
<1> HIDE DEF IInv, TypeOK, Clients, Markers, Resting, sessionVars, deviceVars, streamVars,
        logoutVars, StreamInv, Terminal, Items
<1> QED BY <1>1, <1>2, <1>3, <1>4, <1>5, <1>6, <1>7, <1>8, <1>9, <1>10, <1>11, <1>12, <1>13, <1>14,
    <1>15, <1>16, <1>17, <1>18, <1>19, <1>20, <1>21, <1>22, <1>23, <1>24, <1>25, <1>26
    DEF Next, Eater, Mark, Library

\* Another client can act on the session only once the one before cannot, so that
\* markConnected meets its own client.
LEMMA StepSoleInv ==
    ASSUME IInv, Next PROVE SoleInv'
<1> USE PairingAssumption
    DEF IInv, TypeOK, Clients, Markers, Resting, sessionVars, deviceVars, streamVars,
        logoutVars, MarkInv, StreamInv, SoleInv, Alive, Terminal
<1>1. ASSUME NEW l \in Logins, BeginLogin(l) PROVE SoleInv'
  BY <1>1 DEF BeginLogin, Goes
<1>2. ASSUME NEW l \in Logins, Install(l) PROVE SoleInv'
  <2> SUFFICES ASSUME ~rivals' PROVE SoleInv'
    OBVIOUS
  <2>1. /\ client' = l /\ mark' = mark
        /\ \A k \in Markers : mark[k].step = "out"
    BY <1>2, Installing
  <2>2. \A c \in Clients : c # l => ~Alive(c)'
    BY <1>2, Installing
  <2> HIDE DEF Alive
  <2> QED BY <2>1, <2>2
<1>3. ASSUME NEW l \in Logins, Connect(l) PROVE SoleInv'
  BY <1>3 DEF Connect, Goes, Cancelled, Off
<1>4. ASSUME NEW l \in Logins, LoginReturns(l) PROVE SoleInv'
  BY <1>4 DEF LoginReturns, Goes
<1>5. ASSUME NEW l \in Logins, EatCode(l) PROVE SoleInv'
  BY <1>5 DEF EatCode, Eats
<1>6. ASSUME NEW l \in Logins, EatSuccess(l) PROVE SoleInv'
  BY <1>6 DEF EatSuccess, Eats, Reads
<1>7. ASSUME NEW l \in Logins, Scanned(l) PROVE SoleInv'
  BY <1>7 DEF Scanned, Cancelled
<1>8. ASSUME NEW l \in Logins, EatFailure(l) PROVE SoleInv'
  <2> SUFFICES ASSUME ~rivals PROVE SoleInv'
    BY <1>8 DEF EatFailure
  <2>1. /\ Eats(l, "failure") /\ eater[l] = "reading"
        /\ eater' = [eater EXCEPT ![l] = "draining"]
        /\ UNCHANGED <<paired, stream, login, mark>>
    BY <1>8 DEF EatFailure, Eats
  <2>2. l = client /\ paired[l] = "no" /\ login[l] # "installed"
    BY <2>1, EatingLast
  <2>3. \A c \in Clients : link'[c] = link[c] \/ link'[c] = "off"
    BY <1>8 DEF EatFailure, Off
  <2>4. link'[l] = "off"
    BY <1>8, <2>2 DEF EatFailure, Off
  <2>5. ASSUME NEW k \in Markers, mark[k].step # "out" PROVE FALSE
    <3>1. k[2] = l /\ paired[client] # "no"
      BY <2>2, <2>5, MarkOfClient
    <3> QED BY <2>2, <3>1
  <2>6. ASSUME NEW c \in Clients, Alive(c)' PROVE FALSE
    <3>1. CASE c = l
      BY <2>1, <2>2, <2>4, <2>5, <2>6, <3>1
    <3>2. CASE c # l
      BY <2>1, <2>2, <2>3, <2>6, <3>2
    <3> QED BY <3>1, <3>2
  <2> QED BY <2>1, <2>5, <2>6
<1>9. ASSUME NEW l \in Logins, EaterEnds(l) PROVE SoleInv'
  BY <1>9 DEF EaterEnds, Cancelled
<1>10. ASSUME NEW k \in Markers, MarkAsks(k) PROVE SoleInv'
  <2>1. /\ mark[k].step = "ask"
        /\ mark' = [mark EXCEPT ![k] = [step |-> "record",
                          who |-> IF paired[mark[k].who] = "yes" THEN mark[k].who ELSE NoClient]]
        /\ UNCHANGED <<client, paired, link, login, eater, rivals>>
    BY <1>10 DEF MarkAsks
  <2>2. ~rivals => k[2] = client /\ mark[k].who = client /\ paired[client] # "no"
    BY <2>1, MarkOfClient
  <2>3. ~rivals => mark'[k].who = client \/ (mark'[k].who = NoClient /\ paired[k[2]] = "unlinked")
    BY <2>1, <2>2
  <2>4. \A m \in Markers \ {k} : mark'[m] = mark[m]
    BY <2>1
  <2>5. ASSUME NEW c \in Clients, Alive(c)' PROVE Alive(c)
    <3>1. mark[k] # Resting /\ <<"event", c>> \in Markers
      BY <2>1
    <3>2. CASE k = <<"event", c>>
      BY <3>1, <3>2
    <3>3. CASE k # <<"event", c>>
      BY <2>1, <2>4, <2>5, <3>1, <3>3
    <3> QED BY <3>2, <3>3
  <2> QED BY <2>1, <2>3, <2>4, <2>5
<1>11. ASSUME NEW k \in Markers, MarkRecords(k) PROVE SoleInv'
  BY <1>11 DEF MarkRecords
<1>12. ASSUME NEW k \in Markers, MarkPersists(k) PROVE SoleInv'
  BY <1>12 DEF MarkPersists
<1>13. CASE LogoutBegins
  BY <1>13 DEF LogoutBegins
<1>14. CASE LogoutAsks
  BY <1>14 DEF LogoutAsks, Off
<1>15. CASE LogoutRecords
  BY <1>15 DEF LogoutRecords
<1>16. CASE Stop
  BY <1>16 DEF Stop, PairCancel, Cancelled, Off
<1>17. ASSUME NEW l \in Logins, GivesCode(l) PROVE SoleInv'
  BY <1>17 DEF GivesCode, Emits
<1>18. ASSUME NEW l \in Logins, Scan(l) PROVE SoleInv'
  BY <1>18 DEF Scan, Emits
<1>19. ASSUME NEW l \in Logins, StreamFails(l) PROVE SoleInv'
  BY <1>19 DEF StreamFails, Emits, Off
<1>20. ASSUME NEW l \in Logins, StreamCut(l) PROVE SoleInv'
  BY <1>20 DEF StreamCut, Off
<1>21. ASSUME NEW l \in Logins, PairingExpires(l) PROVE SoleInv'
  BY <1>21 DEF PairingExpires
<1>22. CASE QRExpires
  BY <1>22 DEF QRExpires
<1>23. ASSUME NEW c \in Clients, ComesOnline(c) PROVE SoleInv'
  BY <1>23 DEF ComesOnline, Reads
<1>24. ASSUME NEW c \in Clients, GoesOffline(c) PROVE SoleInv'
  BY <1>24 DEF GoesOffline
<1>25. ASSUME NEW c \in Clients, Unlinked(c) PROVE SoleInv'
  BY <1>25 DEF Unlinked, Off
<1>26. ASSUME NEW l \in Logins, Opens(l) PROVE SoleInv'
  BY <1>26 DEF Opens, Goes
<1> HIDE DEF IInv, TypeOK, Clients, Markers, Resting, sessionVars, deviceVars, streamVars,
        logoutVars, MarkInv, StreamInv, SoleInv, Alive, Terminal
<1> QED BY <1>1, <1>2, <1>3, <1>4, <1>5, <1>6, <1>7, <1>8, <1>9, <1>10, <1>11, <1>12, <1>13, <1>14,
    <1>15, <1>16, <1>17, <1>18, <1>19, <1>20, <1>21, <1>22, <1>23, <1>24, <1>25, <1>26
    DEF Next, Eater, Mark, Library

\* A code is offered by the consumer of the session's client, and withdrawn when the
\* consumer is told of the scan or of a failure.
LEMMA StepOfferInv ==
    ASSUME IInv, Next PROVE OfferInv'
<1> USE PairingAssumption
    DEF IInv, TypeOK, Clients, Markers, Resting, sessionVars, deviceVars, streamVars,
        logoutVars, MarkInv, StreamInv, SoleInv, OfferInv, Alive, Terminal
<1>1. ASSUME NEW l \in Logins, BeginLogin(l) PROVE OfferInv'
  BY <1>1 DEF BeginLogin, Goes
<1>2. ASSUME NEW l \in Logins, Install(l) PROVE OfferInv'
  <2> SUFFICES ASSUME ~rivals' PROVE OfferInv'
    OBVIOUS
  <2>1. /\ qr' = NoClient /\ ctx'[l] \in {"live", "expired"}
        /\ \A c \in Clients : c # l => ~Alive(c)'
    BY <1>2, Installing
  <2> QED BY <2>1
<1>3. ASSUME NEW l \in Logins, Connect(l) PROVE OfferInv'
  BY <1>3 DEF Connect, Goes, Cancelled, Off
<1>4. ASSUME NEW l \in Logins, LoginReturns(l) PROVE OfferInv'
  BY <1>4 DEF LoginReturns, Goes
<1>5. ASSUME NEW l \in Logins, EatCode(l) PROVE OfferInv'
  BY <1>5 DEF EatCode, Eats
<1>6. ASSUME NEW l \in Logins, EatSuccess(l) PROVE OfferInv'
  BY <1>6 DEF EatSuccess, Eats, Reads
<1>7. ASSUME NEW l \in Logins, Scanned(l) PROVE OfferInv'
  <2>1. /\ eater[l] = "scanned" /\ mark[<<"scan", l>>].step = "out"
        /\ eater' = [eater EXCEPT ![l] = "draining"]
        /\ ctx' = Cancelled(l)
        /\ UNCHANGED <<qr, client, login, mark, stopped, rivals>>
    BY <1>7 DEF Scanned
  <2>2. \A m \in Logins \ {l} : ctx'[m] = ctx[m] /\ eater'[m] = eater[m]
    BY <2>1 DEF Cancelled
  <2>3. login[l] # "installed" /\ eater'[l] = "draining"
    BY <2>1
  <2>4. ~rivals /\ qr = l => ctx[l] = "expired" \/ stopped
    BY <2>1
  <2>5. ctx[l] = "expired" => ctx'[l] = "expired"
    BY <2>1 DEF Cancelled
  <2> QED BY <2>1, <2>2, <2>3, <2>4, <2>5
<1>8. ASSUME NEW l \in Logins, EatFailure(l) PROVE OfferInv'
  BY <1>8 DEF EatFailure, Eats, Cancelled, Off
<1>9. ASSUME NEW l \in Logins, EaterEnds(l) PROVE OfferInv'
  <2>1. /\ eater[l] \in {"reading", "draining"} /\ stream[l] = "closed" /\ items[l] = <<>>
        /\ eater' = [eater EXCEPT ![l] = "over"]
        /\ ctx' = Cancelled(l)
        /\ UNCHANGED <<qr, client, login, mark, stopped, rivals>>
    BY <1>9 DEF EaterEnds
  <2>2. \A m \in Logins \ {l} : ctx'[m] = ctx[m] /\ eater'[m] = eater[m]
    BY <2>1 DEF Cancelled
  <2>3. login[l] # "installed" /\ eater'[l] = "over"
    BY <2>1
  <2>4. eater[l] = "reading" => ctx[l] \in {"cancelled", "expired"}
    BY <2>1, NoneEnded
  <2>5. ~rivals /\ qr = l => ctx[l] = "expired" \/ stopped
    BY <2>1, <2>4
  <2>6. ctx[l] = "expired" => ctx'[l] = "expired"
    BY <2>1 DEF Cancelled
  <2> QED BY <2>1, <2>2, <2>3, <2>5, <2>6
<1>10. ASSUME NEW k \in Markers, MarkAsks(k) PROVE OfferInv'
  BY <1>10 DEF MarkAsks
<1>11. ASSUME NEW k \in Markers, MarkRecords(k) PROVE OfferInv'
  BY <1>11 DEF MarkRecords
<1>12. ASSUME NEW k \in Markers, MarkPersists(k) PROVE OfferInv'
  <2>1. /\ mark[k].step = "persist" /\ mark' = [mark EXCEPT ![k] = Resting]
        /\ UNCHANGED <<qr, client, ctx, login, eater, stopped, rivals>>
    BY <1>12 DEF MarkPersists
  <2>2. \A l \in Logins : <<"scan", l>> \in Markers
    OBVIOUS
  <2>3. \A l \in Logins : mark[<<"scan", l>>].step \in {"ask", "record"} =>
                            mark'[<<"scan", l>>] = mark[<<"scan", l>>]
    BY <2>1, <2>2
  <2> QED BY <2>1, <2>3
<1>13. CASE LogoutBegins
  BY <1>13 DEF LogoutBegins
<1>14. CASE LogoutAsks
  BY <1>14 DEF LogoutAsks, Off
<1>15. CASE LogoutRecords
  BY <1>15 DEF LogoutRecords
<1>16. CASE Stop
  BY <1>16 DEF Stop, PairCancel, Cancelled, Off
<1>17. ASSUME NEW l \in Logins, GivesCode(l) PROVE OfferInv'
  BY <1>17 DEF GivesCode, Emits
<1>18. ASSUME NEW l \in Logins, Scan(l) PROVE OfferInv'
  BY <1>18 DEF Scan, Emits
<1>19. ASSUME NEW l \in Logins, StreamFails(l) PROVE OfferInv'
  BY <1>19 DEF StreamFails, Emits, Off
<1>20. ASSUME NEW l \in Logins, StreamCut(l) PROVE OfferInv'
  BY <1>20 DEF StreamCut, Off
<1>21. ASSUME NEW l \in Logins, PairingExpires(l) PROVE OfferInv'
  BY <1>21 DEF PairingExpires
<1>22. CASE QRExpires
  BY <1>22 DEF QRExpires
<1>23. ASSUME NEW c \in Clients, ComesOnline(c) PROVE OfferInv'
  BY <1>23 DEF ComesOnline, Reads
<1>24. ASSUME NEW c \in Clients, GoesOffline(c) PROVE OfferInv'
  BY <1>24 DEF GoesOffline
<1>25. ASSUME NEW c \in Clients, Unlinked(c) PROVE OfferInv'
  BY <1>25 DEF Unlinked, Off
<1>26. ASSUME NEW l \in Logins, Opens(l) PROVE OfferInv'
  BY <1>26 DEF Opens, Goes
<1> HIDE DEF IInv, TypeOK, Clients, Markers, Resting, sessionVars, deviceVars, streamVars,
        logoutVars, MarkInv, StreamInv, SoleInv, OfferInv, Alive, Terminal
<1> QED BY <1>1, <1>2, <1>3, <1>4, <1>5, <1>6, <1>7, <1>8, <1>9, <1>10, <1>11, <1>12, <1>13, <1>14,
    <1>15, <1>16, <1>17, <1>18, <1>19, <1>20, <1>21, <1>22, <1>23, <1>24, <1>25, <1>26
    DEF Next, Eater, Mark, Library

\* Only markConnected makes the session connected: its client has been paired, and its
\* JID is recorded in the same section unless the device has been unlinked since.
LEMMA StepConnectedInv ==
    ASSUME IInv, Next PROVE ConnectedInv'
<1> USE PairingAssumption
    DEF IInv, TypeOK, Clients, Markers, Resting, sessionVars, deviceVars, streamVars,
        logoutVars, MarkInv, StreamInv, SoleInv, OfferInv, ConnectedInv, Alive, Terminal
<1>1. ASSUME NEW l \in Logins, BeginLogin(l) PROVE ConnectedInv'
  BY <1>1 DEF BeginLogin, Goes
<1>2. ASSUME NEW l \in Logins, Install(l) PROVE ConnectedInv'
  BY <1>2 DEF Install, Goes, PairCancel, Cancelled
<1>3. ASSUME NEW l \in Logins, Connect(l) PROVE ConnectedInv'
  BY <1>3 DEF Connect, Goes, Cancelled, Off
<1>4. ASSUME NEW l \in Logins, LoginReturns(l) PROVE ConnectedInv'
  BY <1>4 DEF LoginReturns, Goes
<1>5. ASSUME NEW l \in Logins, EatCode(l) PROVE ConnectedInv'
  BY <1>5 DEF EatCode, Eats
<1>6. ASSUME NEW l \in Logins, EatSuccess(l) PROVE ConnectedInv'
  BY <1>6 DEF EatSuccess, Eats, Reads
<1>7. ASSUME NEW l \in Logins, Scanned(l) PROVE ConnectedInv'
  BY <1>7 DEF Scanned, Cancelled
<1>8. ASSUME NEW l \in Logins, EatFailure(l) PROVE ConnectedInv'
  <2>1. Eats(l, "failure") /\ eater[l] = "reading" /\ UNCHANGED <<paired, jid, rivals>>
    BY <1>8 DEF EatFailure, Eats
  <2>2. ~rivals => l = client /\ paired[l] = "no"
    BY <2>1, EatingLast
  <2>3. status' = "connected" => status = "connected"
    BY <1>8 DEF EatFailure
  <2> QED BY <2>1, <2>2, <2>3
<1>9. ASSUME NEW l \in Logins, EaterEnds(l) PROVE ConnectedInv'
  BY <1>9 DEF EaterEnds, Cancelled
<1>10. ASSUME NEW k \in Markers, MarkAsks(k) PROVE ConnectedInv'
  BY <1>10 DEF MarkAsks
<1>11. ASSUME NEW k \in Markers, MarkRecords(k) PROVE ConnectedInv'
  <2>1. /\ mark[k].step = "record"
        /\ jid' = IF mark[k].who = NoClient THEN jid ELSE mark[k].who
        /\ UNCHANGED <<client, paired, rivals>>
    BY <1>11 DEF MarkRecords
  <2>2. ~rivals => /\ client \in Clients /\ k[2] = client /\ paired[client] # "no"
                   /\ mark[k].who \in {client, NoClient}
    BY <2>1, MarkOfClient
  <2>3. ~rivals /\ mark[k].who = NoClient => paired[client] = "unlinked"
    BY <2>1, <2>2
  <2> QED BY <2>1, <2>2, <2>3
<1>12. ASSUME NEW k \in Markers, MarkPersists(k) PROVE ConnectedInv'
  BY <1>12 DEF MarkPersists
<1>13. CASE LogoutBegins
  BY <1>13 DEF LogoutBegins
<1>14. CASE LogoutAsks
  BY <1>14 DEF LogoutAsks, Off
<1>15. CASE LogoutRecords
  BY <1>15 DEF LogoutRecords
<1>16. CASE Stop
  BY <1>16 DEF Stop, PairCancel, Cancelled, Off
<1>17. ASSUME NEW l \in Logins, GivesCode(l) PROVE ConnectedInv'
  BY <1>17 DEF GivesCode, Emits
<1>18. ASSUME NEW l \in Logins, Scan(l) PROVE ConnectedInv'
  BY <1>18 DEF Scan, Emits
<1>19. ASSUME NEW l \in Logins, StreamFails(l) PROVE ConnectedInv'
  BY <1>19 DEF StreamFails, Emits, Off
<1>20. ASSUME NEW l \in Logins, StreamCut(l) PROVE ConnectedInv'
  BY <1>20 DEF StreamCut, Off
<1>21. ASSUME NEW l \in Logins, PairingExpires(l) PROVE ConnectedInv'
  BY <1>21 DEF PairingExpires
<1>22. CASE QRExpires
  BY <1>22 DEF QRExpires
<1>23. ASSUME NEW c \in Clients, ComesOnline(c) PROVE ConnectedInv'
  BY <1>23 DEF ComesOnline, Reads
<1>24. ASSUME NEW c \in Clients, GoesOffline(c) PROVE ConnectedInv'
  BY <1>24 DEF GoesOffline
<1>25. ASSUME NEW c \in Clients, Unlinked(c) PROVE ConnectedInv'
  BY <1>25 DEF Unlinked, Off
<1>26. ASSUME NEW l \in Logins, Opens(l) PROVE ConnectedInv'
  BY <1>26 DEF Opens, Goes
<1> HIDE DEF IInv, TypeOK, Clients, Markers, Resting, sessionVars, deviceVars, streamVars,
        logoutVars, MarkInv, StreamInv, SoleInv, OfferInv, ConnectedInv, Alive, Terminal
<1> QED BY <1>1, <1>2, <1>3, <1>4, <1>5, <1>6, <1>7, <1>8, <1>9, <1>10, <1>11, <1>12, <1>13, <1>14,
    <1>15, <1>16, <1>17, <1>18, <1>19, <1>20, <1>21, <1>22, <1>23, <1>24, <1>25, <1>26
    DEF Next, Eater, Mark, Library

\* Every step of logins, consumers, handlers, the library and stop preserves the invariant.
LEMMA StepInv == IInv /\ [Next]_vars => IInv'
<1> SUFFICES ASSUME IInv, [Next]_vars PROVE IInv'
  OBVIOUS
<1>1. CASE Next
  BY <1>1, StepTypeOK, StepMarkInv, StepContextInv, StepStreamInv, StepSoleInv, StepOfferInv,
     StepConnectedInv DEF IInv
<1>2. CASE UNCHANGED vars
  BY <1>2 DEF vars, sessionVars, deviceVars, streamVars, logoutVars, IInv, TypeOK, MarkInv,
      JIDWasPaired, ContextInv, StreamInv, SoleInv, Alive, OfferInv, ConnectedInv
<1> QED BY <1>1, <1>2

\* The session, its clients, their streams and the JIDs on their way stay consistent
\* (login, consumeQR, markConnected, the event handlers, logout and stop).
THEOREM Invariance == Spec => []IInv
<1> QED BY InitInv, StepInv, PTL DEF Spec

-----------------------------------------------------------------------------
(* What the runs check, for every number of login calls. *)

\* Every variable stays in its range, and a client is there whenever it is called
\* (markConnected after its test for nil, logout).
THEOREM TypeCorrect == Spec => []TypeOK
<1>1. IInv => TypeOK
  BY DEF IInv
<1> QED BY <1>1, Invariance, PTL

\* However many login calls pass the status check together, each with a live context,
\* those that have been through the locked section leave at most one live, the one that
\* pairCancel ends (session.login, session.stop).
THEOREM OnePairingAtATime == Spec => []OnePairing
<1>1. IInv => OnePairing
  BY DEF IInv, ContextInv, OnePairing
<1> QED BY <1>1, Invariance, PTL

\* The session and the registry name no device that was never paired (markConnected).
THEOREM OnlyPairedJIDs == Spec => []JIDWasPaired
<1>1. IInv => JIDWasPaired
  BY DEF IInv, MarkInv
<1> QED BY <1>1, Invariance, PTL

\* While no two clients of the session overlap, "connected" means a paired client and its
\* JID, and a code on offer is one that is still being consumed (consumeQR, markConnected,
\* failPairing, logout, and the event handlers).
THEOREM PairingUndisturbed == Spec => []Undisturbed
<1>1. IInv => Undisturbed
  BY DEF IInv, ConnectedInv, OfferInv, Undisturbed
<1> QED BY <1>1, Invariance, PTL

-----------------------------------------------------------------------------
(* The writes of a JID. *)

\* Unless two new JIDs met on their way, the one being written is the session's; and when
\* none is, the row has it if the last write succeeded.
SavedInv ==
    ~crossed =>
        /\ \A k \in Markers : mark[k].step = "persist" => mark[k].who = jid
        /\ \A k, q \in Markers : mark[k].step = "persist" /\ mark[q].step = "persist" => k = q
        /\ ~unsaved /\ (\A k \in Markers : mark[k].step # "persist") => row = jid

\* Only the last two sections of markConnected change the JID, the row and what is being
\* written.
LEMMA OtherSteps ==
    ASSUME IInv, Next, \A k \in Markers : ~MarkRecords(k) /\ ~MarkPersists(k)
    PROVE  /\ UNCHANGED <<jid, row>>
           /\ \A k \in Markers : (mark[k].step = "persist" \/ mark'[k].step = "persist") =>
                                    mark'[k] = mark[k]
<1> DEFINE Goal == /\ UNCHANGED <<jid, row>>
                   /\ \A k \in Markers : (mark[k].step = "persist" \/ mark'[k].step = "persist") =>
                                            mark'[k] = mark[k]
<1> SUFFICES Goal
  OBVIOUS
<1> USE DEF sessionVars, deviceVars, streamVars, logoutVars
<1>1. CASE \E l \in Logins : \/ BeginLogin(l) \/ Opens(l) \/ Install(l) \/ Connect(l) \/ LoginReturns(l)
                             \/ EatCode(l) \/ Scanned(l) \/ EatFailure(l) \/ EaterEnds(l)
  BY <1>1 DEF BeginLogin, Opens, Install, Connect, LoginReturns, EatCode, Scanned, EatFailure,
              EaterEnds
<1>2. ASSUME NEW q \in Markers, Reads(q), mark[q].step = "out", UNCHANGED <<jid, row>>
      PROVE  Goal
  <2>1. /\ mark' = [mark EXCEPT ![q] =
               IF client = NoClient THEN Resting ELSE [step |-> "ask", who |-> client]]
        /\ mark \in [Markers -> [step : {"out", "ask", "record", "persist"},
                                 who : Clients \union {NoClient}]]
    BY <1>2 DEF Reads, IInv, TypeOK
  <2>2. mark'[q].step # "persist"
    BY <2>1 DEF Resting
  <2>3. \A k \in Markers \ {q} : mark'[k] = mark[k]
    BY <2>1
  <2> QED BY <1>2, <2>2, <2>3
<1>3. ASSUME NEW l \in Logins, EatSuccess(l) PROVE Goal
  <2>1. /\ Reads(<<"scan", l>>) /\ eater[l] = "reading" /\ UNCHANGED <<jid, row>>
        /\ <<"scan", l>> \in Markers
    BY <1>3 DEF EatSuccess, Eats, Markers
  <2>2. mark[<<"scan", l>>].step = "out"
    BY <2>1 DEF IInv, MarkInv
  <2> HIDE DEF Goal
  <2> QED BY <1>2, <2>1, <2>2
<1>4. ASSUME NEW c \in Clients, ComesOnline(c) PROVE Goal
  <2>1. /\ Reads(<<"event", c>>) /\ mark[<<"event", c>>].step = "out" /\ UNCHANGED <<jid, row>>
        /\ <<"event", c>> \in Markers
    BY <1>4 DEF ComesOnline, Markers, Resting
  <2> HIDE DEF Goal
  <2> QED BY <1>2, <2>1
<1>5. ASSUME NEW q \in Markers, MarkAsks(q) PROVE Goal
  <2>1. /\ mark[q].step = "ask" /\ UNCHANGED <<jid, row>>
        /\ \E who : mark' = [mark EXCEPT ![q] = [step |-> "record", who |-> who]]
        /\ mark \in [Markers -> [step : {"out", "ask", "record", "persist"},
                                 who : Clients \union {NoClient}]]
    BY <1>5 DEF MarkAsks, IInv, TypeOK
  <2>2. mark'[q].step = "record" /\ \A k \in Markers \ {q} : mark'[k] = mark[k]
    BY <2>1
  <2> QED BY <2>1, <2>2
<1>6. CASE LogoutBegins \/ LogoutAsks \/ LogoutRecords \/ Stop \/ QRExpires
  BY <1>6 DEF LogoutBegins, LogoutAsks, LogoutRecords, Stop, QRExpires
<1>7. CASE \E l \in Logins : \/ GivesCode(l) \/ Scan(l) \/ StreamFails(l) \/ StreamCut(l)
                             \/ PairingExpires(l)
  BY <1>7 DEF GivesCode, Scan, StreamFails, StreamCut, PairingExpires
<1>8. CASE \E c \in Clients : GoesOffline(c) \/ Unlinked(c)
  BY <1>8 DEF GoesOffline, Unlinked
<1> HIDE DEF Goal
<1>9. CASE \E l \in Logins : \/ BeginLogin(l) \/ Opens(l) \/ Install(l) \/ Connect(l)
                             \/ LoginReturns(l) \/ Eater(l)
  BY <1>1, <1>3, <1>9 DEF Eater
<1>10. CASE \E k \in Markers : Mark(k)
  BY <1>5, <1>10 DEF Mark
<1>11. CASE Library
  BY <1>4, <1>6, <1>7, <1>8, <1>11 DEF Library
<1> QED BY <1>6, <1>9, <1>10, <1>11 DEF Next

\* The JID recorded is the one that is then written, unless another overtakes it.
LEMMA StepSavedInv ==
    ASSUME IInv, SavedInv, NextHistory PROVE SavedInv'
<1> SUFFICES ASSUME ~crossed' PROVE SavedInv'
  BY DEF SavedInv
<1>1. /\ Next /\ ~crossed
      /\ \A k \in Markers : Enters(k, "persist") =>
            \A q \in Markers \ {k} : mark[q].step # "persist"
      /\ unsaved' = IF \E k \in Markers : Leaves(k, "persist")
                    THEN \E k \in Markers : Leaves(k, "persist") /\ row' # mark[k].who
                    ELSE unsaved
  BY DEF NextHistory
<1>2. /\ \A k \in Markers : mark[k].step = "persist" => mark[k].who = jid
      /\ \A k, q \in Markers : mark[k].step = "persist" /\ mark[q].step = "persist" => k = q
      /\ ~unsaved /\ (\A k \in Markers : mark[k].step # "persist") => row = jid
  BY <1>1 DEF SavedInv
<1>3. mark \in [Markers -> [step : {"out", "ask", "record", "persist"},
                           who : Clients \union {NoClient}]]
  BY DEF IInv, TypeOK
<1>4. ASSUME NEW k \in Markers, MarkRecords(k) PROVE SavedInv'
  <2>1. mark[k].step = "record" /\ row' = row
    BY <1>4 DEF MarkRecords
  <2>2. CASE mark[k].who \in {NoClient, jid}
    <3>1. mark' = [mark EXCEPT ![k] = Resting] /\ jid' = jid
      BY <1>4, <2>2 DEF MarkRecords
    <3>2. \A q \in Markers : /\ (mark[q].step = "persist" \/ mark'[q].step = "persist") =>
                                 mark'[q] = mark[q]
      BY <1>3, <2>1, <3>1 DEF Resting
    <3>3. unsaved' = unsaved
      BY <1>1, <3>2 DEF Leaves
    <3> QED BY <1>2, <2>1, <3>1, <3>2, <3>3 DEF SavedInv
  <2>3. CASE mark[k].who \notin {NoClient, jid}
    <3>1. /\ mark' = [mark EXCEPT ![k] = [mark[k] EXCEPT !.step = "persist"]]
          /\ jid' = mark[k].who
      BY <1>4, <2>3 DEF MarkRecords
    <3>2. /\ mark'[k].step = "persist" /\ mark'[k].who = jid'
          /\ \A q \in Markers \ {k} : mark'[q] = mark[q]
      BY <1>3, <3>1
    <3>3. \A q \in Markers \ {k} : mark'[q].step # "persist"
      BY <1>1, <2>1, <3>2 DEF Enters
    <3> QED BY <3>2, <3>3 DEF SavedInv
  <2> QED BY <2>2, <2>3
<1>5. ASSUME NEW k \in Markers, MarkPersists(k) PROVE SavedInv'
  <2>1. /\ mark[k].step = "persist" /\ jid' = jid
        /\ mark' = [mark EXCEPT ![k] = Resting]
    BY <1>5 DEF MarkPersists
  <2>2. \A q \in Markers : mark'[q].step # "persist"
    BY <1>2, <1>3, <2>1 DEF Resting
  <2>3. ~unsaved' => row' = mark[k].who
    BY <1>1, <2>1, <2>2 DEF Leaves
  <2> QED BY <1>2, <2>1, <2>2, <2>3 DEF SavedInv
<1>6. ASSUME \A k \in Markers : ~MarkRecords(k) /\ ~MarkPersists(k) PROVE SavedInv'
  <2>1. /\ UNCHANGED <<jid, row>>
        /\ \A k \in Markers : (mark[k].step = "persist" \/ mark'[k].step = "persist") =>
                                 mark'[k] = mark[k]
    BY <1>1, <1>6, OtherSteps
  <2>2. unsaved' = unsaved
    BY <1>1, <2>1 DEF Leaves
  <2> QED BY <1>2, <2>1, <2>2 DEF SavedInv
<1> QED BY <1>4, <1>5, <1>6

\* When nothing is being written, the row names the session's device, unless the last
\* write failed or two new JIDs were on their way at once (markConnected, UpdateJID).
THEOREM SessionJIDSaved == SpecHistory => []JIDSaved
<1>1. InitHistory => IInv /\ SavedInv
  <2> SUFFICES ASSUME InitHistory PROVE IInv /\ SavedInv
    OBVIOUS
  <2>1. IInv
    BY InitInv DEF InitHistory
  <2>2. row = jid /\ \A k \in Markers : mark[k].step = "out"
    BY DEF InitHistory, Init, Resting
  <2> QED BY <2>1, <2>2 DEF SavedInv
<1>2. IInv /\ SavedInv /\ [NextHistory]_historyVars => (IInv /\ SavedInv)'
  <2> SUFFICES ASSUME IInv, SavedInv, [NextHistory]_historyVars PROVE (IInv /\ SavedInv)'
    OBVIOUS
  <2>1. CASE NextHistory
    BY <2>1, StepInv, StepSavedInv DEF NextHistory
  <2>2. CASE UNCHANGED historyVars
    <3>1. UNCHANGED vars /\ UNCHANGED <<crossed, unsaved>>
      BY <2>2 DEF historyVars
    <3>2. SavedInv'
      BY <3>1 DEF vars, sessionVars, SavedInv
    <3> QED BY <3>1, <3>2, StepInv
  <2> QED BY <2>1, <2>2
<1>3. SavedInv => JIDSaved
  BY DEF SavedInv, JIDSaved
<1> QED BY <1>1, <1>2, <1>3, PTL DEF SpecHistory
=============================================================================
