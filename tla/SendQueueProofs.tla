-------------------------- MODULE SendQueueProofs ---------------------------
(***************************************************************************)
(* Proofs about SendQueue for every set of requests, clients and messages, *)
(* every queue size and every behaviour of the rest of the session: the    *)
(* type invariant, the truthfulness of what callers are told, and that the *)
(* queue implements SendContract.                                          *)
(***************************************************************************)
EXTENDS SendQueue, SequenceTheorems, TLAPS

-----------------------------------------------------------------------------
(* Sequences. *)

\* Taking the head: an element occurs in s iff it is the head or occurs in the tail.
LEMMA HeadTail ==
    ASSUME NEW S, NEW s \in Seq(S), s # <<>>
    PROVE  /\ Head(s) \in S
           /\ Tail(s) \in Seq(S)
           /\ Len(Tail(s)) = Len(s) - 1
           /\ Head(s) = s[1]
           /\ \A i \in 1..Len(Tail(s)) : Tail(s)[i] = s[i + 1]
  OBVIOUS

\* Appending: the new element is the last one.
LEMMA AppendEnd ==
    ASSUME NEW S, NEW s \in Seq(S), NEW e \in S
    PROVE  /\ Append(s, e) \in Seq(S)
           /\ Len(Append(s, e)) = Len(s) + 1
           /\ Append(s, e)[Len(s) + 1] = e
           /\ \A i \in 1..Len(s) : Append(s, e)[i] = s[i]
  OBVIOUS

\* What occurs in a sequence after an element is appended.
LEMMA OccursAppend ==
    ASSUME NEW S, NEW s \in Seq(S), NEW e \in S
    PROVE  Occurs(Append(s, e)) = Occurs(s) \union {e}
<1> DEFINE t == Append(s, e)
<1>1. /\ Len(t) = Len(s) + 1 /\ Len(s) \in Nat
      /\ t[Len(s) + 1] = e
      /\ \A i \in 1..Len(s) : t[i] = s[i]
  BY AppendEnd
<1>2. ASSUME NEW x \in Occurs(t) PROVE x \in Occurs(s) \union {e}
  <2>1. PICK i \in 1..Len(t) : x = t[i]
    BY DEF Occurs
  <2>2. i = Len(s) + 1 \/ i \in 1..Len(s)
    BY <1>1
  <2> QED BY <1>1, <2>1, <2>2 DEF Occurs
<1>3. ASSUME NEW x \in Occurs(s) PROVE x \in Occurs(t)
  <2>1. PICK i \in 1..Len(s) : x = s[i]
    BY DEF Occurs
  <2>2. i \in 1..Len(t) /\ t[i] = x
    BY <1>1, <2>1
  <2> QED BY <2>2 DEF Occurs
<1>4. e \in Occurs(t)
  <2>1. Len(s) + 1 \in 1..Len(t)
    BY <1>1
  <2> QED BY <1>1, <2>1 DEF Occurs
<1> QED BY <1>2, <1>3, <1>4

\* What occurs in a sequence is its head and what occurs in its tail.
LEMMA OccursHead ==
    ASSUME NEW S, NEW s \in Seq(S), s # <<>>
    PROVE  Occurs(s) = {Head(s)} \union Occurs(Tail(s))
<1>1. /\ Len(Tail(s)) = Len(s) - 1 /\ Len(s) \in Nat /\ Len(s) > 0
      /\ Head(s) = s[1]
      /\ \A i \in 1..Len(Tail(s)) : Tail(s)[i] = s[i + 1]
  BY HeadTail
<1>2. ASSUME NEW x \in Occurs(s) PROVE x \in {Head(s)} \union Occurs(Tail(s))
  <2>1. PICK i \in 1..Len(s) : x = s[i]
    BY DEF Occurs
  <2>2. CASE i = 1
    BY <1>1, <2>1, <2>2
  <2>3. CASE i # 1
    <3>1. i - 1 \in 1..Len(Tail(s)) /\ Tail(s)[i - 1] = s[i]
      BY <1>1, <2>3
    <3> QED BY <2>1, <3>1 DEF Occurs
  <2> QED BY <2>2, <2>3
<1>3. ASSUME NEW x \in Occurs(Tail(s)) PROVE x \in Occurs(s)
  <2>1. PICK i \in 1..Len(Tail(s)) : x = Tail(s)[i]
    BY DEF Occurs
  <2>2. i + 1 \in 1..Len(s) /\ s[i + 1] = x
    BY <1>1, <2>1
  <2> QED BY <2>2 DEF Occurs
<1>4. Head(s) \in Occurs(s)
  <2>1. 1 \in 1..Len(s)
    BY <1>1
  <2> QED BY <1>1, <2>1 DEF Occurs
<1> QED BY <1>2, <1>3, <1>4

\* Appending something new keeps the elements of a sequence distinct.
LEMMA DistinctAppend ==
    ASSUME NEW S, NEW s \in Seq(S), NEW e \in S, e \notin Occurs(s),
           \A i, j \in 1..Len(s) : s[i] = s[j] => i = j
    PROVE  \A i, j \in 1..Len(Append(s, e)) :
               Append(s, e)[i] = Append(s, e)[j] => i = j
<1> DEFINE t == Append(s, e)
<1>1. /\ Len(t) = Len(s) + 1 /\ Len(s) \in Nat
      /\ t[Len(s) + 1] = e
      /\ \A i \in 1..Len(s) : t[i] = s[i] /\ t[i] # e
  BY AppendEnd DEF Occurs
<1>2. \A i \in 1..Len(t) : i = Len(s) + 1 \/ i \in 1..Len(s)
  BY <1>1
<1> HIDE DEF t
<1>3. \A i, j \in 1..Len(t) : t[i] = t[j] => i = j
  BY <1>1, <1>2
<1> QED BY <1>3 DEF t

\* The elements of a tail are distinct if those of the sequence are, and the head
\* is not among them.
LEMMA DistinctTail ==
    ASSUME NEW S, NEW s \in Seq(S), s # <<>>,
           \A i, j \in 1..Len(s) : s[i] = s[j] => i = j
    PROVE  /\ \A i, j \in 1..Len(Tail(s)) : Tail(s)[i] = Tail(s)[j] => i = j
           /\ Head(s) \notin Occurs(Tail(s))
<1>1. /\ Len(Tail(s)) = Len(s) - 1 /\ Len(s) \in Nat /\ Len(s) > 0
      /\ Head(s) = s[1]
      /\ \A i \in 1..Len(Tail(s)) : Tail(s)[i] = s[i + 1]
  BY HeadTail
<1>2. \A i \in 1..Len(Tail(s)) : i + 1 \in 1..Len(s) /\ i + 1 # 1
  BY <1>1
<1>3. ASSUME NEW i \in 1..Len(Tail(s)), NEW j \in 1..Len(Tail(s)), Tail(s)[i] = Tail(s)[j]
      PROVE  i = j
  <2>1. s[i + 1] = s[j + 1]
    BY <1>1, <1>3
  <2>2. i + 1 = j + 1
    BY <1>2, <2>1
  <2> QED BY <2>2
<1>4. ASSUME NEW i \in 1..Len(Tail(s)) PROVE Tail(s)[i] # Head(s)
  <2>1. 1 \in 1..Len(s)
    BY <1>1
  <2> QED BY <1>1, <1>2, <2>1
<1> QED BY <1>3, <1>4 DEF Occurs

-----------------------------------------------------------------------------
(* The inductive invariant. *)

\* A new session satisfies the invariant.
LEMMA InitInv == Init => IInv
  BY QueueAssumption DEF Init, IInv, TypeOK, InService, WorkerInv, NeverNilClient,
     LineInv, VerdictInv, OutcomeTells, InLine, Occurs, Done, Delivered

\* Every step of a caller, of the worker, of stop and of the rest of the session
\* preserves the inductive invariant.
LEMMA StepInv == IInv /\ [Next]_vars => IInv'
<1> SUFFICES ASSUME IInv, [Next]_vars PROVE IInv'
  OBVIOUS
<1> USE QueueAssumption
    DEF IInv, TypeOK, WorkerInv, NeverNilClient, LineInv, VerdictInv, OutcomeTells,
        InLine, Occurs, Done, Answers, Outcomes, Delivered, InService,
        sessionVars, inboxVars, callerVars, workerVars
<1>1. CASE SessionChanges
  BY <1>1 DEF SessionChanges
<1>2. ASSUME NEW m \in Messages, Receive(m) PROVE IInv'
  BY <1>2 DEF Receive
<1>3. ASSUME NEW r \in Requests, Call(r) PROVE IInv'
  BY <1>3 DEF Call, Goes
<1>4. ASSUME NEW r \in Requests, Offer(r) PROVE IInv'
  <2>1. CASE Len(sendCh) >= QueueSize
    BY <1>4, <2>1, SMTT(30) DEF Offer, Goes
  <2>2. CASE Len(sendCh) < QueueSize
    <3>1. /\ call[r] = "checked"
          /\ sendCh' = Append(sendCh, r)
          /\ call' = [call EXCEPT ![r] = "waiting"]
          /\ UNCHANGED <<status, client, arrived, unread, toRead, receipted, cancelled,
                         out, wpc, job, using, handed, stopping>>
      BY <1>4, <2>2 DEF Offer, Goes
    <3>2. sendCh' \in Seq(Requests)
      BY <3>1, AppendEnd
    <3>4. r # job /\ r \notin Occurs(sendCh)
      BY <3>1
    <3>5. TypeOK' /\ WorkerInv'
      BY <3>1, <3>2
    <3> HIDE DEF Occurs
    <3>6. Occurs(sendCh') = Occurs(sendCh) \union {r}
      BY <3>1, OccursAppend
    <3>7. \A i, j \in 1..Len(sendCh') : sendCh'[i] = sendCh'[j] => i = j
      BY <3>1, <3>4, DistinctAppend
    <3>8. job' \notin Occurs(sendCh')
      BY <3>1, <3>4, <3>6
    <3>9. \A q \in Requests : InLine(q)' <=> InLine(q) \/ q = r
      BY <3>1, <3>6
    <3>10. r \notin handed /\ out[r] = "none" /\ r # job
      BY <3>1, <3>4
    <3>11. ASSUME NEW q \in Requests, InLine(q)'
           PROVE  /\ call'[q] \in {"waiting", "ctx"}
                  /\ out'[q] = "none"
                  /\ q \in handed' <=> (q = job' /\ wpc' = "sending")
      <4>1. CASE q = r
        BY <4>1, <3>1, <3>10
      <4>2. CASE q # r
        BY <4>2, <3>1, <3>9, <3>11
      <4> QED BY <4>1, <4>2
    <3>12. \A q \in Requests : call'[q] = "waiting" => InLine(q)' \/ out'[q] # "none"
      BY <3>1, <3>9
    <3>13. LineInv'
      BY <3>7, <3>8, <3>11, <3>12
    <3> QED BY <3>1, <3>5, <3>13
  <2> QED BY <2>1, <2>2
<1>5. ASSUME NEW r \in Requests, Await(r) PROVE IInv'
  BY <1>5 DEF Await, Goes
<1>6. ASSUME NEW r \in Requests, CancelCtx(r) PROVE IInv'
  BY <1>6 DEF CancelCtx
<1>7. CASE TakeJob
  <2>1. /\ wpc = "idle" /\ wpc' = "taken" /\ job' = Head(sendCh) /\ sendCh' = Tail(sendCh)
        /\ sendCh # <<>>
        /\ UNCHANGED <<status, client, arrived, unread, toRead, receipted, call, cancelled,
                       out, using, handed, stopping>>
    BY <1>7 DEF TakeJob
  <2>2. /\ job' \in Requests
        /\ sendCh' \in Seq(Requests)
        /\ Len(sendCh') = Len(sendCh) - 1
        /\ job' = sendCh[1]
        /\ \A i \in 1..Len(sendCh') : sendCh'[i] = sendCh[i + 1]
    BY <2>1, HeadTail
  <2>3. TypeOK' /\ WorkerInv'
    BY <2>1, <2>2
  <2>4. job = NoJob /\ 1 \in 1..Len(sendCh)
    BY <2>1
  <2> HIDE DEF Occurs
  <2>5. Occurs(sendCh) = {job'} \union Occurs(sendCh')
    BY <2>1, OccursHead
  <2>6. \A r \in Requests : InLine(r)' <=> InLine(r)
    BY <2>4, <2>5
  <2>7. job' \notin Occurs(sendCh')
    BY <2>1, DistinctTail
  <2>8. \A i, j \in 1..Len(sendCh') : sendCh'[i] = sendCh'[j] => i = j
    BY <2>1, DistinctTail
  <2>9. \A r \in Requests : InLine(r)' =>
            /\ call'[r] \in {"waiting", "ctx"}
            /\ out'[r] = "none"
            /\ r \in handed' <=> (r = job' /\ wpc' = "sending")
    BY <2>1, <2>4, <2>6
  <2>10. \A r \in Requests : call'[r] = "waiting" => InLine(r)' \/ out'[r] # "none"
    BY <2>1, <2>6
  <2>11. LineInv'
    BY <2>7, <2>8, <2>9, <2>10
  <2> QED BY <2>1, <2>3, <2>4, <2>11
<1>8. CASE CheckCtx
  BY <1>8 DEF CheckCtx, Conclude
<1>9. CASE SnapshotClient
  BY <1>9 DEF SnapshotClient, Conclude
<1>10. CASE OpenChat
  BY <1>10 DEF OpenChat
<1>11. ASSUME NEW m \in Messages, MarkRead(m) PROVE IInv'
  BY <1>11 DEF MarkRead
<1>12. CASE StartTyping
  BY <1>12 DEF StartTyping
<1>13. CASE TypingInterrupted
  BY <1>13 DEF TypingInterrupted, Conclude
<1>14. CASE TypingDone
  BY <1>14 DEF TypingDone
<1>15. CASE HandOver
  BY <1>15 DEF HandOver
<1>16. CASE SendReturns
  BY <1>16 DEF SendReturns, Conclude
<1>17. CASE GapOver \/ WorkerExits
  BY <1>17 DEF GapOver, WorkerExits
<1>18. CASE StopBegins \/ StopReturns
  BY <1>18 DEF StopBegins, StopReturns
<1>19. CASE UNCHANGED vars
  BY <1>19 DEF vars
<1> QED
  BY <1>1, <1>2, <1>3, <1>4, <1>5, <1>6, <1>7, <1>8, <1>9, <1>10, <1>11,
     <1>12, <1>13, <1>14, <1>15, <1>16, <1>17, <1>18, <1>19 DEF Next, Worker

\* The invariant holds in every reachable state.
THEOREM Invariant == Spec => []IInv
  BY InitInv, StepInv, PTL DEF Spec

-----------------------------------------------------------------------------
(* What follows from the invariant. *)

\* Every variable stays in its range.
THEOREM TypeCorrect == Spec => []TypeOK
<1>1. IInv => TypeOK
  BY DEF IInv
<1> QED BY Invariant, <1>1, PTL

\* No caller is told that its message was not sent when it was handed to WhatsApp,
\* or that it was sent when it was not.
THEOREM CallersToldTruth == Spec => []OutcomeTells
<1>1. IInv => OutcomeTells
  BY DEF IInv
<1> QED BY Invariant, <1>1, PTL

\* The worker never calls a nil client, however status and client change.
THEOREM ClientNeverNil == Spec => []NeverNilClient
<1>1. IInv => NeverNilClient
  BY DEF IInv, WorkerInv
<1> QED BY Invariant, <1>1, PTL

\* Once stop has returned, nothing is sent, acknowledged or reported.
THEOREM StoppedIsQuiet == Spec => QuietAfterStop
<1>1. IInv /\ [Next]_vars => (stopping = "returned" => UNCHANGED <<handed, receipted, out>>)
  <2> SUFFICES ASSUME IInv, stopping = "returned", [Next]_vars
               PROVE  UNCHANGED <<handed, receipted, out>>
    OBVIOUS
  <2>1. wpc = "exited"
    BY DEF IInv, WorkerInv
  <2>2. CASE Worker
    BY <2>1, <2>2 DEF Worker, TakeJob, CheckCtx, SnapshotClient, OpenChat, MarkRead,
       StartTyping, TypingInterrupted, TypingDone, HandOver, SendReturns, GapOver,
       WorkerExits
  <2>3. CASE [Next /\ ~Worker]_vars
    BY <2>3 DEF Next, vars, SessionChanges, Receive, Call, Offer, Await, CancelCtx,
       StopBegins, StopReturns, inboxVars
  <2> QED BY <2>2, <2>3
<1> QED BY Invariant, <1>1, PTL DEF Spec, QuietAfterStop

-----------------------------------------------------------------------------
(* Cancelled while queued. *)

\* r has been cancelled and the worker has not looked at its context yet, or has
\* concluded it without sending.
Doomed(r) ==
    /\ r \in cancelled
    /\ r \notin handed
    /\ \/ r \in Occurs(sendCh)
       \/ r = job /\ wpc = "taken"
       \/ out[r] # "none"

\* Once cancelled in the queue, a request is never handed over, whatever the next step.
LEMMA DoomedStays ==
    ASSUME NEW r \in Requests, IInv, Doomed(r), [Next]_vars
    PROVE  Doomed(r)'
<1> USE QueueAssumption
    DEF IInv, TypeOK, WorkerInv, LineInv, VerdictInv, InLine, InService, Doomed,
        sessionVars, inboxVars, callerVars, workerVars
<1>1. job # r \/ wpc = "taken" \/ out[r] # "none"
  OBVIOUS
<1>2. ASSUME NEW q \in Requests, Offer(q) PROVE Doomed(r)'
  <2>1. r \in Occurs(sendCh) => r \in Occurs(sendCh')
    <3>1. sendCh' = Append(sendCh, q) \/ sendCh' = sendCh
      BY <1>2 DEF Offer
    <3>2. Occurs(Append(sendCh, q)) = Occurs(sendCh) \union {q}
      BY OccursAppend
    <3> QED BY <3>1, <3>2
  <2> QED BY <1>2, <2>1 DEF Offer
<1>3. CASE TakeJob
  <2>1. Occurs(sendCh) = {job'} \union Occurs(sendCh')
    BY <1>3, OccursHead DEF TakeJob
  <2> QED BY <1>3, <2>1 DEF TakeJob
<1>4. CASE CheckCtx
  BY <1>4 DEF CheckCtx, Conclude
<1>5. CASE SnapshotClient
  BY <1>5 DEF SnapshotClient, Conclude
<1>6. CASE TypingInterrupted
  BY <1>6 DEF TypingInterrupted, Conclude
<1>7. CASE HandOver
  BY <1>7 DEF HandOver
<1>8. CASE SendReturns
  BY <1>8 DEF SendReturns, Conclude, Delivered
<1>9. ASSUME NEW q \in Requests, Call(q) \/ Await(q) \/ CancelCtx(q) PROVE Doomed(r)'
  BY <1>9 DEF Call, Await, CancelCtx
<1>10. ASSUME NEW m \in Messages, Receive(m) \/ MarkRead(m) PROVE Doomed(r)'
  BY <1>10 DEF Receive, MarkRead
<1>11. CASE SessionChanges \/ OpenChat \/ StartTyping \/ TypingDone
  BY <1>11 DEF SessionChanges, OpenChat, StartTyping, TypingDone
<1>12. CASE GapOver \/ WorkerExits \/ StopBegins \/ StopReturns
  BY <1>12 DEF GapOver, WorkerExits, StopBegins, StopReturns
<1>13. CASE UNCHANGED vars
  BY <1>13 DEF vars
<1> QED
  BY <1>2, <1>3, <1>4, <1>5, <1>6, <1>7, <1>8, <1>9, <1>10, <1>11, <1>12, <1>13
     DEF Next, Worker

\* A request whose context ends while it is queued is never handed to WhatsApp.
THEOREM CancelledNeverSent == Spec => CancelledWhileQueued
<1> SUFFICES ASSUME NEW r \in Requests
             PROVE  Spec => [](r \in cancelled /\ r \in Occurs(sendCh) => [](r \notin handed))
  BY DEF CancelledWhileQueued
<1>1. IInv /\ r \in cancelled /\ r \in Occurs(sendCh) => Doomed(r)
  BY DEF IInv, LineInv, InLine, Doomed
<1>2. IInv /\ Doomed(r) /\ [Next]_vars => Doomed(r)'
  BY DoomedStays
<1>3. Doomed(r) => r \notin handed
  BY DEF Doomed
<1> QED BY Invariant, <1>1, <1>2, <1>3, PTL DEF Spec
-----------------------------------------------------------------------------
(* Inbound messages and the replies that acknowledge them. *)

\* What is unread, about to be acknowledged or acknowledged has arrived, and a target is
\* left only while the worker reads the chat.
InboxInv ==
    /\ UnreadAccounted
    /\ unread \union toRead \union receipted \subseteq Occurs(arrived)
    /\ toRead # {} => wpc = "reading"

\* Nothing is unread at the start.
LEMMA InboxInit == Init => InboxInv
  BY DEF Init, InboxInv, UnreadAccounted

\* A new message supersedes the one of its chat and sender, and no other.
LEMMA ReceiveInbox ==
    ASSUME IInv, InboxInv, NEW m \in Messages, Receive(m)
    PROVE  InboxInv'
<1>1. /\ m \notin Occurs(arrived)
      /\ arrived' = Append(arrived, m)
      /\ unread' = {n \in unread : ChatOf[n] # ChatOf[m]} \union {m}
      /\ toRead' = toRead /\ receipted' = receipted /\ wpc' = wpc
  BY DEF Receive, inboxVars, workerVars
<1>2. arrived \in Seq(Messages) /\ Len(arrived) \in Nat
  BY DEF IInv, TypeOK
<1>3. /\ Len(arrived') = Len(arrived) + 1
      /\ arrived'[Len(arrived) + 1] = m
      /\ \A i \in 1..Len(arrived) : arrived'[i] = arrived[i]
  BY <1>1, <1>2, AppendEnd
<1>4. Occurs(arrived') = Occurs(arrived) \union {m}
  BY <1>1, <1>2, OccursAppend
<1>5. unread' \union toRead' \union receipted' \subseteq Occurs(arrived')
  BY <1>1, <1>4 DEF InboxInv
<1>6. /\ unread' \intersect toRead' = {}
      /\ receipted' \intersect (unread' \union toRead') = {}
  BY <1>1 DEF InboxInv, UnreadAccounted
<1>7. ASSUME NEW i \in 1..Len(arrived')
      PROVE  \/ arrived'[i] \in unread' \union toRead' \union receipted'
             \/ \E j \in i+1..Len(arrived') : ChatOf[arrived'[j]] = ChatOf[arrived'[i]]
  <2>1. CASE i = Len(arrived) + 1
    BY <1>1, <1>3, <2>1
  <2>2. CASE i # Len(arrived) + 1
    <3>1. i \in 1..Len(arrived) /\ arrived'[i] = arrived[i]
      BY <1>2, <1>3, <2>2
    <3>2. CASE ChatOf[arrived[i]] = ChatOf[m]
      <4>1. Len(arrived) + 1 \in i+1..Len(arrived')
        BY <1>2, <1>3, <3>1
      <4> QED BY <1>3, <3>1, <3>2, <4>1
    <3>3. CASE /\ ChatOf[arrived[i]] # ChatOf[m]
               /\ arrived[i] \in unread \union toRead \union receipted
      BY <1>1, <3>1, <3>3
    <3>4. CASE \E j \in i+1..Len(arrived) : ChatOf[arrived[j]] = ChatOf[arrived[i]]
      <4>1. PICK j \in i+1..Len(arrived) : ChatOf[arrived[j]] = ChatOf[arrived[i]]
        BY <3>4
      <4>2. j \in i+1..Len(arrived') /\ arrived'[j] = arrived[j]
        BY <1>2, <1>3, <3>1
      <4> QED BY <3>1, <4>1, <4>2
    <3> QED BY <3>1, <3>2, <3>3, <3>4 DEF InboxInv, UnreadAccounted
  <2> QED BY <2>1, <2>2
<1> QED BY <1>1, <1>5, <1>6, <1>7 DEF InboxInv, UnreadAccounted

\* Every other step moves messages from unread to toRead to receipted, or none.
LEMMA StepInbox == IInv /\ InboxInv /\ [Next]_vars => InboxInv'
<1> SUFFICES ASSUME IInv, InboxInv, [Next]_vars PROVE InboxInv'
  OBVIOUS
<1>1. ASSUME NEW m \in Messages, Receive(m) PROVE InboxInv'
  BY <1>1, ReceiveInbox
<1>2. CASE OpenChat
  <2>1. toRead = {}
    BY <1>2 DEF OpenChat, InboxInv
  <2>2. /\ unread' \union toRead' = unread
        /\ unread' \intersect toRead' = {}
        /\ receipted' = receipted /\ arrived' = arrived /\ wpc' = "reading"
    BY <1>2 DEF OpenChat
  <2> QED BY <2>1, <2>2 DEF InboxInv, UnreadAccounted, Occurs
<1>3. ASSUME NEW m \in Messages, MarkRead(m) PROVE InboxInv'
  <2>1. /\ toRead' \union receipted' = toRead \union receipted
        /\ toRead' \subseteq toRead /\ m \notin toRead' /\ m \in toRead
        /\ receipted' = receipted \union {m}
        /\ unread' = unread /\ arrived' = arrived /\ wpc = "reading" /\ wpc' = wpc
    BY <1>3 DEF MarkRead, workerVars
  <2> QED BY <2>1 DEF InboxInv, UnreadAccounted, Occurs
<1>4. ASSUME UNCHANGED inboxVars, toRead # {} => wpc' = wpc PROVE InboxInv'
  BY <1>4 DEF inboxVars, InboxInv, UnreadAccounted, Occurs
<1>5. CASE UNCHANGED inboxVars /\ wpc' = wpc
  BY <1>4, <1>5
<1>6. ASSUME NEW r \in Requests, Call(r) \/ Offer(r) \/ Await(r) \/ CancelCtx(r)
      PROVE  InboxInv'
  BY <1>5, <1>6 DEF Call, Offer, Await, CancelCtx, workerVars
<1>7. CASE SessionChanges \/ StopBegins \/ StopReturns
  BY <1>5, <1>7 DEF SessionChanges, StopBegins, StopReturns, workerVars
<1>8. ASSUME UNCHANGED inboxVars, wpc # "reading" \/ toRead = {} PROVE InboxInv'
  BY <1>4, <1>8 DEF InboxInv
<1>9. CASE TakeJob \/ CheckCtx \/ SnapshotClient \/ StartTyping \/ TypingInterrupted
  BY <1>8, <1>9 DEF TakeJob, CheckCtx, SnapshotClient, StartTyping, TypingInterrupted
<1>10. CASE TypingDone \/ HandOver \/ SendReturns \/ GapOver \/ WorkerExits
  BY <1>8, <1>10 DEF TypingDone, HandOver, SendReturns, GapOver, WorkerExits
<1>11. CASE UNCHANGED vars
  BY <1>5, <1>11 DEF vars, inboxVars
<1> QED
  BY <1>1, <1>2, <1>3, <1>6, <1>7, <1>9, <1>10, <1>11 DEF Next, Worker

\* No inbound message is lost, acknowledged twice, or acknowledged and still unread,
\* whatever the order in which messages come and replies take them.
THEOREM NoMessageLost == Spec => []UnreadAccounted
<1>1. InboxInv => UnreadAccounted
  BY DEF InboxInv
<1> QED BY Invariant, InboxInit, StepInbox, <1>1, PTL DEF Spec

\* Message m has been taken out of the way of the reply r, or will be before r goes out.
Answering(r, m) ==
    /\ m \in Occurs(arrived) /\ call[r] \notin {"new", "checked"}
    /\ r \notin Occurs(sendCh)
    /\ \/ wpc = "opening" /\ job = r /\ m \in AnsweredBy[r]
       \/ wpc = "reading" /\ job = r /\ m \notin unread
       \/ m \notin unread \union toRead

\* A message that has arrived does not arrive again, nor is a request offered again.
LEMMA AnsweringStays ==
    ASSUME NEW r \in Requests, NEW m \in Messages, IInv, InboxInv, Answering(r, m),
           [Next]_vars
    PROVE  Answering(r, m)'
<1> USE QueueAssumption
    DEF IInv, TypeOK, LineInv, InLine, Answering, sessionVars, inboxVars, callerVars,
        workerVars
<1>1. ASSUME NEW q \in Requests, Offer(q) PROVE Answering(r, m)'
  <2>1. q # r /\ (sendCh' = Append(sendCh, q) \/ sendCh' = sendCh)
    BY <1>1 DEF Offer
  <2>2. Occurs(Append(sendCh, q)) = Occurs(sendCh) \union {q}
    BY OccursAppend
  <2>3. r \notin Occurs(sendCh')
    BY <2>1, <2>2
  <2> QED BY <1>1, <2>3 DEF Offer, Goes
<1>2. ASSUME NEW n \in Messages, Receive(n) PROVE Answering(r, m)'
  <2>1. Occurs(arrived') = Occurs(arrived) \union {n}
    BY <1>2, OccursAppend DEF Receive
  <2> QED BY <1>2, <2>1 DEF Receive
<1>3. CASE TakeJob
  <2>1. Occurs(sendCh) = {job'} \union Occurs(sendCh')
    BY <1>3, OccursHead DEF TakeJob
  <2> QED BY <1>3, <2>1 DEF TakeJob
<1>4. CASE CheckCtx \/ SnapshotClient \/ TypingInterrupted \/ SendReturns
  BY <1>4 DEF CheckCtx, SnapshotClient, TypingInterrupted, SendReturns, Conclude
<1>5. CASE OpenChat
  <2>1. m \notin unread \union toRead => m \notin unread' \union toRead'
    BY <1>5 DEF OpenChat
  <2> QED BY <1>5, <2>1 DEF OpenChat
<1>6. CASE StartTyping \/ TypingDone \/ HandOver \/ GapOver \/ WorkerExits
  BY <1>6 DEF StartTyping, TypingDone, HandOver, GapOver, WorkerExits
<1>7. ASSUME NEW n \in Messages, MarkRead(n) PROVE Answering(r, m)'
  BY <1>7 DEF MarkRead
<1>8. ASSUME NEW q \in Requests, Call(q) \/ Await(q) \/ CancelCtx(q)
      PROVE  Answering(r, m)'
  BY <1>8 DEF Call, Await, CancelCtx, Goes, Answers, Outcomes, Delivered
<1>9. CASE SessionChanges \/ StopBegins \/ StopReturns
  BY <1>9 DEF SessionChanges, StopBegins, StopReturns
<1>10. CASE UNCHANGED vars
  BY <1>10 DEF vars
<1> QED
  BY <1>1, <1>2, <1>3, <1>4, <1>5, <1>6, <1>7, <1>8, <1>9, <1>10 DEF Next, Worker

\* A reply goes out only after what was unread in its chat when the worker opened it is
\* no longer unread, nor waiting to be acknowledged.
THEOREM ReadsBeforeReplying == Spec => ReadBeforeReply
<1> SUFFICES ASSUME NEW r \in Requests, NEW m \in Messages
             PROVE  Spec => [](wpc = "opening" /\ job = r /\ m \in unread \intersect AnsweredBy[r]
                                 => [](r \in handed => m \notin unread \union toRead))
  BY DEF ReadBeforeReply
<1>1. /\ IInv /\ InboxInv
      /\ wpc = "opening" /\ job = r /\ m \in unread \intersect AnsweredBy[r]
      => Answering(r, m)
  BY DEF IInv, InboxInv, LineInv, InLine, Answering
<1>2. IInv /\ InboxInv /\ Answering(r, m) /\ [Next]_vars => Answering(r, m)'
  BY AnsweringStays
<1>3. IInv /\ Answering(r, m) => (r \in handed => m \notin unread \union toRead)
  BY DEF IInv, LineInv, InLine, Answering
<1> QED
  BY Invariant, InboxInit, StepInbox, <1>1, <1>2, <1>3, PTL DEF Spec

-----------------------------------------------------------------------------
(* The queue implements its contract. *)

\* With a job in service, the line is that job followed by the channel.
LEMMA BusyLine ==
    ASSUME TypeOK, job # NoJob
    PROVE  /\ Line \in Seq(Requests)
           /\ Line # <<>>
           /\ Head(Line) = job
           /\ Tail(Line) = sendCh
           /\ Len(Line) = Len(sendCh) + 1
  BY DEF TypeOK, Line

\* Without one, the line is the channel.
LEMMA IdleLine ==
    ASSUME TypeOK, job = NoJob
    PROVE  Line = sendCh /\ Len(Line) = Len(sendCh)
  BY DEF TypeOK, Line

\* Being in the line, seen from both specifications.
LEMMA LineMembers ==
    ASSUME TypeOK, NEW r \in Requests
    PROVE  Contract!InLine(r) <=> InLine(r)
<1> USE QueueAssumption
<1>1. CASE job = NoJob
  <2>1. Line = sendCh
    BY <1>1, IdleLine
  <2>2. r # job
    BY <1>1
  <2> QED BY <2>1, <2>2 DEF Contract!InLine, InLine, Occurs
<1>2. CASE job # NoJob
  <2>1. Line \in Seq(Requests) /\ Line # <<>> /\ Head(Line) = job /\ Tail(Line) = sendCh
    BY <1>2, BusyLine
  <2>2. Occurs(Line) = {job} \union Occurs(sendCh)
    BY <2>1, OccursHead
  <2>3. Contract!InLine(r) <=> r \in Occurs(Line)
    BY DEF Contract!InLine, Occurs
  <2> QED BY <2>2, <2>3 DEF InLine
<1> QED BY <1>1, <1>2

\* What is appended to the channel is appended to the line.
LEMMA LineAppend ==
    ASSUME TypeOK, NEW r \in Requests, sendCh' = Append(sendCh, r), job' = job
    PROVE  Line' = Append(Line, r)
<1>1. CASE job = NoJob
  BY <1>1 DEF TypeOK, Line
<1>2. CASE job # NoJob
  BY <1>2 DEF TypeOK, Line
<1> QED BY <1>1, <1>2

\* Taking the head of the channel into service does not change the line.
LEMMA LineTake ==
    ASSUME TypeOK, job = NoJob, sendCh # <<>>, job' = Head(sendCh), sendCh' = Tail(sendCh)
    PROVE  Line' = Line
<1>1. Head(sendCh) \in Requests
  BY HeadTail DEF TypeOK
<1>2. Line = sendCh
  BY IdleLine
<1>3. Line' = <<Head(sendCh)>> \o Tail(sendCh)
  BY <1>1, QueueAssumption DEF Line
<1>4. <<Head(sendCh)>> \o Tail(sendCh) = sendCh
  BY ConcatSimplifications, HeadTailProperties DEF TypeOK
<1> QED BY <1>2, <1>3, <1>4

\* What the contract sees of a caller changes only when the caller returns.
LEMMA AnswerUpdate ==
    ASSUME TypeOK, NEW r \in Requests, NEW a, call' = [call EXCEPT ![r] = a]
    PROVE  /\ a \in Answers => Answer' = [Answer EXCEPT ![r] = a]
           /\ a \notin Answers /\ call[r] \notin Answers => Answer' = Answer
  BY DEF TypeOK, Answer

\* The worker's report concludes the head of the line.
LEMMA ConcludeImplements ==
    ASSUME IInv, job # NoJob, NEW o,
           o \in (IF job \in handed THEN Delivered ELSE {"ctx", "not_connected"}),
           Conclude(o), UNCHANGED <<sendCh, handed, call>>
    PROVE  Contract!Conclude
<1>1. TypeOK /\ job \in Requests
  BY DEF IInv, TypeOK
<1>2. Line # <<>> /\ Head(Line) = job /\ Tail(Line) = sendCh
  BY <1>1, BusyLine
<1>3. Line' = sendCh
  <2>1. job' = NoJob
    BY DEF Conclude
  <2> QED BY <1>1, <2>1 DEF Line, TypeOK
<1>4. out[job] = "none"
  BY <1>1 DEF IInv, LineInv, InLine
<1>5. out' = [out EXCEPT ![job] = o] /\ Answer' = Answer
  BY DEF Conclude, Answer
<1> QED
  BY <1>2, <1>3, <1>4, <1>5 DEF Contract!Conclude, Contract!Delivered, Contract!Unsent, Delivered

\* Steps that the contract does not see.
LEMMA StutterImplements ==
    ASSUME UNCHANGED <<call, sendCh, out, job, handed>>
    PROVE  UNCHANGED Contract!vars
  BY DEF Contract!vars, Line, Answer

\* A new session is an empty line.
LEMMA InitImplements == Init => Contract!Init
  BY QueueAssumption DEF Init, Contract!Init, Line, Answer, Answers, Outcomes, Delivered

\* Every step of the queue is a step of the contract or leaves it unchanged.
LEMMA StepImplements ==
    ASSUME IInv, [Next]_vars
    PROVE  [Contract!Next]_(Contract!vars)
<1> USE DEF sessionVars, inboxVars, callerVars, workerVars
<1>0. TypeOK /\ WorkerInv /\ LineInv /\ VerdictInv
  BY DEF IInv
<1>1. ASSUME NEW r \in Requests, call[r] \in {"new", "checked"}
      PROVE  Contract!Untouched(r)
  <2>1. ~InLine(r)
    BY <1>0, <1>1 DEF LineInv
  <2>2. r \notin handed /\ out[r] = "none"
    BY <1>0, <1>1 DEF VerdictInv
  <2>3. Answer[r] = "none"
    BY <1>1 DEF Answer, Answers, Outcomes, Delivered
  <2> QED BY <1>0, <2>1, <2>2, <2>3, LineMembers DEF Contract!Untouched
<1>2. ASSUME NEW r \in Requests, NEW why \in {"invalid", "not_connected", "queue_full"},
             call[r] \in {"new", "checked"}, call' = [call EXCEPT ![r] = why],
             UNCHANGED <<sendCh, out, job, handed>>
      PROVE  Contract!Refuse(r)
  <2>1. Answer' = [Answer EXCEPT ![r] = why]
    BY <1>0, <1>2, AnswerUpdate DEF Answers, Outcomes
  <2>2. Line' = Line
    BY <1>2 DEF Line
  <2> QED BY <1>1, <1>2, <2>1, <2>2 DEF Contract!Refuse, Contract!Refusals
<1>3. ASSUME NEW r \in Requests, Call(r) PROVE [Contract!Next]_(Contract!vars)
  <2>1. CASE call' = [call EXCEPT ![r] = "checked"]
    <3>1. Answer' = Answer
      BY <1>0, <1>3, <2>1, AnswerUpdate DEF Call, Answers, Outcomes, Delivered
    <3>2. Line' = Line
      BY <1>3 DEF Call, Line
    <3> QED BY <1>3, <3>1, <3>2 DEF Call, Contract!vars
  <2>2. CASE \E why \in {"invalid", "not_connected"} : call' = [call EXCEPT ![r] = why]
    <3>1. Contract!Refuse(r)
      BY <1>2, <1>3, <2>2 DEF Call
    <3> QED BY <3>1 DEF Contract!Next
  <2> QED BY <1>3, <2>1, <2>2 DEF Call, Goes
<1>4. ASSUME NEW r \in Requests, Offer(r) PROVE [Contract!Next]_(Contract!vars)
  <2>1. CASE Len(sendCh) >= QueueSize
    <3>1. Contract!Refuse(r)
      BY <1>0, <1>2, <1>4, <2>1, QueueAssumption DEF Offer, Goes, TypeOK
    <3> QED BY <3>1 DEF Contract!Next
  <2>2. CASE Len(sendCh) < QueueSize
    <3>1. /\ call[r] = "checked" /\ call' = [call EXCEPT ![r] = "waiting"]
          /\ sendCh' = Append(sendCh, r)
          /\ UNCHANGED <<out, job, handed>>
      BY <1>0, <1>4, <2>2, QueueAssumption DEF Offer, Goes, TypeOK
    <3>2. Line' = Append(Line, r)
      BY <1>0, <3>1, LineAppend
    <3>3. Len(Line) < QueueSize + 1
      <4>1. Len(Line) \in {Len(sendCh), Len(sendCh) + 1} /\ Len(sendCh) \in Nat
        BY <1>0, BusyLine, IdleLine DEF TypeOK
      <4> QED BY <4>1, <2>2, QueueAssumption
    <3>4. Answer' = Answer
      BY <1>0, <3>1, AnswerUpdate DEF Answers, Outcomes, Delivered
    <3>5. Contract!Accept(r)
      BY <1>1, <3>1, <3>2, <3>3, <3>4 DEF Contract!Accept
    <3> QED BY <3>5 DEF Contract!Next
  <2> QED BY <1>0, <2>1, <2>2, QueueAssumption DEF TypeOK
<1>5. ASSUME NEW r \in Requests, Await(r) PROVE [Contract!Next]_(Contract!vars)
  <2>1. /\ call[r] = "waiting" /\ Line' = Line
        /\ UNCHANGED <<out, handed>>
    BY <1>5 DEF Await, Line
  <2>2. Answer[r] = "none"
    BY <2>1 DEF Answer, Answers, Outcomes, Delivered
  <2>3. Contract!InLine(r) \/ out[r] # "none"
    BY <1>0, <2>1, LineMembers DEF LineInv
  <2>4. CASE out[r] # "none" /\ call' = [call EXCEPT ![r] = out[r]]
    <3>1. out[r] \in Answers
      BY <1>0, <2>4 DEF TypeOK, Answers
    <3>2. Answer' = [Answer EXCEPT ![r] = out[r]]
      BY <1>0, <2>4, <3>1, AnswerUpdate
    <3>3. Contract!Learn(r)
      BY <2>1, <2>2, <2>4, <3>2 DEF Contract!Learn
    <3> QED BY <3>3 DEF Contract!Next
  <2>5. CASE call' = [call EXCEPT ![r] = "ctx"]
    <3>1. Answer' = [Answer EXCEPT ![r] = "ctx"]
      BY <1>0, <2>5, AnswerUpdate DEF Answers, Outcomes
    <3>2. Contract!GiveUp(r)
      BY <2>1, <2>2, <2>3, <3>1 DEF Contract!GiveUp
    <3> QED BY <3>2 DEF Contract!Next
  <2> QED BY <1>5, <2>4, <2>5 DEF Await, Goes
<1>6. CASE TakeJob
  <2>1. job = NoJob
    BY <1>0, <1>6 DEF TakeJob, WorkerInv, InService
  <2>2. Line' = Line
    BY <1>0, <1>6, <2>1, LineTake DEF TakeJob
  <2>3. Answer' = Answer
    BY <1>6 DEF TakeJob, Answer
  <2> QED BY <1>6, <2>2, <2>3 DEF TakeJob, Contract!vars
<1>7. ASSUME NEW o \in {"ctx", "not_connected"}, Conclude(o),
             wpc \in InService \ {"sending"}, UNCHANGED <<sendCh, handed, call>>
      PROVE  Contract!Conclude
  <2>1. job # NoJob /\ job \in Requests
    BY <1>0, <1>7 DEF WorkerInv, TypeOK
  <2>2. job \notin handed
    BY <1>0, <1>7, <2>1 DEF LineInv, InLine
  <2> QED BY <1>7, <2>1, <2>2, ConcludeImplements
<1>8. CASE CheckCtx
  <2>1. CASE \E o \in {"ctx", "not_connected"} : Conclude(o)
    BY <1>7, <1>8, <2>1 DEF CheckCtx, InService, Contract!Next
  <2>2. CASE UNCHANGED <<out, job>>
    BY <1>8, <2>2, StutterImplements DEF CheckCtx
  <2> QED BY <1>8, <2>1, <2>2 DEF CheckCtx
<1>9. CASE SnapshotClient
  <2>1. CASE \E o \in {"ctx", "not_connected"} : Conclude(o)
    BY <1>7, <1>9, <2>1 DEF SnapshotClient, InService, Contract!Next
  <2>2. CASE UNCHANGED <<out, job>>
    BY <1>9, <2>2, StutterImplements DEF SnapshotClient
  <2> QED BY <1>9, <2>1, <2>2 DEF SnapshotClient
<1>10. CASE TypingInterrupted
  <2>1. \E o \in {"ctx", "not_connected"} : Conclude(o)
    BY <1>10 DEF TypingInterrupted
  <2> QED BY <1>7, <1>10, <2>1 DEF TypingInterrupted, InService, Contract!Next
<1>11. CASE HandOver
  <2>1. job \in Requests /\ job # NoJob /\ job \notin handed
    BY <1>0, <1>11 DEF HandOver, WorkerInv, LineInv, TypeOK, InService, InLine
  <2>2. Line # <<>> /\ Head(Line) = job
    BY <1>0, <2>1, BusyLine
  <2>3. Line' = Line /\ Answer' = Answer
    BY <1>11 DEF HandOver, Line, Answer
  <2>4. Contract!HandOver
    BY <1>11, <2>1, <2>2, <2>3 DEF HandOver, Contract!HandOver
  <2> QED BY <2>4 DEF Contract!Next
<1>12. CASE SendReturns
  <2>1. job \in Requests /\ job # NoJob /\ job \in handed
    BY <1>0, <1>12 DEF SendReturns, WorkerInv, LineInv, TypeOK, InService, InLine
  <2>2. Contract!Conclude
    BY <1>12, <2>1, ConcludeImplements DEF SendReturns
  <2> QED BY <2>2 DEF Contract!Next
<1>13. CASE \E r \in Requests : CancelCtx(r)
  BY <1>13, StutterImplements DEF CancelCtx
<1>14. CASE \E m \in Messages : Receive(m) \/ MarkRead(m)
  BY <1>14, StutterImplements DEF Receive, MarkRead
<1>15. CASE SessionChanges \/ OpenChat \/ StartTyping \/ TypingDone
  BY <1>15, StutterImplements DEF SessionChanges, OpenChat, StartTyping, TypingDone
<1>16. CASE GapOver \/ WorkerExits \/ StopBegins \/ StopReturns
  BY <1>16, StutterImplements DEF GapOver, WorkerExits, StopBegins, StopReturns
<1>17. CASE UNCHANGED vars
  BY <1>17, StutterImplements DEF vars
<1> QED
  BY <1>3, <1>4, <1>5, <1>6, <1>8, <1>9, <1>10, <1>11, <1>12, <1>13, <1>14, <1>15,
     <1>16, <1>17 DEF Next, Worker

\* The send queue implements SendContract: first in, first out, one hand-over per
\* accepted request, truthful verdicts, and a line no longer than the channel plus
\* the job in service.
THEOREM QueueImplementsContract == Spec => ImplementsContract
  BY InitImplements, StepImplements, Invariant, PTL DEF Spec, ImplementsContract, Contract!Spec
=============================================================================
