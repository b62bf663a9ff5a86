-------------------------- MODULE DispatcherProofs --------------------------
(***************************************************************************)
(* Proofs about the webhook dispatcher for every number of workers,        *)
(* retries, events and callers of Close, and every queue size.             *)
(***************************************************************************)
EXTENDS Dispatcher, FiniteSetTheorems, TLAPS

\* NewDispatcher establishes the invariant.
LEMMA InitInv == Init => IInv
<1> SUFFICES ASSUME Init PROVE IInv
  OBVIOUS
<1> USE DispatcherAssumption DEF Init, Taken
<1>1. TypeOK
  <2>1. 0 \in 0..Retries - 1 /\ 0 \in 0..Retries /\ 0 \in 0..MaxEvents
    OBVIOUS
  <2>2. jobs \in Seq(Events) /\ accepted \in 0..MaxEvents /\ dropped \in 0..MaxEvents
    BY <2>1
  <2>5. closed \in BOOLEAN /\ cancelled \in BOOLEAN
    BY DEF Init
  <2>3. /\ job \in [Workers -> 0..MaxEvents] /\ attempt \in [Workers -> 0..Retries - 1]
        /\ wpc \in [Workers -> {"receiving", "checking", "posting", "backoff", "exited"}]
    BY <2>1
  <2>4. /\ posts \in [Events -> 0..Retries]
        /\ fate \in [Events -> {"none", "acked", "rejected", "unusable", "gave_up",
                             "aborted"}]
        /\ closer \in [Closers -> {"new", "too_late", "waiting", "forced", "returned"}]
    BY <2>1
  <2> QED BY <2>2, <2>3, <2>4, <2>5 DEF TypeOK
<1>2. ChannelInv /\ CloserInv /\ FatesTrue
  BY DEF ChannelInv, CloserInv, FatesTrue
<1>3. WorkerInv
  BY DEF WorkerInv
<1>4. EventInv
  BY DEF EventInv, Events
<1> QED BY <1>1, <1>2, <1>3, <1>4 DEF IInv

\* A worker's report, for any fate it may report.
LEMMA SettleInv ==
    ASSUME IInv, NEW w \in Workers, NEW f \in {"acked", "rejected", "unusable", "gave_up", "aborted"},
           wpc[w] \in {"checking", "posting", "backoff"}, Settle(w, f),
           f = "gave_up" => posts[job[w]] = Retries,
           f = "aborted" => cancelled,
           f \in {"acked", "rejected"} => posts[job[w]] > 0,
           f = "unusable" => posts[job[w]] = 0,
           UNCHANGED <<closed, jobs, accepted, dropped, cancelled, attempt, posts, closer>>
    PROVE  IInv'
<1> USE DispatcherAssumption
    DEF IInv, TypeOK, ChannelInv, WorkerInv, EventInv, CloserInv, FatesTrue, Taken, Settle, AllExited
<1>1. job[w] \in Events
  BY DEF Events
<1>2. TypeOK'
  BY <1>1
<1>3. WorkerInv'
  BY <1>1
<1>4. EventInv'
  BY <1>1
<1>5. ChannelInv'
  OBVIOUS
<1>6. CloserInv'
  OBVIOUS
<1>7. FatesTrue'
  BY <1>1
<1> QED BY <1>2, <1>3, <1>4, <1>5, <1>6, <1>7

\* Every step of Enqueue, Close and the workers preserves the invariant.
LEMMA StepInv == IInv /\ [Next]_vars => IInv'
<1> SUFFICES ASSUME IInv, [Next]_vars PROVE IInv'
  OBVIOUS
<1> USE DispatcherAssumption DEF workerVars
<1>1. CASE Enqueue
  <2> USE DEF Enqueue, Push
  <2>1. CASE Len(jobs) >= QueueSize
    <3>1. /\ dropped' = dropped + 1 /\ accepted + dropped < MaxEvents
          /\ UNCHANGED <<jobs, accepted, closed, cancelled, wpc, job, attempt, posts,
                         fate, closer>>
      BY <1>1, <2>1 DEF IInv, TypeOK
    <3>2. TypeOK'
      BY <3>1 DEF IInv, TypeOK
    <3> QED
      BY <3>1, <3>2 DEF IInv, ChannelInv, WorkerInv, EventInv, CloserInv, FatesTrue,
         Taken, AllExited
  <2>2. CASE Len(jobs) < QueueSize
    <3>1. /\ jobs' = Append(jobs, accepted + 1) /\ accepted' = accepted + 1
          /\ accepted + dropped < MaxEvents /\ ~closed
          /\ UNCHANGED <<dropped, closed, cancelled, wpc, job, attempt, posts, fate, closer>>
      BY <1>1, <2>2 DEF IInv, TypeOK
    <3>2. accepted + 1 \in Events
      BY <3>1 DEF IInv, TypeOK, Events
    <3>3. /\ jobs' \in Seq(Events) /\ Len(jobs') = Len(jobs) + 1
          /\ \A i \in 1..Len(jobs) : jobs'[i] = jobs[i]
          /\ jobs'[Len(jobs) + 1] = accepted + 1
      BY <3>1, <3>2 DEF IInv, TypeOK
    <3>4. Taken' = Taken
      BY <3>1, <3>3 DEF IInv, TypeOK, Taken
    <3>5. TypeOK'
      BY <3>1, <3>2, <3>3, SMTT(30) DEF IInv, TypeOK, Events
    <3>6. ChannelInv'
      BY <3>1, <3>3, <3>4 DEF IInv, TypeOK, ChannelInv, Taken
    <3>7. WorkerInv' /\ EventInv' /\ CloserInv' /\ FatesTrue'
      BY <3>1, <3>4 DEF IInv, WorkerInv, EventInv, CloserInv, FatesTrue, AllExited
    <3> QED BY <3>5, <3>6, <3>7 DEF IInv
  <2>3. Len(jobs) \in Nat /\ QueueSize \in Nat
    BY DEF IInv, TypeOK
  <2> QED BY <2>1, <2>2, <2>3
<1>2. ASSUME NEW w \in Workers, Take(w) PROVE IInv'
  <2>1. /\ wpc[w] = "receiving" /\ jobs # <<>>
        /\ job' = [job EXCEPT ![w] = Head(jobs)]
        /\ jobs' = Tail(jobs)
        /\ attempt' = [attempt EXCEPT ![w] = 0]
        /\ wpc' = [wpc EXCEPT ![w] = "checking"]
        /\ UNCHANGED <<closed, accepted, dropped, cancelled, posts, fate, closer>>
    BY <1>2 DEF Take
  <2>2. /\ Head(jobs) \in Events /\ Head(jobs) = jobs[1] /\ Len(jobs) >= 1
        /\ jobs' \in Seq(Events) /\ Len(jobs') = Len(jobs) - 1
        /\ \A i \in 1..Len(jobs') : jobs'[i] = jobs[i + 1]
    BY <2>1 DEF IInv, TypeOK
  <2>3. Taken' = Taken + 1 /\ Head(jobs) = Taken + 1 /\ Taken \in Nat
    BY <2>1, <2>2 DEF IInv, TypeOK, ChannelInv, Taken
  <2>4. TypeOK'
    <3>1. 0 \in 0..Retries - 1
      OBVIOUS
    <3>2. job' \in [Workers -> 0..MaxEvents]
      BY <2>1, <2>2 DEF IInv, TypeOK, Events
    <3> QED BY <2>1, <2>2, <3>1, <3>2 DEF IInv, TypeOK
  <2>5. ChannelInv'
    BY <2>1, <2>2, <2>3 DEF IInv, TypeOK, ChannelInv
  <2>6. WorkerInv'
    <3> DEFINE e == Taken + 1
    <3>1. /\ e \in Events /\ e # 0
          /\ job'[w] = e /\ wpc'[w] = "checking" /\ attempt'[w] = 0
          /\ fate[e] = "none" /\ posts[e] = 0
      BY <2>1, <2>2, <2>3 DEF IInv, TypeOK, EventInv, Events
    <3>2. \A v \in Workers : v # w => job'[v] = job[v] /\ job[v] # e
      BY <2>1, <2>3, <3>1 DEF IInv, TypeOK, WorkerInv
    <3>3. \A v \in Workers : wpc[v] # "exited"
      BY <2>1 DEF IInv, WorkerInv
    <3> QED
      BY <2>1, <2>3, <3>1, <3>2, <3>3, SMTT(30) DEF IInv, TypeOK, WorkerInv
  <2>7. EventInv'
    <3>1. job[w] = 0
      BY <2>1 DEF IInv, WorkerInv
    <3>2. job'[w] = Taken + 1 /\ \A v \in Workers : v # w => job'[v] = job[v]
      BY <2>1, <2>3 DEF IInv, TypeOK
    <3>3. ASSUME NEW e \in Events
          PROVE  /\ e > Taken' => fate'[e] = "none" /\ posts'[e] = 0
                 /\ e <= Taken' /\ fate'[e] = "none" => \E v \in Workers : job'[v] = e
      <4>1. e \in Nat /\ e > 0
        BY DEF Events
      <4>2. CASE e = Taken + 1
        BY <2>1, <2>3, <3>2, <4>1, <4>2
      <4>3. CASE e > Taken + 1
        BY <2>1, <2>3, <4>1, <4>3 DEF IInv, EventInv
      <4>4. CASE e <= Taken
        <5>1. fate[e] = "none" => \E v \in Workers : job[v] = e
          BY <4>4 DEF IInv, EventInv
        <5> QED BY <2>1, <2>3, <3>1, <3>2, <4>1, <4>4, <5>1
      <4> QED BY <2>3, <4>1, <4>2, <4>3, <4>4
    <3>4. ASSUME NEW e \in Events, posts'[e] > 0
          PROVE  \E v \in Workers : job'[v] = 0 \/ job'[v] >= e
      <4>1. e \in Nat /\ posts[e] > 0
        BY <2>1, <3>4 DEF Events
      <4>2. e <= Taken
        BY <2>3, <4>1 DEF IInv, TypeOK, EventInv
      <4> QED BY <2>3, <3>2, <4>1, <4>2
    <3> QED BY <3>3, <3>4 DEF EventInv
  <2>8. CloserInv' /\ FatesTrue'
    BY <2>1 DEF IInv, CloserInv, FatesTrue, AllExited, TypeOK
  <2> QED BY <2>4, <2>5, <2>6, <2>7, <2>8 DEF IInv
<1>3. ASSUME NEW w \in Workers, StartAttempt(w) PROVE IInv'
  <2>1. CASE cancelled /\ Settle(w, "aborted") /\ UNCHANGED posts
    BY <1>3, <2>1, SettleInv DEF StartAttempt
  <2>3. CASE attempt[w] = 0 /\ Settle(w, "unusable") /\ UNCHANGED posts
    <3>0. wpc[w] = "checking" /\ attempt[w] = 0
      BY <1>3, <2>3 DEF StartAttempt
    <3>1. wpc[w] = "checking" /\ posts[job[w]] = 0
      BY <3>0 DEF IInv, WorkerInv
    <3> QED BY <1>3, <2>3, <3>1, SettleInv DEF StartAttempt
  <2>2. CASE /\ posts' = [posts EXCEPT ![job[w]] = @ + 1]
             /\ wpc' = [wpc EXCEPT ![w] = "posting"]
             /\ UNCHANGED <<job, fate>>
    <3> DEFINE e == job[w]
    <3>1. /\ wpc[w] = "checking" /\ ~cancelled
          /\ UNCHANGED <<closed, jobs, accepted, dropped, cancelled, attempt, closer>>
      BY <1>3, <2>2 DEF StartAttempt, Settle, IInv, TypeOK
    <3>2. /\ e \in Events /\ e # 0 /\ fate[e] = "none"
          /\ posts[e] = attempt[w] /\ attempt[w] \in 0..Retries - 1
      BY <3>1 DEF IInv, TypeOK, WorkerInv, Events
    <3>3. /\ posts'[e] = attempt[w] + 1
          /\ \A d \in Events : d # e => posts'[d] = posts[d]
      BY <2>2, <3>2 DEF IInv, TypeOK
    <3> HIDE DEF e
    <3>4. TypeOK'
      BY <2>2, <3>1, <3>2, <3>3 DEF IInv, TypeOK, e
    <3>5. WorkerInv'
      BY <2>2, <3>1, <3>2, <3>3, SMTT(30) DEF IInv, TypeOK, WorkerInv, Taken, Events, e
    <3>6. EventInv'
      <4>1. e <= Taken /\ e \in Nat /\ Taken \in Int
        BY <3>2 DEF IInv, TypeOK, WorkerInv, Taken, Events, e
      <4>2. \A d \in Events : d > Taken => posts'[d] = 0
        BY <3>3, <4>1 DEF IInv, EventInv
      <4>3. \A d \in Events : posts'[d] > 0 => \E v \in Workers : job[v] = 0 \/ job[v] >= d
        BY <3>3, <4>1 DEF IInv, EventInv, e
      <4> QED BY <2>2, <3>1, <4>2, <4>3 DEF IInv, EventInv, Taken
    <3>7. FatesTrue'
      BY <2>2, <3>1, <3>2, <3>3 DEF IInv, TypeOK, FatesTrue
    <3>8. ChannelInv' /\ CloserInv'
      BY <2>2, <3>1 DEF IInv, ChannelInv, CloserInv, AllExited, Taken, TypeOK
    <3> QED BY <3>4, <3>5, <3>6, <3>7, <3>8 DEF IInv
  <2> QED BY <1>3, <2>1, <2>2, <2>3 DEF StartAttempt
<1>4. ASSUME NEW w \in Workers, PostReturns(w) PROVE IInv'
  <2>0. job[w] \in Events /\ posts[job[w]] = attempt[w] + 1 /\ attempt[w] \in Nat
    BY <1>4 DEF PostReturns, IInv, TypeOK, WorkerInv, Events
  <2>1. CASE \E f \in {"acked", "rejected"} : Settle(w, f)
    BY <1>4, <2>0, <2>1, SettleInv DEF PostReturns
  <2>2. CASE attempt[w] = Retries - 1 /\ Settle(w, "gave_up")
    BY <1>4, <2>0, <2>2, SettleInv DEF PostReturns
  <2>3. CASE attempt[w] # Retries - 1 /\ wpc' = [wpc EXCEPT ![w] = "backoff"]
             /\ UNCHANGED <<job, fate>>
    <3>1. /\ wpc[w] = "posting" /\ wpc' = [wpc EXCEPT ![w] = "backoff"]
          /\ UNCHANGED <<closed, jobs, accepted, dropped, cancelled, job, attempt, posts,
                        fate, closer>>
      BY <1>4, <2>3 DEF PostReturns
    <3>2. TypeOK'
      BY <3>1 DEF IInv, TypeOK
    <3>3. WorkerInv'
      BY <2>0, <2>3, <3>1 DEF IInv, TypeOK, WorkerInv, Taken
    <3>4. ChannelInv' /\ EventInv' /\ FatesTrue'
      BY <3>1 DEF IInv, ChannelInv, EventInv, FatesTrue, Taken
    <3>5. CloserInv'
      BY <3>1 DEF IInv, TypeOK, CloserInv, AllExited
    <3> QED BY <3>2, <3>3, <3>4, <3>5 DEF IInv
  <2> QED BY <1>4, <2>1, <2>2, <2>3 DEF PostReturns
<1>5. ASSUME NEW w \in Workers, BackoffOver(w) PROVE IInv'
  <2>1. CASE cancelled /\ Settle(w, "aborted") /\ UNCHANGED attempt
    BY <1>5, <2>1, SettleInv DEF BackoffOver
  <2>2. CASE /\ attempt' = [attempt EXCEPT ![w] = @ + 1]
             /\ wpc' = [wpc EXCEPT ![w] = "checking"]
             /\ UNCHANGED <<job, fate>>
    <3>1. /\ wpc[w] = "backoff"
          /\ UNCHANGED <<closed, jobs, accepted, dropped, cancelled, posts, closer>>
      BY <1>5 DEF BackoffOver
    <3>2. attempt[w] \in 0..Retries - 1 /\ attempt[w] # Retries - 1
      BY <3>1 DEF IInv, TypeOK, WorkerInv
    <3>3. TypeOK'
      <4>1. attempt' \in [Workers -> 0..Retries - 1]
        <5>1. attempt[w] + 1 \in 0..Retries - 1
          BY <3>2, DispatcherAssumption
        <5> QED BY <2>2, <5>1 DEF IInv, TypeOK
      <4>2. wpc' \in [Workers -> {"receiving", "checking", "posting", "backoff", "exited"}]
        BY <2>2 DEF IInv, TypeOK
      <4> QED BY <2>2, <3>1, <4>1, <4>2 DEF IInv, TypeOK
    <3>4. WorkerInv'
      BY <2>2, <3>1, <3>2 DEF IInv, TypeOK, WorkerInv, Taken
    <3>5. ChannelInv' /\ CloserInv' /\ EventInv' /\ FatesTrue'
      BY <2>2, <3>1 DEF IInv, ChannelInv, CloserInv, EventInv, FatesTrue, AllExited,
         Taken, TypeOK
    <3> QED BY <3>3, <3>4, <3>5 DEF IInv
  <2> QED BY <1>5, <2>1, <2>2 DEF BackoffOver
<1>6. ASSUME NEW w \in Workers, Exit(w) PROVE IInv'
  BY <1>6 DEF Exit, IInv, TypeOK, ChannelInv, WorkerInv, EventInv, CloserInv,
     FatesTrue, Taken, AllExited
<1>7. ASSUME NEW c \in Closers, CloseBegins(c) \/ CloseForces(c) \/ CloseReturns(c)
      PROVE  IInv'
  <2>1. /\ UNCHANGED <<jobs, accepted, dropped, wpc, job, attempt, posts, fate>>
        /\ closed' \in BOOLEAN /\ cancelled' \in BOOLEAN
        /\ closed => closed'
        /\ cancelled => cancelled'
    BY <1>7 DEF CloseBegins, CloseForces, CloseReturns, IInv, TypeOK
  <2>2. TypeOK'
    <3>1. closer' \in [Closers -> {"new", "too_late", "waiting", "forced", "returned"}]
      BY <1>7 DEF CloseBegins, CloseForces, CloseReturns, IInv, TypeOK
    <3> QED BY <2>1, <3>1 DEF IInv, TypeOK
  <2>3. ChannelInv' /\ WorkerInv' /\ EventInv' /\ FatesTrue'
    BY <2>1 DEF IInv, ChannelInv, WorkerInv, EventInv, FatesTrue, Taken
  <2>4. CloserInv'
    BY <1>7, <2>1 DEF CloseBegins, CloseForces, CloseReturns, IInv, TypeOK, CloserInv, AllExited
  <2> QED BY <2>2, <2>3, <2>4 DEF IInv
<1>8. CASE UNCHANGED vars
  BY <1>8 DEF vars, IInv, TypeOK, ChannelInv, WorkerInv, EventInv, CloserInv,
     FatesTrue, Taken, AllExited
<1> QED
  BY <1>1, <1>2, <1>3, <1>4, <1>5, <1>6, <1>7, <1>8 DEF Next, Worker

\* The invariant holds in every reachable state.
THEOREM Invariant == Spec => []IInv
  BY InitInv, StepInv, PTL DEF Spec

-----------------------------------------------------------------------------
(* What follows from the invariant. *)

\* Every variable stays in its range: no event is posted more than Retries times.
THEOREM TypeCorrect == Spec => []TypeOK
<1>1. IInv => TypeOK
  BY DEF IInv
<1> QED BY Invariant, <1>1, PTL

\* When all workers have left, every accepted event has been settled.
LEMMA ExitIsDrained == IInv => DrainedAtExit
<1> SUFFICES ASSUME IInv, AllExited, NEW e \in 1..accepted PROVE fate[e] # "none"
  BY DEF DrainedAtExit
<1>1. e \in Events /\ e > 0 /\ accepted \in Nat
  BY DispatcherAssumption DEF IInv, TypeOK, Events
<1>2. PICK w \in Workers : TRUE
  BY DispatcherAssumption
<1>3. Len(jobs) = 0 /\ Taken = accepted
  <2>1. wpc[w] = "exited"
    BY <1>2 DEF AllExited
  <2>2. jobs = <<>>
    BY <1>2, <2>1 DEF IInv, WorkerInv
  <2>3. Len(jobs) = 0
    BY <2>2
  <2> QED BY <1>1, <2>3 DEF Taken
<1>4. \A v \in Workers : job[v] = 0
  BY DEF AllExited, IInv, WorkerInv
<1> QED BY <1>1, <1>3, <1>4 DEF IInv, TypeOK, EventInv

\* An event is given up only after all attempts and abandoned only by Close, and none
\* is left behind by workers that have left.
THEOREM FatesAreTrue == Spec => []FateTells
<1>1. IInv => FatesTrue
  BY DEF IInv
<1> QED BY Invariant, <1>1, ExitIsDrained, PTL DEF FateTells

\* With W workers, at most W - 1 earlier events are unfinished when an event is
\* posted; with one worker delivery is strictly first in, first out.
THEOREM DeliveredInOrder == Spec => []InOrder
<1>1. IInv => InOrder
  <2> SUFFICES ASSUME IInv, NEW e \in Events, posts[e] > 0
               PROVE  Cardinality({d \in 1..e - 1 : fate[d] = "none"}) < Cardinality(Workers)
    BY DEF InOrder
  <2> DEFINE D == {d \in 1..e - 1 : fate[d] = "none"}
             holder == [d \in D |-> CHOOSE w \in Workers : job[w] = d]
  <2>1. PICK w0 \in Workers : job[w0] = 0 \/ job[w0] >= e
    BY DEF IInv, EventInv
  <2>2. e \in Nat /\ e <= Taken /\ Taken \in Int /\ \A d \in D : d \in Events /\ d < e /\ d > 0
    <3>1. e \in 1..MaxEvents /\ MaxEvents \in Nat /\ Taken \in Int
      BY DispatcherAssumption DEF IInv, TypeOK, Events, Taken
    <3>2. ~(e > Taken)
      BY <3>1 DEF IInv, EventInv
    <3>3. \A d \in D : d \in 1..e - 1
      OBVIOUS
    <3> QED BY <3>1, <3>2, <3>3 DEF Events
  <2>3. ASSUME NEW d \in D
        PROVE  holder[d] \in Workers \ {w0} /\ job[holder[d]] = d
    <3>1. \E w \in Workers : job[w] = d
      BY <2>2 DEF IInv, EventInv
    <3>2. holder[d] \in Workers /\ job[holder[d]] = d
      BY <3>1
    <3> QED BY <3>2, <2>1, <2>2
  <2>4. holder \in Injection(D, Workers \ {w0})
    <3>1. holder \in [D -> Workers \ {w0}]
      BY <2>3
    <3>2. \A c, d \in D : holder[c] = holder[d] => c = d
      BY <2>3
    <3> QED BY <3>1, <3>2 DEF Injection, IsInjective
  <2>5. IsFiniteSet(Workers \ {w0}) /\ Cardinality(Workers \ {w0}) = Cardinality(Workers) - 1
    BY DispatcherAssumption, FS_RemoveElement, <2>1
  <2>6. Cardinality(D) <= Cardinality(Workers \ {w0})
    BY <2>4, <2>5, FS_Injection
  <2>7. IsFiniteSet(D) /\ Cardinality(D) \in Nat /\ Cardinality(Workers) \in Nat
    BY <2>4, <2>5, FS_Injection, FS_CardinalityType, DispatcherAssumption
  <2> QED BY <2>5, <2>6, <2>7
<1> QED BY Invariant, <1>1, PTL

\* A settled event is never posted again and its fate never changes.
THEOREM SettledForGood == Spec => SettledOnce
<1>1. IInv /\ [Next]_vars =>
        \A e \in Events : fate[e] # "none" => fate'[e] = fate[e] /\ posts'[e] = posts[e]
  <2> SUFFICES ASSUME IInv, [Next]_vars, NEW e \in Events, fate[e] # "none"
               PROVE  fate'[e] = fate[e] /\ posts'[e] = posts[e]
    OBVIOUS
  <2>1. \A w \in Workers : wpc[w] \in {"checking", "posting", "backoff"} => job[w] # e
    BY DEF IInv, WorkerInv
  <2>2. CASE UNCHANGED <<fate, posts>>
    BY <2>2
  <2>3. ASSUME NEW w \in Workers, StartAttempt(w) \/ PostReturns(w) \/ BackoffOver(w)
        PROVE  fate'[e] = fate[e] /\ posts'[e] = posts[e]
    BY <2>1, <2>3 DEF StartAttempt, PostReturns, BackoffOver, Settle, IInv, TypeOK
  <2> QED
    BY <2>2, <2>3 DEF Next, Worker, Enqueue, Push, Take, Exit, CloseBegins, CloseForces,
       CloseReturns, vars
<1> QED BY Invariant, <1>1, PTL DEF Spec, SettledOnce

\* After Close has returned nothing is posted and nothing settled.
THEOREM ClosedIsQuiet == Spec => CloseQuiesces
<1>1. IInv /\ [Next]_vars => ((\E c \in Closers : closer[c] = "returned")
            => UNCHANGED <<posts, fate>>)
  <2> SUFFICES ASSUME IInv, NEW c \in Closers, closer[c] = "returned", [Next]_vars
               PROVE  UNCHANGED <<posts, fate>>
    OBVIOUS
  <2>1. \A w \in Workers : wpc[w] = "exited"
    BY DEF IInv, CloserInv, AllExited
  <2> QED
    BY <2>1 DEF Next, Worker, Enqueue, Push, Take, StartAttempt, PostReturns, BackoffOver,
       Exit, CloseBegins, CloseForces, CloseReturns, vars
<1> QED BY Invariant, <1>1, PTL DEF Spec, CloseQuiesces
=============================================================================
