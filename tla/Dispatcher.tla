----------------------------- MODULE Dispatcher -----------------------------
(***************************************************************************)
(* The webhook dispatcher of webhook.go: Enqueue by any goroutine, a pool   *)
(* of worker goroutines each delivering one job at a time with bounded      *)
(* retries, and Close.  A job is the number of its acceptance, so that its  *)
(* place in the order is its name.  Calls of Enqueue that find no URL, a    *)
(* body that does not marshal, or the dispatcher closed change nothing.     *)
(***************************************************************************)
EXTENDS Integers, Sequences, FiniteSets

CONSTANTS Workers,     \* delivery goroutines
          Retries,     \* attempts per event
          QueueSize,   \* capacity of the jobs channel
          Closers,     \* callers of Close
          MaxEvents    \* bound: calls of Enqueue that reach the channel

ASSUME DispatcherAssumption ==
    /\ IsFiniteSet(Workers) /\ Workers # {}
    /\ Retries \in Nat \ {0}
    /\ QueueSize \in Nat \ {0}
    /\ MaxEvents \in Nat

VARIABLES
    closed,      \* d.closed; close(d.jobs) happens under the same lock
    jobs,        \* the channel
    accepted,    \* how many events have entered it
    dropped,     \* d.dropped
    cancelled,   \* d.ctx has been cancelled
    wpc, job, attempt,   \* per worker; job 0 is none
    posts,       \* per event: attempts made
    fate,        \* per event: "none" until deliver returns
    closer       \* per caller of Close

workerVars == <<wpc, job, attempt>>
vars == <<closed, jobs, accepted, dropped, cancelled, wpc, job, attempt, posts,
          fate, closer>>

Events == 1..MaxEvents

Init ==
    /\ closed = FALSE /\ jobs = <<>> /\ accepted = 0 /\ dropped = 0
    /\ cancelled = FALSE
    /\ wpc = [w \in Workers |-> "receiving"]
    /\ job = [w \in Workers |-> 0]
    /\ attempt = [w \in Workers |-> 0]
    /\ posts = [e \in Events |-> 0]
    /\ fate = [e \in Events |-> "none"]
    /\ closer = [c \in Closers |-> "new"]

-----------------------------------------------------------------------------
(* Enqueue: the closed check and the non-blocking send under one lock. *)

Push ==
    /\ accepted + dropped < MaxEvents
    /\ \/ /\ Len(jobs) < QueueSize
          /\ jobs' = Append(jobs, accepted + 1)
          /\ accepted' = accepted + 1
          /\ UNCHANGED dropped
       \/ /\ Len(jobs) >= QueueSize
          /\ dropped' = dropped + 1
          /\ UNCHANGED <<jobs, accepted>>
    /\ UNCHANGED <<closed, cancelled, workerVars, posts, fate, closer>>

\* Mutant: closed is not looked at.
EnqueueAlways == Push

Enqueue == ~closed /\ Push

-----------------------------------------------------------------------------
(* A worker: range over jobs, deliver, attempt, backoff. *)

\* Mutant: the job is read but stays in the channel.
TakePeeking(w) ==
    /\ wpc[w] = "receiving" /\ jobs # <<>>
    /\ job' = [job EXCEPT ![w] = Head(jobs)]
    /\ attempt' = [attempt EXCEPT ![w] = 0]
    /\ wpc' = [wpc EXCEPT ![w] = "checking"]
    /\ UNCHANGED <<closed, jobs, accepted, dropped, cancelled, posts, fate, closer>>

\* Mutant: after close, what is still in the channel is thrown away.
TakeDiscarding(w) ==
    /\ wpc[w] = "receiving" /\ jobs # <<>>
    /\ jobs' = Tail(jobs)
    /\ job' = [job EXCEPT ![w] = IF closed THEN 0 ELSE Head(jobs)]
    /\ attempt' = [attempt EXCEPT ![w] = 0]
    /\ wpc' = [wpc EXCEPT ![w] = IF closed THEN "receiving" ELSE "checking"]
    /\ UNCHANGED <<closed, accepted, dropped, cancelled, posts, fate, closer>>

Take(w) ==
    /\ wpc[w] = "receiving"
    /\ jobs # <<>>
    /\ job' = [job EXCEPT ![w] = Head(jobs)]
    /\ jobs' = Tail(jobs)
    /\ attempt' = [attempt EXCEPT ![w] = 0]
    /\ wpc' = [wpc EXCEPT ![w] = "checking"]
    /\ UNCHANGED <<closed, accepted, dropped, cancelled, posts, fate, closer>>

\* deliver returns.
Settle(w, f) ==
    /\ fate' = [fate EXCEPT ![job[w]] = f]
    /\ job' = [job EXCEPT ![w] = 0]
    /\ wpc' = [wpc EXCEPT ![w] = "receiving"]

\* The top of the retry loop: ctx.Err(), else the request goes out, unless it cannot be
\* made of the URL, which the first attempt finds.
StartAttempt(w) ==
    /\ wpc[w] = "checking"
    /\ \/ cancelled /\ Settle(w, "aborted") /\ UNCHANGED posts
       \/ ~cancelled /\ attempt[w] = 0 /\ Settle(w, "unusable") /\ UNCHANGED posts
       \/ /\ ~cancelled
          /\ posts' = [posts EXCEPT ![job[w]] = @ + 1]
          /\ wpc' = [wpc EXCEPT ![w] = "posting"]
          /\ UNCHANGED <<job, fate>>
    /\ UNCHANGED <<closed, jobs, accepted, dropped, cancelled, attempt, closer>>

\* Mutant: no last-attempt test before the backoff.
PostReturnsRetrying(w) ==
    /\ wpc[w] = "posting"
    /\ \/ Settle(w, "acked")
       \/ wpc' = [wpc EXCEPT ![w] = "backoff"] /\ UNCHANGED <<job, fate>>
    /\ UNCHANGED <<closed, jobs, accepted, dropped, cancelled, attempt, posts, closer>>

\* Mutant: a retry goes to the back of the queue.
PostReturnsRequeueing(w) ==
    /\ wpc[w] = "posting"
    /\ \/ Settle(w, "acked") /\ UNCHANGED jobs
       \/ /\ posts[job[w]] < Retries
          /\ jobs' = Append(jobs, job[w])
          /\ job' = [job EXCEPT ![w] = 0]
          /\ wpc' = [wpc EXCEPT ![w] = "receiving"]
          /\ UNCHANGED fate
    /\ UNCHANGED <<closed, accepted, dropped, cancelled, attempt, posts, closer>>

\* 2xx; another status that is not retryable; a transport error, 5xx or 429.
PostReturns(w) ==
    /\ wpc[w] = "posting"
    /\ \/ \E f \in {"acked", "rejected"} : Settle(w, f)
       \/ attempt[w] = Retries - 1 /\ Settle(w, "gave_up")
       \/ /\ attempt[w] # Retries - 1
          /\ wpc' = [wpc EXCEPT ![w] = "backoff"]
          /\ UNCHANGED <<job, fate>>
    /\ UNCHANGED <<closed, jobs, accepted, dropped, cancelled, attempt, posts, closer>>

\* The select on the backoff timer and ctx.Done(); either when both are ready.
BackoffOver(w) ==
    /\ wpc[w] = "backoff"
    /\ \/ cancelled /\ Settle(w, "aborted") /\ UNCHANGED attempt
       \/ /\ attempt' = [attempt EXCEPT ![w] = @ + 1]
          /\ wpc' = [wpc EXCEPT ![w] = "checking"]
          /\ UNCHANGED <<job, fate>>
    /\ UNCHANGED <<closed, jobs, accepted, dropped, cancelled, posts, closer>>

\* Mutant: the channel is never closed, so range never ends.
ExitNever(w) == FALSE /\ wpc[w] = "receiving" /\ UNCHANGED vars

\* range ends when the channel is closed and empty.
Exit(w) ==
    /\ wpc[w] = "receiving"
    /\ jobs = <<>>
    /\ closed
    /\ wpc' = [wpc EXCEPT ![w] = "exited"]
    /\ UNCHANGED <<closed, jobs, accepted, dropped, cancelled, job, attempt, posts,
                   fate, closer>>

Worker(w) ==
    Take(w) \/ StartAttempt(w) \/ PostReturns(w) \/ BackoffOver(w) \/ Exit(w)

-----------------------------------------------------------------------------
(* Close. *)

AllExited == \A w \in Workers : wpc[w] = "exited"

\* The first caller closes; any other returns at once.
CloseBegins(c) ==
    /\ closer[c] = "new"
    /\ \/ closed /\ closer' = [closer EXCEPT ![c] = "too_late"]
       \/ ~closed /\ closer' = [closer EXCEPT ![c] = "waiting"]
    /\ closed' = TRUE
    /\ UNCHANGED <<jobs, accepted, dropped, cancelled, workerVars, posts, fate>>

\* Mutant: after five seconds Close cancels and returns without waiting again.
CloseForcesAndLeaves(c) ==
    /\ closer[c] = "waiting"
    /\ cancelled' = TRUE
    /\ closer' = [closer EXCEPT ![c] = "returned"]
    /\ UNCHANGED <<closed, jobs, accepted, dropped, workerVars, posts, fate>>

\* Five seconds are over: deliveries under way are cancelled, then waited for.
CloseForces(c) ==
    /\ closer[c] = "waiting"
    /\ cancelled' = TRUE
    /\ closer' = [closer EXCEPT ![c] = "forced"]
    /\ UNCHANGED <<closed, jobs, accepted, dropped, workerVars, posts, fate>>

CloseReturns(c) ==
    /\ closer[c] \in {"waiting", "forced"}
    /\ AllExited
    /\ cancelled' = TRUE
    /\ closer' = [closer EXCEPT ![c] = "returned"]
    /\ UNCHANGED <<closed, jobs, accepted, dropped, workerVars, posts, fate>>

Next ==
    \/ Enqueue
    \/ \E w \in Workers : Worker(w)
    \/ \E c \in Closers : CloseBegins(c) \/ CloseForces(c) \/ CloseReturns(c)

\* Workers run (every HTTP attempt ends within cfg.Timeout, every backoff timer
\* fires) and Close returns once the WaitGroup is done.  Nothing makes the five
\* second timer of Close expire before the workers finish.
Fairness ==
    /\ \A w \in Workers : WF_vars(Worker(w))
    /\ \A c \in Closers : WF_vars(CloseReturns(c))

Spec == Init /\ [][Next]_vars

FairSpec == Spec /\ Fairness

-----------------------------------------------------------------------------
(* Properties. *)

\* Every variable stays in its range; in particular an event is posted, and an
\* attempt counted, at most Retries times.
TypeOK ==
    /\ closed \in BOOLEAN /\ cancelled \in BOOLEAN
    /\ accepted \in 0..MaxEvents /\ dropped \in 0..MaxEvents
    /\ jobs \in Seq(Events)
    /\ wpc \in [Workers -> {"receiving", "checking", "posting", "backoff", "exited"}]
    /\ job \in [Workers -> 0..MaxEvents]
    /\ attempt \in [Workers -> 0..Retries - 1]
    /\ posts \in [Events -> 0..Retries]
    /\ fate \in [Events -> {"none", "acked", "rejected", "unusable", "gave_up",
                         "aborted"}]
    /\ closer \in [Closers -> {"new", "too_late", "waiting", "forced", "returned"}]

\* Once deliver has returned for an event it is never posted or settled again.
SettledOnce ==
    [][\A e \in Events : fate[e] # "none" => fate'[e] = fate[e] /\ posts'[e] = posts[e]]_vars

FatesTrue ==
    \A e \in Events :
        /\ fate[e] = "gave_up" => posts[e] = Retries
        /\ fate[e] = "aborted" => cancelled
        /\ fate[e] \in {"acked", "rejected"} => posts[e] > 0
        /\ fate[e] = "unusable" => posts[e] = 0

DrainedAtExit == AllExited => \A e \in 1..accepted : fate[e] # "none"

\* An event is given up only after all its attempts, abandoned only when Close cancelled
\* it, acknowledged or rejected only if it was posted, and found unusable only if it was
\* not; and when the workers have left none that was accepted was left behind, or came in
\* after them (webhook.go:131, :170).
FateTells == FatesTrue /\ DrainedAtExit

\* "Workers int // delivery goroutines; 1 = strict FIFO": when an event has been
\* posted, fewer earlier events than there are workers are still unfinished, so
\* with one worker none is.
InOrder ==
    \A e \in Events : posts[e] > 0 =>
        Cardinality({d \in 1..e - 1 : fate[d] = "none"}) < Cardinality(Workers)

\* When the Close that closed the dispatcher has returned, no delivery is under way:
\* nothing is posted and nothing is settled any more.
CloseQuiesces ==
    [][(\E c \in Closers : closer[c] = "returned") => UNCHANGED <<posts, fate>>]_vars

\* Close returns: retries end, and a forced cancel reaches every wait.
CloseCompletes == \A c \in Closers : closer[c] = "waiting" ~> closer[c] = "returned"

\* Every accepted event is settled, whether or not the dispatcher is closed.
AcceptedSettles == \A e \in Events : accepted >= e ~> fate[e] # "none"

-----------------------------------------------------------------------------
(* The inductive invariant. *)

Taken == accepted - Len(jobs)   \* events received by a worker so far

\* The channel holds the last accepted events, in order.
ChannelInv ==
    /\ Len(jobs) <= accepted
    /\ \A i \in 1..Len(jobs) : jobs[i] = Taken + i

\* Every event taken and unfinished is held by one worker, which counts its posts.
WorkerInv ==
    \A w \in Workers :
        /\ wpc[w] \in {"checking", "posting", "backoff"} <=> job[w] # 0
        /\ wpc[w] = "backoff" => attempt[w] # Retries - 1
        /\ wpc[w] = "exited" => closed /\ jobs = <<>>
        /\ job[w] <= Taken
        /\ \A v \in Workers : job[w] = job[v] /\ job[w] # 0 => w = v
        /\ job[w] # 0 =>
              /\ fate[job[w]] = "none"
              /\ posts[job[w]] = attempt[w] + (IF wpc[w] = "checking" THEN 0 ELSE 1)

\* What has not been taken is untouched; what has been is finished or held; a posted
\* event leaves at least one worker that is free or holds it or a later one.
EventInv ==
    \A e \in Events :
        /\ e > Taken => fate[e] = "none" /\ posts[e] = 0
        /\ e <= Taken /\ fate[e] = "none" => \E w \in Workers : job[w] = e
        /\ posts[e] > 0 => \E w \in Workers : job[w] = 0 \/ job[w] >= e

CloserInv ==
    \A c \in Closers :
        /\ closer[c] \in {"waiting", "forced", "returned"} => closed
        /\ closer[c] = "returned" => AllExited

IInv == TypeOK /\ ChannelInv /\ WorkerInv /\ EventInv /\ CloserInv /\ FatesTrue
=============================================================================
