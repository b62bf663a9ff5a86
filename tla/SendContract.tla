---------------------------- MODULE SendContract ----------------------------
(***************************************************************************)
(* What the send queue of a session promises its callers, without saying   *)
(* how: accepted requests form one bounded first-in-first-out line; only   *)
(* the request at the head of the line is ever handed to WhatsApp, at most *)
(* once; a request leaves the line with a verdict that is truthful about   *)
(* whether it was handed over; and a caller is told nothing else than the  *)
(* verdict of its own request, a refusal, or that its context ended.       *)
(***************************************************************************)
EXTENDS Naturals, Sequences

CONSTANTS Requests,  \* the send calls
          Places     \* how many requests the line holds, the head included

VARIABLES line,      \* accepted requests without a verdict, oldest first
          handed,    \* requests handed over to WhatsApp
          verdict,   \* what became of an accepted request, or "none"
          answer     \* what its caller was told, or "none"

vars == <<line, handed, verdict, answer>>

Refusals   == {"invalid", "not_connected", "queue_full"}
Delivered  == {"sent", "send_failed"}
Unsent     == {"ctx", "not_connected"}
Verdicts   == Delivered \union Unsent

Init ==
    /\ line = <<>>
    /\ handed = {}
    /\ verdict = [r \in Requests |-> "none"]
    /\ answer = [r \in Requests |-> "none"]

InLine(r) == \E i \in 1..Len(line) : line[i] = r

Untouched(r) ==
    /\ ~InLine(r)
    /\ r \notin handed
    /\ verdict[r] = "none"
    /\ answer[r] = "none"

Refuse(r) ==
    /\ Untouched(r)
    /\ \E why \in Refusals : answer' = [answer EXCEPT ![r] = why]
    /\ UNCHANGED <<line, handed, verdict>>

Accept(r) ==
    /\ Untouched(r)
    /\ Len(line) < Places
    /\ line' = Append(line, r)
    /\ UNCHANGED <<handed, verdict, answer>>

HandOver ==
    /\ line # <<>>
    /\ Head(line) \notin handed
    /\ handed' = handed \union {Head(line)}
    /\ UNCHANGED <<line, verdict, answer>>

Conclude ==
    /\ line # <<>>
    /\ verdict[Head(line)] = "none"
    /\ \E v \in (IF Head(line) \in handed THEN Delivered ELSE Unsent) :
          verdict' = [verdict EXCEPT ![Head(line)] = v]
    /\ line' = Tail(line)
    /\ UNCHANGED <<handed, answer>>

\* The caller learns the verdict of its request.
Learn(r) ==
    /\ answer[r] = "none"
    /\ verdict[r] # "none"
    /\ answer' = [answer EXCEPT ![r] = verdict[r]]
    /\ UNCHANGED <<line, handed, verdict>>

\* The caller's context ends first; the request stays where it is.
GiveUp(r) ==
    /\ answer[r] = "none"
    /\ InLine(r) \/ verdict[r] # "none"
    /\ answer' = [answer EXCEPT ![r] = "ctx"]
    /\ UNCHANGED <<line, handed, verdict>>

Next ==
    \/ HandOver
    \/ Conclude
    \/ \E r \in Requests : Refuse(r) \/ Accept(r) \/ Learn(r) \/ GiveUp(r)

Spec == Init /\ [][Next]_vars
=============================================================================
