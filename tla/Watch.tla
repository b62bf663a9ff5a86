-------------------------------- MODULE Watch --------------------------------
(***************************************************************************)
(* The watch command of the command line and the buffer it looks into: it   *)
(* polls the server for the newest messages of a session's Ring and prints  *)
(* those it did not find at its previous poll, while messages arrive and    *)
(* are edited, the server restarts, and an answer may come in cut short.    *)
(***************************************************************************)
EXTENDS Ring, FiniteSets, SequencesExt

CONSTANTS
    Window,        \* how many messages a poll asks for
    MaxMessages,   \* bound: messages that ever enter the buffer
    MaxCuts        \* bound: answers that come in cut short

\* Messages are numbered as they enter the buffer; the identifiers are WhatsApp's, and
\* no two messages have the same.
ASSUME WatchAssumption ==
    Window \in Nat \ {0} /\ MaxMessages \in Nat /\ MaxCuts \in Nat /\ Ids = 1..MaxMessages

VARIABLES
    watching,   \* "no", "yes", "stopped"
    seen,       \* the messages found by the previous poll
    printed,    \* the messages printed, in order
    arrived,    \* history: how many messages have entered the buffer
    missable,   \* history: how many had when watch or, if later, the process began
    cuts, whole \* history: how many answers were cut, and what was printed by the last

command == <<watching, seen, printed>>
vars    == <<buf, next, n, watching, seen, printed, arrived, missable, cuts, whole>>

Init ==
    /\ NewRing
    /\ watching = "no" /\ seen = {} /\ printed = <<>>
    /\ arrived = 0 /\ missable = 0 /\ cuts = 0 /\ whole = 0

-----------------------------------------------------------------------------
(* The server *)

Stores ==
    /\ arrived < MaxMessages
    /\ \E text \in Texts : Append1(arrived + 1, text)
    /\ arrived' = arrived + 1
    /\ UNCHANGED <<command, missable, cuts, whole>>

Edits ==
    /\ \E id \in Ids, text \in Texts : Update(id, text)
    /\ UNCHANGED <<command, arrived, missable, cuts, whole>>

Restarts ==
    /\ Restart
    /\ missable' = arrived
    /\ UNCHANGED <<command, arrived, cuts, whole>>

\* Manager.Recent, newest first.
Newest == [i \in 1..Len(Recent(Window)) |-> Recent(Window)[i].id]

Found == ToSet(Newest)

-----------------------------------------------------------------------------
(* The command *)

\* seenIDs: what is there already is not printed; if the request fails, the command
\* ends, which is as if it had not been started.
WatchStarts ==
    /\ watching = "no"
    /\ watching' = "yes" /\ seen' = Found /\ missable' = arrived
    /\ UNCHANGED <<ring, printed, arrived, cuts, whole>>

\* The loop over the messages, from the last of them, the oldest, to the first:
\* toPrint[i] is what is left to print with i messages to go.
Unseen ==
    LET toPrint[i \in 0..Len(Newest)] ==
            IF i = 0 THEN <<>>
            ELSE IF Newest[i] \in seen THEN toPrint[i - 1]
            ELSE <<Newest[i]>> \o toPrint[i - 1]
    IN  toPrint[Len(Newest)]

\* Mutants: only what is printed is remembered; only the newest message is printed.
PollsForgetting ==
    /\ watching = "yes"
    /\ printed' = printed \o Unseen
    /\ seen' = ToSet(Unseen)
    /\ UNCHANGED <<ring, watching, arrived, missable, cuts, whole>>

PollsNewest ==
    /\ watching = "yes"
    /\ printed' = printed \o SelectSeq(Unseen, LAMBDA id : id = arrived)
    /\ seen' = Found
    /\ UNCHANGED <<ring, watching, arrived, missable, cuts, whole>>

\* A tick whose request succeeds; a failed one is reported and changes nothing.
Polls ==
    /\ watching = "yes"
    /\ printed' = printed \o Unseen
    /\ seen' = Found
    /\ UNCHANGED <<ring, watching, arrived, missable, cuts, whole>>

\* decodeEnvelope looks at neither the error of reading the body nor that of parsing
\* it: a good status with a body cut short is a success without messages.
AnswerCut ==
    /\ cuts < MaxCuts /\ watching # "stopped"
    /\ watching' = "yes" /\ seen' = {}
    /\ missable' = IF watching = "no" THEN arrived ELSE missable
    /\ cuts' = cuts + 1 /\ whole' = Len(printed)
    /\ UNCHANGED <<ring, printed, arrived>>

\* The user interrupts it, between polls or during one.
WatchStops ==
    /\ watching = "yes" /\ watching' = "stopped"
    /\ UNCHANGED <<ring, seen, printed, arrived, missable, cuts, whole>>

Next ==
    \/ Stores \/ Edits \/ Restarts
    \/ WatchStarts \/ Polls \/ AnswerCut \/ WatchStops

\* Ticks go on and not all requests fail.
Spec == Init /\ [][Next]_vars /\ WF_vars(Polls)

-----------------------------------------------------------------------------
(* Properties *)

\* Between two answers that are cut, watch prints a message at most once, and messages
\* in the order they entered the buffer, however polls, new messages, edits and
\* restarts fall: "anything that aged out of the ring can never reappear"
\* (cmd_message.go:127-128).
PrintedOnce ==
    \A i, j \in whole + 1..Len(printed) : i < j => printed[i] < printed[j]

\* watch prints every message that enters the buffer after it began, unless it is
\* interrupted, the server restarts, or so many newer ones come between two polls
\* that neither the buffer nor the request reaches back to it.
WatchCatchesUp ==
    \A id \in Ids :
        watching = "yes" /\ missable < id /\ id <= arrived
            ~> \/ id \in ToSet(printed)
               \/ arrived - id >= Window \/ arrived - id >= Capacity
               \/ id <= missable
               \/ watching # "yes"
=============================================================================
