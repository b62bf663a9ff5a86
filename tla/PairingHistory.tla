--------------------------- MODULE PairingHistory ---------------------------
(***************************************************************************)
(* What has become of the writes of a JID, kept beside the life cycle of    *)
(* Pairing: two history variables that no action reads.                     *)
(***************************************************************************)
EXTENDS Pairing

VARIABLES
    crossed,     \* two different new JIDs were on their way to the registry at once
    unsaved      \* the last write of a JID left the row as it was

historyVars == <<vars, crossed, unsaved>>

\* A call of markConnected comes to this point, or leaves it.
Enters(k, step) == mark[k].step # step /\ mark'[k].step = step
Leaves(k, step) == mark[k].step = step /\ mark'[k].step # step

InitHistory == Init /\ crossed = FALSE /\ unsaved = FALSE

NextHistory ==
    /\ Next
    /\ crossed' = (crossed \/ \E k \in Markers :
           /\ Enters(k, "persist")
           /\ \E q \in Markers \ {k} : mark[q].step = "persist")
    /\ unsaved' = IF \E k \in Markers : Leaves(k, "persist")
                  THEN \E k \in Markers : Leaves(k, "persist") /\ row' # mark[k].who
                  ELSE unsaved

SpecHistory == InitHistory /\ [][NextHistory]_historyVars

\* When no write of a JID is pending, the row names the device of the session, so that
\* it survives a restart (doc.go:19), whatever markConnected calls interleave, unless the
\* last write failed or two new JIDs were on their way to the registry at once.
JIDSaved ==
    ~crossed /\ ~unsaved /\ (\A k \in Markers : mark[k].step # "persist") => row = jid
=============================================================================
