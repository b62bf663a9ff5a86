---------------------------- MODULE MCSendQueue ----------------------------
(* Instances of SendQueue for TLC: two chats; m1 and m2 come from one sender  *)
(* of one chat, m3 from another chat that only r2 answers.                    *)
EXTENDS SendQueue, TLC

CONSTANTS r1, r2, m1, m2, m3, c1

MCChatOf == (m1 :> "a") @@ (m2 :> "a") @@ (m3 :> "b")

MCAnsweredBy == [r \in Requests |-> Messages \intersect (IF r = r1 THEN {m1, m2} ELSE {m2, m3})]
=============================================================================
