----------------------------- MODULE MCPairing -----------------------------
(* Two login calls racing, for TLC: the session is new, and the parts that    *)
(* the other run of Pairing already interleaves (stop, logout, unlinking and   *)
(* the three minute limit) are not explored further.                           *)
EXTENDS PairingHistory, TLC

CONSTANTS l1, l2

LoginSymmetry == Permutations(Logins)

OnlyLogins ==
    /\ row # Boot
    /\ ~stopped
    /\ leaving = "idle"
    /\ \A c \in Clients : paired[c] # "unlinked"
    /\ \A l \in Logins : ctx[l] # "expired"
=============================================================================
