----------------------------- MODULE MCSessions -----------------------------
(***************************************************************************)
(* Two mixes of requests, one chosen at the start: the second factor        *)
(* (nothing fails), and sessions with the ways a password is set (one       *)
(* database failure).  Calls are interchangeable.                           *)
(***************************************************************************)
EXTENDS Sessions, TLC

VARIABLE mix

FirstSteps ==
    [totp |-> {"login", "code", "set_secret", "enable", "disable_verify"},
     revoke |-> {"login", "code", "refresh_create", "old_password", "update", "redeem"}]

MCInit == Init /\ mix \in DOMAIN FirstSteps

\* Every call that starts, and every logout or mailed token, belongs to the mix.
OfTheMix ==
    /\ \A c \in Calls : call[c] = Idle /\ call'[c] # Idle => call'[c].at \in FirstSteps[mix]
    /\ mix = "totp" => faults' = 0 /\ (ops' # ops => call' # call)

MCNext == Next /\ OfTheMix /\ UNCHANGED mix

MCSpec == MCInit /\ [][MCNext]_<<vars, mix>>

Symmetry == Permutations(Calls)
=============================================================================
