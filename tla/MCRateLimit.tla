---------------------------- MODULE MCRateLimit ----------------------------
(***************************************************************************)
(* Small instances of the rate limiter for TLC.                            *)
(***************************************************************************)
EXTENDS RateLimit, TLC

CONSTANTS c1, c2, c3, c4, c5, u1

\* One user's calls, and one call that carries no user.
OneUser == [c \in Calls |-> IF c = c5 THEN NoUser ELSE u1]

\* The calls of the user are alike.
Alike == Permutations({c1, c2, c3, c4})

AllFaults == {"store", "crash"}

=============================================================================
