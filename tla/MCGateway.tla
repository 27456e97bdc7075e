----------------------------- MODULE MCGateway -----------------------------
(***************************************************************************)
(* Small instances of the gateway for TLC.                                 *)
(***************************************************************************)
EXTENDS Gateway

CONSTANTS r1, r2, r3, u1, s1

OneUser    == [r \in Requests |-> u1]
OneSession == [r \in Requests |-> s1]

\* r3 carries no user.
Subjects   == [r \in Requests |-> IF r = r3 THEN NoUser ELSE u1]

AllFaults   == {"store", "crash"}
ModelFaults == {"llm"}

=============================================================================
