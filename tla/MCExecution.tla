---------------------------- MODULE MCExecution ----------------------------
(***************************************************************************)
(* Small instances of the execution path for TLC.                          *)
(***************************************************************************)
EXTENDS ExecutionProperties

CONSTANTS r1, r2, r3, u1, u2, s1

\* All requests are of one user on one session.
OneUser     == [r \in Requests |-> u1]
OneSession  == [r \in Requests |-> s1]

\* r3 is another user's.
TwoUsers    == [r \in Requests |-> IF r = r3 THEN u2 ELSE u1]

NoFaults    == {}
AllFaults   == {"store", "llm", "tool", "crash"}

=============================================================================
