-------------------------- MODULE MCSummaryWorker --------------------------
(***************************************************************************)
(* Small instances of the summary task beside the execution path.          *)
(***************************************************************************)
EXTENDS SummaryWorker

CONSTANTS r1, r2, r3, u1, u2, s1, j1, j2

OneUser    == [r \in Requests |-> u1]
OneSession == [r \in Requests |-> s1]
OneTarget  == [j \in Jobs |-> s1]

NoFaults    == {}
AllFaults   == {"store", "death"}

=============================================================================
