----------------------------- MODULE SessionLog -----------------------------
(***************************************************************************)
(* What the store promises a client of the execution path, with the steps  *)
(* of a request left out: a session has at most one owner, set once and    *)
(* held until its key lapses; its conversation is a log to which one       *)
(* message at a time is added at the end and from which only a prefix ever *)
(* goes; and as long as the owner key has not lapsed, only the owner's     *)
(* requests add to it.  Nothing edits or reorders what is stored, and no   *)
(* step touches two sessions, except the clock, which takes whole keys.    *)
(***************************************************************************)
EXTENDS Naturals, Sequences

CONSTANTS Sessions, Users, NoOwner, Requests, UserOf, Message

VARIABLES holder, log, lapsed

logVars == <<holder, log, lapsed>>

Init ==
    /\ holder = [s \in Sessions |-> NoOwner]
    /\ log = [s \in Sessions |-> << >>]
    /\ lapsed = [s \in Sessions |-> FALSE]

\* The first user to come takes the session.
Claim(s, u) ==
    /\ holder[s] = NoOwner
    /\ holder' = [holder EXCEPT ![s] = u]
    /\ UNCHANGED <<log, lapsed>>

\* A request of the holder adds a message.
Say(s, m) ==
    /\ holder[s] = UserOf[m.by] \/ lapsed[s]
    /\ log' = [log EXCEPT ![s] = Append(@, m)]
    /\ UNCHANGED <<holder, lapsed>>

\* The n oldest messages go.
Forget(s, n) ==
    /\ log' = [log EXCEPT ![s] = SubSeq(@, n + 1, Len(@))]
    /\ UNCHANGED <<holder, lapsed>>

\* The owner keys of S and the lists of L reach the end of their time.
Lapse(S, L) ==
    /\ holder' = [s \in Sessions |-> IF s \in S THEN NoOwner ELSE holder[s]]
    /\ lapsed' = [s \in Sessions |-> s \in S \/ lapsed[s]]
    /\ log' = [s \in Sessions |-> IF s \in L THEN << >> ELSE log[s]]

Next ==
    \/ \E s \in Sessions, u \in Users : Claim(s, u)
    \/ \E s \in Sessions, m \in Message : Say(s, m)
    \/ \E s \in Sessions : \E n \in 1..Len(log[s]) : Forget(s, n)
    \/ \E S, L \in SUBSET Sessions : Lapse(S, L)

Spec == Init /\ [][Next]_logVars

=============================================================================
