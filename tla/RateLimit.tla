------------------------------ MODULE RateLimit ------------------------------
(***************************************************************************)
(* RateLimitMiddleware: one counter per user and minute in Redis, counted  *)
(* up by INCR and given its TTL by an EXPIRE that only the call that       *)
(* created the counter sends.                                              *)
(*                                                                         *)
(* The server reads its clock once, to name the key; the INCR of that key  *)
(* arrives later, possibly after the minute it names is over.  A store     *)
(* that fails lets the call pass.  Time is counted in ticks, Window of     *)
(* them to the minute.                                                     *)
(***************************************************************************)
EXTENDS Naturals, FiniteSets

CONSTANTS
    Calls,      \* HTTP calls on limited paths
    Users,
    NoUser,     \* request.state carries no user
    UserOf,     \* call -> user or NoUser
    Limit,      \* settings.rate_limit_per_minute
    Window,     \* 60 seconds, in ticks
    Horizon,    \* bound: the clock stops here
    Faults      \* subset of {"store", "crash"}

ASSUME RateLimitAssumption ==
    /\ NoUser \notin Users
    /\ UserOf \in [Calls -> Users \cup {NoUser}]
    /\ Limit \in Nat
    /\ Window \in Nat \ {0}
    /\ Horizon \in Nat
    /\ Faults \subseteq {"store", "crash"}

VARIABLES
    clock,
    counter,    \* user -> minute -> value of the key, 0 when it is absent
    expiry,     \* user -> minute -> time of expiry, or Never
    at,         \* call -> where it is
    minute,     \* call -> the minute it read
    countedAt   \* history: call -> when its INCR was applied, or Never

vars == <<clock, counter, expiry, at, minute, countedAt>>

Minutes == 0..(Horizon \div Window)

\* No time: a key without TTL, a call not counted.
Never == Horizon + Window + 1

Init ==
    /\ clock = 0
    /\ counter = [u \in Users |-> [w \in Minutes |-> 0]]
    /\ expiry = [u \in Users |-> [w \in Minutes |-> Never]]
    /\ at = [c \in Calls |-> "idle"]
    /\ minute = [c \in Calls |-> 0]
    /\ countedAt = [c \in Calls |-> Never]

Goto(c, l) == at' = [at EXCEPT ![c] = l]

\* dispatch on a call that carries no user.
Bypass(c) ==
    /\ at[c] = "idle"
    /\ UserOf[c] = NoUser
    /\ Goto(c, "unlimited")
    /\ UNCHANGED <<clock, counter, expiry, minute, countedAt>>

\* The clock is read and the key named.
ReadClock(c) ==
    /\ at[c] = "idle"
    /\ UserOf[c] # NoUser
    /\ minute' = [minute EXCEPT ![c] = clock \div Window]
    /\ Goto(c, "incr")
    /\ UNCHANGED <<clock, counter, expiry, countedAt>>

\* Mutant: strict comparison.
VerdictStrict(n) == IF n < Limit THEN "allowed" ELSE "limited"

Verdict(n) == IF n <= Limit THEN "allowed" ELSE "limited"

\* INCR: the first one on the key goes on to EXPIRE.  When its reply is lost the
\* call has been counted and passes all the same.
Increment(c) ==
    LET u == UserOf[c]
        w == minute[c]
        n == counter[u][w] + 1
    IN  /\ at[c] = "incr"
        /\ counter' = [counter EXCEPT ![u][w] = n]
        /\ countedAt' = [countedAt EXCEPT ![c] = clock]
        /\ \/ Goto(c, IF n = 1 THEN "expire" ELSE Verdict(n))
           \/ "store" \in Faults /\ Goto(c, "passed")
        /\ UNCHANGED <<clock, expiry, minute>>

\* Mutant: a TTL shorter than the minute.
SetExpiryShort(c) ==
    LET u == UserOf[c]
        w == minute[c]
    IN  /\ at[c] = "expire"
        /\ expiry' = IF counter[u][w] = 0
                       THEN expiry
                       ELSE [expiry EXCEPT ![u][w] = clock + Window \div 2]
        /\ \/ Goto(c, Verdict(1))
           \/ "store" \in Faults /\ Goto(c, "passed")
        /\ UNCHANGED <<clock, counter, minute, countedAt>>

\* Mutant: the deadline is counted from the start of the minute named.
SetExpiryFromMinute(c) ==
    LET u == UserOf[c]
        w == minute[c]
    IN  /\ at[c] = "expire"
        /\ expiry' = IF counter[u][w] = 0
                       THEN expiry
                       ELSE [expiry EXCEPT ![u][w] = w * Window + Window]
        /\ \/ Goto(c, Verdict(1))
           \/ "store" \in Faults /\ Goto(c, "passed")
        /\ UNCHANGED <<clock, counter, minute, countedAt>>

SetExpiry(c) ==
    LET u == UserOf[c]
        w == minute[c]
    IN  /\ at[c] = "expire"
        /\ expiry' = IF counter[u][w] = 0
                       THEN expiry
                       ELSE [expiry EXCEPT ![u][w] = clock + Window]
        /\ \/ Goto(c, Verdict(1))
           \/ "store" \in Faults /\ Goto(c, "passed")
        /\ UNCHANGED <<clock, counter, minute, countedAt>>

\* Mutant: a failed check is tried again.
StoreFailsRetry(c) ==
    /\ "store" \in Faults
    /\ at[c] \in {"incr", "expire"}
    /\ Goto(c, "idle")
    /\ UNCHANGED <<clock, counter, expiry, minute, countedAt>>

\* Any exception of the check: the call passes.
StoreFails(c) ==
    /\ "store" \in Faults
    /\ at[c] \in {"incr", "expire"}
    /\ Goto(c, "passed")
    /\ UNCHANGED <<clock, counter, expiry, minute, countedAt>>

Crash(c) ==
    /\ "crash" \in Faults
    /\ at[c] \in {"incr", "expire"}
    /\ Goto(c, "crashed")
    /\ UNCHANGED <<clock, counter, expiry, minute, countedAt>>

\* Time passes; Redis drops the counters that are due.
Tick ==
    /\ clock < Horizon
    /\ clock' = clock + 1
    /\ counter' = [u \in Users |-> [w \in Minutes |->
                      IF expiry[u][w] <= clock + 1 THEN 0 ELSE counter[u][w]]]
    /\ expiry' = [u \in Users |-> [w \in Minutes |->
                      IF expiry[u][w] <= clock + 1 THEN Never ELSE expiry[u][w]]]
    /\ UNCHANGED <<at, minute, countedAt>>

\* "unlimited" needs no check; "passed" had one that the store failed.
Answered == {"unlimited", "passed", "allowed", "limited", "crashed"}

Check(c) == ReadClock(c) \/ Increment(c) \/ SetExpiry(c)

Done ==
    /\ \A c \in Calls : at[c] \in Answered
    /\ clock = Horizon
    /\ UNCHANGED vars

Next ==
    \/ \E c \in Calls : Bypass(c) \/ Check(c) \/ StoreFails(c) \/ Crash(c)
    \/ Tick
    \/ Done

Spec == Init /\ [][Next]_vars

-----------------------------------------------------------------------------
\* Clock, counters, deadlines and calls stay in their types, and no counter is
\* kept past the deadline it has.
TypeOK ==
    /\ clock \in 0..Horizon
    /\ counter \in [Users -> [Minutes -> Nat]]
    /\ expiry \in [Users -> [Minutes -> 1..Never]]
    /\ at \in [Calls -> {"idle", "incr", "expire"} \cup Answered]
    /\ minute \in [Calls -> Minutes]
    /\ countedAt \in [Calls -> 0..Never]
    /\ \A u \in Users, w \in Minutes : expiry[u][w] > clock

\* The calls of user u counted for minute w.
Counted(u, w) ==
    {c \in Calls : UserOf[c] = u /\ countedAt[c] # Never /\ minute[c] = w}

\* Those the limiter let through while the minute was not over.
AllowedInTime(u, w) ==
    {c \in Counted(u, w) : at[c] = "allowed" /\ countedAt[c] \div Window = w}

\* At most Limit of the calls counted within the minute they name are allowed in
\* it, however many run at once, fail or crash: the counter is never dropped
\* before its minute is over, not even when its EXPIRE comes late or not at all.
MinuteLimit ==
    \A u \in Users, w \in Minutes : Cardinality(AllowedInTime(u, w)) <= Limit

\* A 429 goes only to a user who has Limit other calls counted in that same
\* minute: a counter that a crash left without TTL never refuses a later minute.
RefusedOnlyOverLimit ==
    \A c \in Calls :
        at[c] = "limited" => Cardinality(Counted(UserOf[c], minute[c]) \ {c}) >= Limit

\* The calls of user u and minute w that the limiter let through in the Window ticks
\* from t on, whether the minute was still on or over.
AllowedFrom(u, w, t) ==
    {c \in Counted(u, w) : at[c] = "allowed" /\ countedAt[c] \in t .. (t + Window - 1)}

\* MinuteLimit is silent on an INCR held up until its minute is over: it may find the
\* counter gone, begin it anew and be allowed beyond the limit.  What bounds it is the
\* TTL: in a span of a minute, wherever it starts, fewer than twice Limit of the calls
\* that name one minute are allowed, the late ones included, for an old and a new
\* counter cannot both give all they have to the same span.  Nothing bounds the sum over
\* the minutes named: INCRs held up in several may arrive in one span.
SpanLimit ==
    \A u \in Users, w \in Minutes, t \in 0..Horizon :
        Limit > 0 => Cardinality(AllowedFrom(u, w, t)) < 2 * Limit

=============================================================================
