----------------------------- MODULE RedisStore -----------------------------
(***************************************************************************)
(* The per-session keys that RedisMemoryStore keeps in Redis, one operator *)
(* per command the class sends:                                            *)
(*                                                                         *)
(*   session:{id}:owner         string, SET NX EX, never refreshed         *)
(*   session:{id}:messages      list, RPUSH then EXPIRE, LTRIM             *)
(*   session:{id}:tool_history  list, RPUSH then EXPIRE                    *)
(*   session:{id}:summary       string, SET EX                             *)
(*                                                                         *)
(* Each command is atomic, a method that sends two of them is not: EXPIRE  *)
(* follows RPUSH as a command of its own, and LTRIM follows LLEN.  Time is *)
(* a clock in units of the TTL's granularity; a key whose deadline is      *)
(* reached disappears, as Redis makes it disappear.                        *)
(***************************************************************************)
EXTENDS Naturals, Sequences

CONSTANTS
    Sessions,   \* session ids
    Users,      \* token subjects
    NoOwner,    \* the reply of GET on an absent owner key
    TTL,        \* Defaults.SESSION_TTL_SECONDS, in clock ticks
    Horizon     \* bound: the clock stops here

ASSUME StoreAssumption ==
    /\ NoOwner \notin Users
    /\ TTL \in Nat \ {0}
    /\ Horizon \in Nat

VARIABLES
    now,            \* the clock
    owner,          \* session -> user, or NoOwner when the key is absent
    messages,       \* session -> list of messages; the empty list is an absent key
    toolHistory,    \* session -> length of the tool history list
    summary,        \* session -> does the summary key exist?
    deadline,       \* key -> session -> time of expiry, or Never
    lapsed          \* history: has the owner key of the session ever expired?

storeVars == <<now, owner, messages, toolHistory, summary, deadline, lapsed>>

Keys == {"owner", "messages", "toolHistory", "summary"}

Never == 0

StoreInit ==
    /\ now = 0
    /\ owner = [s \in Sessions |-> NoOwner]
    /\ messages = [s \in Sessions |-> << >>]
    /\ toolHistory = [s \in Sessions |-> 0]
    /\ summary = [s \in Sessions |-> FALSE]
    /\ deadline = [k \in Keys |-> [s \in Sessions |-> Never]]
    /\ lapsed = [s \in Sessions |-> FALSE]

-----------------------------------------------------------------------------
(***************************************************************************)
(* Commands.                                                               *)
(***************************************************************************)

ExpireAt(k, s) == [deadline EXCEPT ![k][s] = now + TTL]

\* Mutant: SET without NX.
SetOwnerWithoutNX(s, u) ==
    /\ owner' = [owner EXCEPT ![s] = u]
    /\ deadline' = ExpireAt("owner", s)
    /\ UNCHANGED <<now, messages, toolHistory, summary, lapsed>>

\* SET owner u NX EX ttl on a key that is absent.
SetOwner(s, u) ==
    /\ owner[s] = NoOwner
    /\ owner' = [owner EXCEPT ![s] = u]
    /\ deadline' = ExpireAt("owner", s)
    /\ UNCHANGED <<now, messages, toolHistory, summary, lapsed>>

\* Mutant: LPUSH for RPUSH.
PushMessageLeft(s, m) ==
    /\ messages' = [messages EXCEPT ![s] = <<m>> \o @]
    /\ UNCHANGED <<now, owner, toolHistory, summary, deadline, lapsed>>

\* The first command of append_message.
PushMessage(s, m) ==
    /\ messages' = [messages EXCEPT ![s] = Append(@, m)]
    /\ UNCHANGED <<now, owner, toolHistory, summary, deadline, lapsed>>

\* Mutant: EXPIRE only for the push that created the list.
ExpireNewList(s) ==
    /\ deadline' = IF Len(messages[s]) = 1 THEN ExpireAt("messages", s) ELSE deadline
    /\ UNCHANGED <<now, owner, messages, toolHistory, summary, lapsed>>

\* The second one: EXPIRE does nothing to a key that has gone meanwhile.
ExpireMessages(s) ==
    /\ deadline' = IF messages[s] = << >> THEN deadline ELSE ExpireAt("messages", s)
    /\ UNCHANGED <<now, owner, messages, toolHistory, summary, lapsed>>

\* The two commands of append_tool_history.
PushToolRecord(s) ==
    /\ toolHistory' = [toolHistory EXCEPT ![s] = @ + 1]
    /\ UNCHANGED <<now, owner, messages, summary, deadline, lapsed>>

ExpireToolHistory(s) ==
    /\ deadline' = IF toolHistory[s] = 0 THEN deadline ELSE ExpireAt("toolHistory", s)
    /\ UNCHANGED <<now, owner, messages, toolHistory, summary, lapsed>>

\* Mutant: one too many is kept.
TrimOneTooFew(s, total, keep) ==
    LET start == total - keep - 1 IN
    /\ messages' = [messages EXCEPT ![s] = SubSeq(@, start + 1, Len(@))]
    /\ UNCHANGED <<now, owner, toolHistory, summary, deadline, lapsed>>

\* Mutant: the oldest are kept, LTRIM 0 (keep - 1).
TrimKeepsOldest(s, total, keep) ==
    /\ messages' = [messages EXCEPT ![s] = SubSeq(@, 1, keep)]
    /\ UNCHANGED <<now, owner, toolHistory, summary, deadline, lapsed>>

\* LTRIM messages (total - keep) -1.  A start past the end empties the list,
\* and an empty list is no key, so its deadline goes with it.
TrimMessages(s, total, keep) ==
    LET start == total - keep IN
    /\ messages' = [messages EXCEPT ![s] = SubSeq(@, start + 1, Len(@))]
    /\ deadline' = IF start < Len(messages[s])
                     THEN deadline
                     ELSE [deadline EXCEPT !["messages"][s] = Never]
    /\ UNCHANGED <<now, owner, toolHistory, summary, lapsed>>

\* SET summary EX ttl.
SetSummary(s) ==
    /\ summary' = [summary EXCEPT ![s] = TRUE]
    /\ deadline' = ExpireAt("summary", s)
    /\ UNCHANGED <<now, owner, messages, toolHistory, lapsed>>

-----------------------------------------------------------------------------
(***************************************************************************)
(* Time passes; the keys that are due disappear.                           *)
(***************************************************************************)

Due(k, s) == deadline[k][s] # Never /\ deadline[k][s] <= now + 1

Tick ==
    /\ now < Horizon
    /\ now' = now + 1
    /\ owner' = [s \in Sessions |-> IF Due("owner", s) THEN NoOwner ELSE owner[s]]
    /\ messages' = [s \in Sessions |-> IF Due("messages", s) THEN << >> ELSE messages[s]]
    /\ toolHistory' = [s \in Sessions |-> IF Due("toolHistory", s) THEN 0 ELSE toolHistory[s]]
    /\ summary' = [s \in Sessions |-> summary[s] /\ ~Due("summary", s)]
    /\ deadline' = [k \in Keys |-> [s \in Sessions |->
                        IF Due(k, s) THEN Never ELSE deadline[k][s]]]
    /\ lapsed' = [s \in Sessions |-> lapsed[s] \/ Due("owner", s)]

=============================================================================
