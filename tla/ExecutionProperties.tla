------------------------- MODULE ExecutionProperties -------------------------
(***************************************************************************)
(* What the execution path promises.  Each property says which conditions  *)
(* it is about: Serial clients or overlapping ones, faults or none, before *)
(* or after the owner key of the session has expired.                      *)
(***************************************************************************)
EXTENDS Execution, FiniteSets

PCs == {"idle"} \cup InFlight \cup Ended

StoreTypeOK ==
    /\ now \in 0..Horizon
    /\ owner \in [Sessions -> Users \cup {NoOwner}]
    /\ messages \in [Sessions -> Seq(Message)]
    /\ toolHistory \in [Sessions -> Nat]
    /\ summary \in [Sessions -> BOOLEAN]
    /\ deadline \in [Keys -> [Sessions -> Nat]]
    /\ lapsed \in [Sessions -> BOOLEAN]

LocalTypeOK ==
    /\ pc \in [Requests -> PCs]
    /\ prompt \in [Requests -> Seq(Message)]
    /\ calls \in [Requests -> 0..MaxToolCalls]
    /\ answered \in [Requests -> 0..MaxToolCalls]
    /\ total \in [Requests -> Nat]
    /\ response \in [Requests -> [message_count : Nat, has_summary : BOOLEAN]]

\* Inside the tool loop there is a call left to answer, and LTRIM is sent only
\* with an LLEN above the limit.
Locals ==
    \A r \in Requests :
        /\ pc[r] \in {"idle", "bind", "verify", "load", "user_push", "user_expire", "llm1"}
              => answered[r] = 0
        /\ pc[r] \in {"decl_push", "decl_expire"} => answered[r] = 0 /\ calls[r] > 0
        /\ pc[r] \in {"tool", "record_push", "record_expire", "tool_push", "tool_expire"}
              => answered[r] < calls[r]
        /\ pc[r] = "trim_ltrim" => total[r] > MaxMessages

\* Every variable stays in its type: the keys, the program counters, and the
\* locals of a request, whose loop counter never passes the capped number of
\* calls, so that every tool message stored answers a call that was declared.
TypeOK == StoreTypeOK /\ LocalTypeOK /\ Locals

-----------------------------------------------------------------------------
(***************************************************************************)
(* Sessions belong to one user.                                            *)
(***************************************************************************)

WrittenBy(list, u) == \A i \in 1..Len(list) : UserOf[list[i].by] = u

\* Until the owner key of a session expires, the conversation of the session is
\* its owner's alone, whatever the requests of several users do at once and
\* wherever they fail: every stored message was written by a request of the
\* owner, every request past the ownership check is the owner's, and the prompt
\* it works with holds nothing of another user's.
SessionIsolation ==
    \A s \in Sessions : ~lapsed[s] =>
        /\ WrittenBy(messages[s], owner[s])
        /\ \A r \in Requests : Session(r) = s =>
              /\ pc[r] \in Admitted => UserOf[r] = owner[s]
              /\ WrittenBy(prompt[r], UserOf[r])

\* A 403 goes only to somebody else: a refused request's user is not the owner,
\* and the session does have an owner (verify_or_bind_session_owner reads the
\* owner key after the SET NX that found it taken).  Holds until the key expires.
RefusedOnlyStrangers ==
    \A r \in Requests :
        pc[r] = "forbidden" /\ ~lapsed[Session(r)]
            => owner[Session(r)] \notin {NoOwner, UserOf[r]}

\* A request that found the owner key taken still finds it when it verifies.
VerifyFindsOwner ==
    \A r \in Requests :
        pc[r] = "verify" /\ ~lapsed[Session(r)] => owner[Session(r)] # NoOwner

\* The three together are inductive.
Ownership == SessionIsolation /\ RefusedOnlyStrangers /\ VerifyFindsOwner

\* The same at the moment of the refusal, and with no condition on the key: a
\* request is refused only while somebody else owns the session.
RefusalHasReason ==
    [][\A r \in Requests :
          pc[r] # "forbidden" /\ pc'[r] = "forbidden"
            => owner[Session(r)] \in Users \ {UserOf[r]}]_vars

\* Ownership is bound on the first use of a session only, and verified on every
\* later one: no request is made the owner of a conversation that already exists.
BoundOnFirstUse ==
    [][\A s \in Sessions :
          owner[s] = NoOwner /\ owner'[s] # NoOwner => messages[s] = << >>]_vars

Log == INSTANCE SessionLog WITH holder <- owner, log <- messages

\* The execution path implements the session log: every command of every request,
\* in whatever order they interleave and wherever they fail, is one step of it.
ImplementsSessionLog == Log!Spec

-----------------------------------------------------------------------------
(***************************************************************************)
(* The list of messages stays within its bound and loses nothing it should *)
(* keep.                                                                   *)
(***************************************************************************)

\* On its way from a push to the LLEN that will see it.
BeforeLength == (RecordPCs \ {"load", "user_push"}) \cup ModelPCs
                  \cup {"tool", "trim_get", "trim_llen"}

WillTrim(r) ==
    \/ pc[r] \in BeforeLength
    \/ pc[r] = "trim_ltrim" /\ Len(messages[Session(r)]) <= total[r]

\* When nothing fails, a list longer than MAX_MESSAGES_PER_SESSION has a request
\* that is still going to cut it: one that has pushed and not yet read LLEN, or
\* one that read an LLEN no smaller than the list is now.
OverlongIsTemporary ==
    Faults = {} =>
        \A s \in Sessions :
            Len(messages[s]) > MaxMessages =>
                \E r \in Requests : Session(r) = s /\ WillTrim(r)

\* Whatever the overlap, the list is within its bound whenever no request is in
\* flight on the session: trim_if_needed at the end of each turn is enough
\* although its test, its LLEN and its LTRIM are three commands.
QuiescentBound ==
    Faults = {} =>
        \A s \in Sessions :
            (\A r \in Requests : Session(r) = s => pc[r] \notin InFlight)
                => Len(messages[s]) <= MaxMessages

LastN(list, n) == SubSeq(list, Len(list) - n + 1, Len(list))

\* The LTRIM of a request leaves the MAX_MESSAGES_PER_SESSION newest messages, whoever
\* else has pushed or trimmed since its LLEN: it may leave more, and never fewer.
TrimKeepsNewest ==
    [][\A r \in Requests :
          LET list == messages[Session(r)]
              rest == messages'[Session(r)]
          IN  pc[r] = "trim_ltrim" /\ pc'[r] # "trim_ltrim" /\ rest # list
                => /\ Len(rest) >= MaxMessages
                   /\ LastN(rest, MaxMessages) = LastN(list, MaxMessages)]_vars

\* What a completed response says of the memory is true when it is sent: the
\* count is the length of the stored list, within its bound, and the answer the
\* response carries is the last message stored.
ResponseMatchesStore ==
    [][\A r \in Requests :
          pc[r] # "completed" /\ pc'[r] = "completed"
            => /\ response'[r].message_count = Len(messages[Session(r)])
               /\ response'[r].message_count \in 1..MaxMessages
               /\ messages[Session(r)][Len(messages[Session(r)])] = AssistantMessage(r)]_vars

-----------------------------------------------------------------------------
(***************************************************************************)
(* What the model is sent.                                                 *)
(***************************************************************************)

Positions(list, m) == {i \in 1..Len(list) : list[i] = m}

\* The task is in the prompt once, and at the first call it is the last thing
\* there: the history is read before the task is appended to the store, so that
\* it does not come back with the history.
TaskAskedOnce ==
    \A r \in Requests : pc[r] \in ModelPCs =>
        /\ Positions(prompt[r], UserMessage(r)) \in {{i} : i \in 1..Len(prompt[r])}
        /\ pc[r] = "llm1" => prompt[r][Len(prompt[r])] = UserMessage(r)

\* The follow-up call shows the model the answer to every call it was told it
\* made, in order, right after the declaration: what is declared is what was run
\* (both are cut to MAX_TOOL_CALLS_PER_TURN), and formatting skips none of it.
FollowUpAnswersEveryCall ==
    \A r \in Requests : pc[r] = "llm2" =>
        LastN(FormatMessages(prompt[r]), calls[r] + 1)
          = <<Declaration(r)>> \o [i \in 1..calls[r] |-> ToolMessage(r, i)]

\* The prompt is one the OpenAI API accepts, at both calls, also when the trim has
\* cut the history between a declaration and its answers.
PromptAccepted ==
    \A r \in Requests : pc[r] \in ModelPCs => Accepted(FormatMessages(prompt[r]))

\* Also where overlapping requests, failed turns, trims and expired lists have torn
\* declarations and answers apart: an answer is sent to the model only after the
\* declaration of its call, and never twice.
AnswersFollowDeclarations ==
    \A r \in Requests : pc[r] \in ModelPCs =>
        LET sent == FormatMessages(prompt[r])
        IN  \A j \in 1..Len(sent) : sent[j].role = "tool" =>
                /\ \E i \in 1..(j - 1) : ToolCallId(sent[j]) \in DeclaredIds(sent[i])
                /\ Positions(sent, sent[j]) = {j}

-----------------------------------------------------------------------------
(***************************************************************************)
(* The audit trail of tool calls.                                          *)
(***************************************************************************)

Answers(s) == {i \in 1..Len(messages[s]) : messages[s][i].role = "tool"}

CallsMade(s) ==
    {c \in Requests \X (1..MaxToolCalls) : Session(c[1]) = s /\ c[2] <= calls[c[1]]}

\* As long as no key can have expired, the tool history of a session has a record
\* for every tool answer in its messages, wherever requests have stopped, and no
\* more records than its turns had calls, cut to MAX_TOOL_CALLS_PER_TURN each:
\* that is all that bounds a list which is never trimmed.
ToolHistoryMatches ==
    now < TTL => \A s \in Sessions :
        toolHistory[s] \in Cardinality(Answers(s)) .. Cardinality(CallsMade(s))

-----------------------------------------------------------------------------
(***************************************************************************)
(* Keys expire.                                                            *)
(***************************************************************************)

Has(k, s) == CASE k = "owner"       -> owner[s] # NoOwner
               [] k = "messages"    -> messages[s] # << >>
               [] k = "toolHistory" -> toolHistory[s] > 0
               [] k = "summary"     -> summary[s]

\* About to send the EXPIRE that follows its RPUSH.
WillExpire(r, k) ==
    \/ k = "messages" /\ pc[r] \in {"user_expire", "decl_expire", "tool_expire", "final_expire"}
    \/ k = "toolHistory" /\ pc[r] = "record_expire"

\* Every key has a TTL, or a request about to set it: none stays forever.
KeysExpire ==
    \A k \in Keys, s \in Sessions :
        Has(k, s) => \/ deadline[k][s] # Never
                     \/ \E r \in Requests : Session(r) = s /\ WillExpire(r, k)

=============================================================================
