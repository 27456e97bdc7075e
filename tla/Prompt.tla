------------------------------- MODULE Prompt -------------------------------
(***************************************************************************)
(* Messages, the prompt the orchestrator assembles from them, and the list *)
(* OpenAIProvider makes of the prompt before it is sent.                   *)
(*                                                                         *)
(* What a message says is abstracted to who wrote it: "by" is the request  *)
(* the message belongs to.  The number n is, in an assistant message, how  *)
(* many tool calls it declares (0 for a plain answer) and, in a tool       *)
(* message, which of these calls it answers.  OpenAI gives every call an   *)
(* id of its own, here the pair of the request and the call's number.      *)
(***************************************************************************)
EXTENDS Naturals, Sequences, FiniteSets

CONSTANTS
    Requests,
    MaxToolCalls    \* Limits.MAX_TOOL_CALLS_PER_TURN

Roles == {"system", "user", "assistant", "tool"}

Message == [role : Roles, by : Requests, n : 0..MaxToolCalls]

SystemMessage(r)       == [role |-> "system",    by |-> r, n |-> 0]
UserMessage(r)         == [role |-> "user",      by |-> r, n |-> 0]
AssistantMessage(r)    == [role |-> "assistant", by |-> r, n |-> 0]
ToolCallsMessage(r, k) == [role |-> "assistant", by |-> r, n |-> k]
ToolMessage(r, i)      == [role |-> "tool",      by |-> r, n |-> i]

\* Ids an assistant message declares; the id a tool message carries.
DeclaredIds(m) == {<<m.by, i>> : i \in IF m.role = "assistant" THEN 1..m.n ELSE {}}
ToolCallId(m)  == <<m.by, m.n>>

AssembleMessages(history, r) ==
    <<SystemMessage(r)>> \o history \o <<UserMessage(r)>>

(***************************************************************************)
(* _format_messages: a pass over the prompt that skips the tool messages   *)
(* whose id is not pending.                                                *)
(***************************************************************************)

\* The set pending_tool_call_ids when the pass comes to position i: a declaration
\* adds its ids, a tool message takes its own away, if it is there.
Pending(msgs, i) ==
    UNION {{id \in DeclaredIds(msgs[j]) :
              \A k \in j+1 .. i-1 : msgs[k].role = "tool" => ToolCallId(msgs[k]) # id} :
           j \in 1..(i - 1)}

\* Mutant: orphan tool messages are sent.
SkippedNever(msgs, i) == FALSE

Skipped(msgs, i) == msgs[i].role = "tool" /\ ToolCallId(msgs[i]) \notin Pending(msgs, i)

\* The k-th position of S from the left.
Place(S, k) == CHOOSE i \in S : Cardinality({j \in S : j <= i}) = k

FormatMessages(msgs) ==
    LET sent == {i \in 1..Len(msgs) : ~Skipped(msgs, i)}
    IN  [k \in 1..Cardinality(sent) |-> msgs[Place(sent, k)]]

(***************************************************************************)
(* What the OpenAI API accepts: an assistant message that declares calls   *)
(* is followed at once by the answers to all of them, and an answer stands *)
(* nowhere else.                                                           *)
(***************************************************************************)
AnswersFollow(msgs, i) ==
    LET m == msgs[i]
    IN  /\ i + m.n <= Len(msgs)
        /\ {ToolCallId(msgs[j]) : j \in {k \in i+1 .. i+m.n : msgs[k].role = "tool"}}
             = DeclaredIds(m)

FollowsItsCall(msgs, j) ==
    \E i \in 1..(j - 1) :
        /\ ToolCallId(msgs[j]) \in DeclaredIds(msgs[i])
        /\ \A k \in i+1 .. j-1 : msgs[k].role = "tool"

Accepted(msgs) ==
    /\ \A i \in 1..Len(msgs) : msgs[i].role = "assistant" => AnswersFollow(msgs, i)
    /\ \A j \in 1..Len(msgs) : msgs[j].role = "tool" => FollowsItsCall(msgs, j)

=============================================================================
