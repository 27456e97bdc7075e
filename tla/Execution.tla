------------------------------ MODULE Execution ------------------------------
(***************************************************************************)
(* POST /api/v1/execute past authentication: ExecuteTaskUseCase.run binds  *)
(* or verifies the owner of the session and Orchestrator.execute runs one  *)
(* turn of the conversation over the session's keys.                       *)
(*                                                                         *)
(* The server is one asyncio loop (or several): a request gives way to the *)
(* others at each await, so there is one action per awaited Redis command, *)
(* model call and tool call, and the local code between two awaits belongs *)
(* to the action before it.  pc names the await a request stands at.       *)
(***************************************************************************)
EXTENDS RedisStore, Prompt

CONSTANTS
    UserOf,         \* request -> the user its token names
    SessionOf,      \* request -> the session it asks for
    MaxMessages,    \* Limits.MAX_MESSAGES_PER_SESSION
    MaxReplyCalls,  \* bound: the most tool calls the model asks for in a reply
    Serial,         \* do clients send a session one request at a time?
    Faults          \* which of the awaited parties may fail

ASSUME ExecutionAssumption ==
    /\ UserOf \in [Requests -> Users]
    /\ SessionOf \in [Requests -> Sessions]
    /\ MaxMessages \in Nat \ {0}
    /\ MaxToolCalls \in Nat \ {0}
    /\ MaxReplyCalls \in Nat
    /\ Serial \in BOOLEAN
    /\ Faults \subseteq {"store", "llm", "tool", "crash"}

VARIABLES
    pc,         \* request -> where it is
    prompt,     \* request -> the local list "messages" of Orchestrator.execute
    calls,      \* request -> number of tool calls of this turn, after the cap
    answered,   \* request -> how many of them have been answered
    total,      \* request -> the LLEN reply trim_messages works with
    response    \* request -> memory section of the response

localVars == <<pc, prompt, calls, answered, total, response>>
vars == <<storeVars, localVars>>

-----------------------------------------------------------------------------
(***************************************************************************)
(* Control points, in the order the code reaches them.                     *)
(***************************************************************************)

OwnerPCs   == {"bind", "verify"}
RecordPCs  == {"load", "user_push", "user_expire", "decl_push", "decl_expire",
               "record_push", "record_expire", "tool_push", "tool_expire",
               "final_push", "final_expire"}
TrimPCs    == {"trim_get", "trim_llen", "trim_ltrim"}
ReportPCs  == {"count", "summary"}
StorePCs   == OwnerPCs \cup RecordPCs \cup TrimPCs \cup ReportPCs
ModelPCs   == {"llm1", "llm2"}
Admitted   == (StorePCs \ OwnerPCs) \cup ModelPCs \cup {"tool"}
InFlight   == Admitted \cup OwnerPCs
Ended      == {"completed", "forbidden", "llm_error", "tool_error",
               "store_error", "crashed"}

Session(r) == SessionOf[r]

Init ==
    /\ StoreInit
    /\ pc = [r \in Requests |-> "idle"]
    /\ prompt = [r \in Requests |-> << >>]
    /\ calls = [r \in Requests |-> 0]
    /\ answered = [r \in Requests |-> 0]
    /\ total = [r \in Requests |-> 0]
    /\ response = [r \in Requests |-> [message_count |-> 0, has_summary |-> FALSE]]

Goto(r, l) == pc' = [pc EXCEPT ![r] = l]

\* The reply to a store command that has been applied: execution goes on at l,
\* or the reply is lost and the method raises MemoryStoreError.
Reply(r, l) ==
    \/ Goto(r, l)
    \/ "store" \in Faults /\ Goto(r, "store_error")

-----------------------------------------------------------------------------
(***************************************************************************)
(* Admission: ExecuteTaskUseCase.run, verify_or_bind_session_owner.        *)
(***************************************************************************)

Start(r) ==
    /\ pc[r] = "idle"
    /\ Serial => \A q \in Requests : Session(q) = Session(r) => pc[q] \notin InFlight
    /\ Goto(r, "bind")
    /\ UNCHANGED <<storeVars, prompt, calls, answered, total, response>>

BindOwner(r) ==
    /\ pc[r] = "bind"
    /\ \/ /\ SetOwner(Session(r), UserOf[r])
          /\ Reply(r, "load")
       \/ /\ owner[Session(r)] # NoOwner
          /\ Goto(r, "verify")
          /\ UNCHANGED storeVars
    /\ UNCHANGED <<prompt, calls, answered, total, response>>

\* Mutant: any session that is taken is refused.
OwnerVerdictNotMine(r) == "forbidden"

OwnerVerdict(r) == IF owner[Session(r)] = UserOf[r] THEN "load" ELSE "forbidden"

VerifyOwner(r) ==
    /\ pc[r] = "verify"
    /\ Goto(r, OwnerVerdict(r))
    /\ UNCHANGED <<storeVars, prompt, calls, answered, total, response>>

-----------------------------------------------------------------------------
(***************************************************************************)
(* append_message: RPUSH, then EXPIRE, then back to the caller.            *)
(***************************************************************************)

Push(r, from, m, to) ==
    /\ pc[r] = from
    /\ PushMessage(Session(r), m)
    /\ Reply(r, to)
    /\ UNCHANGED <<prompt, calls, answered, total, response>>

Expire(r, from, to) ==
    /\ pc[r] = from
    /\ ExpireMessages(Session(r))
    /\ Reply(r, to)

-----------------------------------------------------------------------------
(***************************************************************************)
(* The first half of Orchestrator.execute: history, task, first reply.     *)
(* The prompt is a function of the history and the task alone, so it is    *)
(* assembled where the history is read.                                    *)
(***************************************************************************)

\* Mutant: the task is appended before the history is read.
LoadHistoryWithTask(r) ==
    /\ pc[r] = "load"
    /\ PushMessage(Session(r), UserMessage(r))
    /\ prompt' = [prompt EXCEPT ![r] = AssembleMessages(messages'[Session(r)], r)]
    /\ Goto(r, "user_expire")
    /\ UNCHANGED <<calls, answered, total, response>>

LoadHistory(r) ==
    /\ pc[r] = "load"
    /\ prompt' = [prompt EXCEPT ![r] = AssembleMessages(messages[Session(r)], r)]
    /\ Goto(r, "user_push")
    /\ UNCHANGED <<storeVars, calls, answered, total, response>>

PushTask(r) == Push(r, "user_push", UserMessage(r), "user_expire")

ExpireTask(r) ==
    /\ Expire(r, "user_expire", "llm1")
    /\ UNCHANGED <<prompt, calls, answered, total, response>>

Capped(n) == IF n > MaxToolCalls THEN MaxToolCalls ELSE n

FirstReply(r) ==
    /\ pc[r] = "llm1"
    /\ \E n \in 0..MaxReplyCalls :
          /\ calls' = [calls EXCEPT ![r] = Capped(n)]
          /\ Goto(r, IF n > 0 THEN "decl_push" ELSE "final_push")
    /\ UNCHANGED <<storeVars, prompt, answered, total, response>>

-----------------------------------------------------------------------------
(***************************************************************************)
(* The tool loop: the declaration is stored and added to the prompt, then  *)
(* each call is run, recorded, stored and added to the prompt in turn.     *)
(***************************************************************************)

Declaration(r) == ToolCallsMessage(r, calls[r])

PushDeclaration(r) == Push(r, "decl_push", Declaration(r), "decl_expire")

\* Mutant: the declaration is stored but not added to the prompt.
ExpireDeclarationOnly(r) ==
    /\ Expire(r, "decl_expire", "tool")
    /\ UNCHANGED <<prompt, calls, answered, total, response>>

ExpireDeclaration(r) ==
    /\ Expire(r, "decl_expire", "tool")
    /\ prompt' = [prompt EXCEPT ![r] = Append(@, Declaration(r))]
    /\ UNCHANGED <<calls, answered, total, response>>

\* Mutant: a tool's answer is stored without a record of the call.
RunToolUnrecorded(r) ==
    /\ pc[r] = "tool"
    /\ Goto(r, "tool_push")
    /\ UNCHANGED <<storeVars, prompt, calls, answered, total, response>>

\* execute_tool returned a ToolCallResult, be its status success, error or timeout.
RunTool(r) ==
    /\ pc[r] = "tool"
    /\ Goto(r, "record_push")
    /\ UNCHANGED <<storeVars, prompt, calls, answered, total, response>>

RecordToolCall(r) ==
    /\ pc[r] = "record_push"
    /\ PushToolRecord(Session(r))
    /\ Reply(r, "record_expire")
    /\ UNCHANGED <<prompt, calls, answered, total, response>>

ExpireToolRecord(r) ==
    /\ pc[r] = "record_expire"
    /\ ExpireToolHistory(Session(r))
    /\ Reply(r, "tool_push")
    /\ UNCHANGED <<prompt, calls, answered, total, response>>

ToolAnswer(r) == ToolMessage(r, answered[r] + 1)

PushToolAnswer(r) == Push(r, "tool_push", ToolAnswer(r), "tool_expire")

\* Mutant: the loop makes one round too many.
ExpireToolAnswerAgain(r) ==
    /\ Expire(r, "tool_expire", IF answered[r] + 1 <= calls[r] THEN "tool" ELSE "llm2")
    /\ prompt' = [prompt EXCEPT ![r] = Append(@, ToolAnswer(r))]
    /\ answered' = [answered EXCEPT ![r] = @ + 1]
    /\ UNCHANGED <<calls, total, response>>

ExpireToolAnswer(r) ==
    /\ Expire(r, "tool_expire", IF answered[r] + 1 < calls[r] THEN "tool" ELSE "llm2")
    /\ prompt' = [prompt EXCEPT ![r] = Append(@, ToolAnswer(r))]
    /\ answered' = [answered EXCEPT ![r] = @ + 1]
    /\ UNCHANGED <<calls, total, response>>

\* Tool calls the follow-up asks for are not looked at.
SecondReply(r) ==
    /\ pc[r] = "llm2"
    /\ Goto(r, "final_push")
    /\ UNCHANGED <<storeVars, prompt, calls, answered, total, response>>

-----------------------------------------------------------------------------
(***************************************************************************)
(* The end of the turn: final answer, trim_if_needed, memory section.      *)
(***************************************************************************)

PushAnswer(r) == Push(r, "final_push", AssistantMessage(r), "final_expire")

\* Mutant: the list is counted without being trimmed.
ExpireAnswerUntrimmed(r) ==
    /\ Expire(r, "final_expire", "count")
    /\ UNCHANGED <<prompt, calls, answered, total, response>>

ExpireAnswer(r) ==
    /\ Expire(r, "final_expire", "trim_get")
    /\ UNCHANGED <<prompt, calls, answered, total, response>>

\* Mutant: only a list that another request is not about to trim is trimmed.
CheckTrimAlone(r) ==
    /\ pc[r] = "trim_get"
    /\ Goto(r, IF /\ Len(messages[Session(r)]) > MaxMessages
                  /\ \A q \in Requests \ {r} : pc[q] \notin TrimPCs
                 THEN "trim_llen" ELSE "count")
    /\ UNCHANGED <<storeVars, prompt, calls, answered, total, response>>

CheckTrim(r) ==
    /\ pc[r] = "trim_get"
    /\ Goto(r, IF Len(messages[Session(r)]) > MaxMessages THEN "trim_llen" ELSE "count")
    /\ UNCHANGED <<storeVars, prompt, calls, answered, total, response>>

ReadLength(r) ==
    /\ pc[r] = "trim_llen"
    /\ total' = [total EXCEPT ![r] = Len(messages[Session(r)])]
    /\ Goto(r, IF Len(messages[Session(r)]) > MaxMessages THEN "trim_ltrim" ELSE "count")
    /\ UNCHANGED <<storeVars, prompt, calls, answered, response>>

Trim(r) ==
    /\ pc[r] = "trim_ltrim"
    /\ TrimMessages(Session(r), total[r], MaxMessages)
    /\ Reply(r, "count")
    /\ UNCHANGED <<prompt, calls, answered, total, response>>

CountMessages(r) ==
    /\ pc[r] = "count"
    /\ response' = [response EXCEPT ![r].message_count = Len(messages[Session(r)])]
    /\ Goto(r, "summary")
    /\ UNCHANGED <<storeVars, prompt, calls, answered, total>>

Complete(r) ==
    /\ pc[r] = "summary"
    /\ response' = [response EXCEPT ![r].has_summary = summary[Session(r)]]
    /\ Goto(r, "completed")
    /\ UNCHANGED <<storeVars, prompt, calls, answered, total>>

-----------------------------------------------------------------------------
(***************************************************************************)
(* What goes wrong.  Every exception ends the request; nothing undoes what *)
(* it has already stored, and nothing is retried.                          *)
(***************************************************************************)

Fail(r, l) ==
    /\ Goto(r, l)
    /\ UNCHANGED <<storeVars, prompt, calls, answered, total, response>>

\* The command never reached Redis, or its reply was an error.
StoreFails(r) == "store" \in Faults /\ pc[r] \in StorePCs /\ Fail(r, "store_error")

ModelFails(r) == "llm" \in Faults /\ pc[r] \in ModelPCs /\ Fail(r, "llm_error")

\* execute_tool raised: unknown tool, or an exception the tool did not catch.
ToolRaises(r) == "tool" \in Faults /\ pc[r] = "tool" /\ Fail(r, "tool_error")

\* The process died or the task was cancelled.
Crash(r) == "crash" \in Faults /\ pc[r] \in InFlight /\ Fail(r, "crashed")

-----------------------------------------------------------------------------
Admit(r)   == Start(r) \/ BindOwner(r) \/ VerifyOwner(r)
Ask(r)     == LoadHistory(r) \/ PushTask(r) \/ ExpireTask(r) \/ FirstReply(r)
UseTools(r) ==
    \/ PushDeclaration(r) \/ ExpireDeclaration(r) \/ RunTool(r)
    \/ RecordToolCall(r) \/ ExpireToolRecord(r)
    \/ PushToolAnswer(r) \/ ExpireToolAnswer(r) \/ SecondReply(r)
Finish(r) ==
    \/ PushAnswer(r) \/ ExpireAnswer(r)
    \/ CheckTrim(r) \/ ReadLength(r) \/ Trim(r)
    \/ CountMessages(r) \/ Complete(r)
Break(r)   == StoreFails(r) \/ ModelFails(r) \/ ToolRaises(r) \/ Crash(r)

Step(r) == Admit(r) \/ Ask(r) \/ UseTools(r) \/ Finish(r) \/ Break(r)

Pass == Tick /\ UNCHANGED localVars

AllEnded ==
    /\ \A r \in Requests : pc[r] \in Ended
    /\ UNCHANGED vars

Next == (\E r \in Requests : Step(r)) \/ Pass \/ AllEnded

Spec == Init /\ [][Next]_vars

=============================================================================
