-------------------------------- MODULE Agent --------------------------------
(***************************************************************************)
(* The execution path with its provider and its tools: what Execution      *)
(* leaves open (does the model call succeed, does execute_tool raise) is   *)
(* decided by the prompt, the setting and the call the model asks for.     *)
(*                                                                         *)
(* A reply names all its calls at once, but each is looked at only when it *)
(* is run, so it is chosen when the loop comes to it.                      *)
(***************************************************************************)
EXTENDS ExecutionProperties, Tools, Providers

CONSTANT Offered    \* bound: the tool calls the model may ask for

VARIABLE asked      \* request -> the call execute_tool runs, as parsed, or NoCall

agentVars == <<vars, asked>>

NoCall == [tool |-> "none", object |-> TRUE, argument |-> Absent]

ParsedCalls == {ParseCall(c) : c \in Offered}

AInit == Init /\ asked = [r \in Requests |-> NoCall]

-----------------------------------------------------------------------------
(***************************************************************************)
(* provider.generate.                                                      *)
(***************************************************************************)

\* The model answers, if there is one and it accepts the prompt.
ModelAnswers(r) == (FirstReply(r) \/ SecondReply(r)) /\ Served(prompt[r])

\* Mutant: a refused task is sent again.
ModelRefusesRetry(r) ==
    pc[r] \in ModelPCs /\ ~Served(prompt[r])
      /\ Fail(r, IF pc[r] = "llm1" THEN "user_expire" ELSE "llm_error")

\* No provider, another provider's model, or a prompt the API refuses.
ModelRefuses(r) ==
    pc[r] \in ModelPCs /\ ~Served(prompt[r]) /\ Fail(r, "llm_error")

-----------------------------------------------------------------------------
(***************************************************************************)
(* execute_tool.                                                           *)
(***************************************************************************)

ToolReturns(r) == RunTool(r) /\ ExecuteTool(asked[r]) # {"raised"}

\* Mutant: the request of a tool that raised goes on without it.
ToolEscapesUnseen(r) ==
    /\ pc[r] = "tool"
    /\ "raised" \in ExecuteTool(asked[r])
    /\ Goto(r, "llm2")
    /\ UNCHANGED <<storeVars, prompt, calls, answered, total, response>>

ToolEscapes(r) ==
    pc[r] = "tool" /\ "raised" \in ExecuteTool(asked[r]) /\ Fail(r, "tool_error")

-----------------------------------------------------------------------------
\* All other steps of a request are those of Execution.
Rest(r) == pc[r] \notin ModelPCs \cup {"tool"} /\ (Admit(r) \/ Ask(r) \/ UseTools(r) \/ Finish(r))

\* A request that comes to execute_tool has its next call.
Picks(r) ==
    \E c \in IF pc'[r] = "tool" THEN ParsedCalls ELSE {NoCall} :
        asked' = [asked EXCEPT ![r] = c]

AStep(r) ==
    /\ \/ Rest(r) \/ Break(r)
       \/ ToolReturns(r) \/ ToolEscapes(r)
       \/ ModelAnswers(r) \/ ModelRefuses(r)
    /\ Picks(r)

ANext ==
    \/ \E r \in Requests : AStep(r)
    \/ (Pass \/ AllEnded) /\ UNCHANGED asked

\* The event loop resumes every coroutine whose await is over.  A tool's is over
\* when it returns, a model's after the SDK's time-out, a store's when Redis answers
\* or the connection breaks; that one of these happens is assumed of Redis.  A
\* request is free never to arrive.
ASpec ==
    /\ AInit
    /\ [][ANext]_agentVars
    /\ \A r \in Requests : WF_agentVars(pc[r] # "idle" /\ AStep(r))

-----------------------------------------------------------------------------
Turn == INSTANCE Execution WITH Faults <- Faults \cup {"llm", "tool"}

\* Whatever the setting, the provider and the tools called, a turn is a turn of
\* Execution in which models fail and tools raise: what holds there with these
\* faults (isolation of sessions, session log) holds of the whole agent.
ImplementsExecution == Turn!Spec

\* Calls that execute_tool does not answer: of a tool that is not registered, with
\* arguments that are no object, a search with a max_results that is no integer,
\* an expression nested too deep, with a power in it or an integer no float holds.
EndsTheTurn(c) ==
    \/ c.tool \notin {"math", "web_search"}
    \/ ~c.object
    \/ c.tool = "web_search" /\ c.argument.node = "search" /\ c.argument.max_results # "integer"
    \/ c.tool = "math" /\ \/ c.argument.node = "too_deep"
                          \/ c.argument \in Expressions /\ HasPowerOrHuge[c.argument]

\* Every other call is answered, be it malformed or undefined (0 / 0, 1 % 0, an
\* unknown operator, 2 ** 5000, no expression at all): its error is a result for
\* the model and the turn goes on.
OnlyTheseEndTheTurn ==
    [][\A r \in Requests :
          pc[r] = "tool" /\ pc'[r] = "tool_error" => EndsTheTurn(asked[r])]_agentVars

\* With one request at a time the provider refuses a prompt only of a session in
\* which a tool has raised.  Neither trims that cut between a declaration and its
\* answers, nor turns that end at a failing model call, whose task stays in the
\* list without an answer, make a prompt the API does not accept.
OnlyToolErrorsSpoil ==
    \A r \in Requests :
        pc[r] \in ModelPCs /\ ~Served(prompt[r]) =>
            \E q \in Requests : Session(q) = Session(r) /\ pc[q] = "tool_error"

\* A request past the ownership check ends, whatever the model replies, refuses or
\* asks for: the tool loop runs out of calls, and nothing is tried again.
AdmittedEnds ==
    \A r \in Requests : pc[r] \in Admitted ~> pc[r] \in Ended

-----------------------------------------------------------------------------
\* "Call LLM again with tool results": the provider serves the follow-up call.
FollowUpServed == \A r \in Requests : pc[r] = "llm2" => Served(prompt[r])

\* The provider made from an alias is asked for a model of its own.
ModelFitsProvider ==
    \A r \in Requests, p \in ProviderNames :
        pc[r] = "llm1" /\ Created(p) => ModelOwner = p

=============================================================================
