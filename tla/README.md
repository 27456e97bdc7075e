# Verification of the agent execution server

TLA+ models of the server under `src/`, checked with TLC on small instances; for every
part the safety properties that the passing runs check, all but one that section 4 names,
are also proved with TLAPS for all values of the constants.  The server answers
`POST /api/v1/execute`: it runs one turn of a conversation with a language model
that may call tools, and keeps the conversation in Redis between turns.

## 1. The system

| Part | Source | State it keeps | Operations | Modelled in |
|---|---|---|---|---|
| Session store | `infrastructure/memory/redis_store.py` | four Redis keys per session: owner, messages (list), tool history (list), summary, each with a TTL of an hour | RPUSH+EXPIRE, LRANGE, LLEN+LTRIM, SET NX EX, GET, SET EX | `RedisStore` |
| Memory service | `application/services/memory_service.py` | none | append, load, trim_if_needed, verify_or_bind_session_owner, summary | actions of `Execution`, `SummaryWorker` |
| Use case, orchestrator | `use_cases/execute_task.py`, `services/orchestrator.py` | locals of the request (the prompt, the results) | one turn | `Execution` |
| Providers | `infrastructure/llm/openai_provider.py`, `anthropic_provider.py`, `gemini_provider.py` | none | format the prompt, call, parse the tool calls of the reply | `Prompt` (OpenAI's formatter), `Providers`, `Agent` |
| Model router, factory | `services/model_router.py`, `infrastructure/llm/factory.py` | a cache of providers that lives for one request | make a provider, name its model | `Providers`, `Agent` |
| Tool service, tools | `services/tool_service.py`, `infrastructure/tools/` | none | look up, execute with a timeout, make a result or raise | `Tools`, `Agent` |
| Summary task | `workers/tasks.py`, `celery_app.py` | Celery's queue, retry count | load, save summary, trim, retry | `SummaryWorker` |
| Rate limiter | `api/middleware/rate_limit.py` | a counter per user and calendar minute | INCR, EXPIRE | `RateLimit` |
| Gateway | `main.py`, `api/middleware/auth.py`, `api/routes/execute.py`, `core/exceptions.py` | none | authenticate, limit, route, respond | `Gateway` |
| Settings, logging, audit, roles | see PROJECT.json | none that another part reads | | not modelled |

**How they interact.**  The HTTP server is one asyncio loop or several processes
of it.  A request owns nothing but its locals: everything requests share is in
Redis, and each request reaches it by single commands.  Two requests of a session
may be served at the same time; nothing locks a session.  Each command, model call
and tool call is an `await`, at which all other requests may run.  The Celery
worker is a second program on the same keys.

**What is hard about it.**  Multi-command updates of shared keys (SET NX then GET,
RPUSH then EXPIRE, LRANGE then LLEN then LTRIM); keys of one session that expire
at different times; a turn that stores its messages one by one and can stop
between any two of them; the API's rule that every declared tool call is answered
at once, over a list that is trimmed from the front by a count; retries and
redelivery of the summary task; a rate limiter whose counter and TTL are set by
two commands; a tool call that the model made up, whose error is a result for some
calls and the end of the request for others; three providers that each keep another
part of a conversation.  PROJECT.json lists each of these at its line with the property
that is about it.

**What makes each part correct.**

- Store and memory: a session has one owner and its conversation is that user's;
  the list is bounded when nobody is at work, trims keep the newest; no key is
  kept for ever.
- Providers and tools: a bad tool call is answered, not fatal; a provider is asked
  for a model of its own with a prompt its API accepts.
- Turn: the task is asked once; the model sees the answers to all calls it was
  told it made; every prompt is one the API accepts; an admitted request ends, and
  its response tells the truth about the store.
- Summary task: it forgets only the front of the list, no summary is replaced by
  an older one, jobs end.
- Limiter and gateway: no more than the limit per user and minute, a bound for what
  comes late, no call of a user past the limiter unchecked, no refusal without a cause, no trace of a refused call, every call is answered.

## 2. Modules

| Module | What it is |
|---|---|
| `RedisStore` | The keys of the sessions, a clock, and one operator per command as the code uses it |
| `Prompt` | Messages, `_assemble_messages`, OpenAI `_format_messages`, and what that API accepts |
| `Execution` | EXTENDS `RedisStore`, `Prompt`.  One action per await of `run`/`execute`, faults as free choices; `Spec` |
| `ExecutionProperties` | Type invariant, safety and action properties of the execution path |
| `SessionLog` | Abstract specification: what the store promises, without the steps of a request |
| `Tools` | `ToolService.execute_tool`, `MathTool` with `_safe_eval` as a recursive function on syntax trees, `WebSearchTool` |
| `Providers` | EXTENDS `Prompt`.  Aliases, model names, the formatters and the arguments of tool calls of all providers |
| `Agent` | EXTENDS `ExecutionProperties`, `Tools`, `Providers`.  The execution path in which prompt, setting and tool call decide what fails; `ASpec` with fairness |
| `SummaryWorker` | EXTENDS `ExecutionProperties`.  The Celery task beside the requests; `WSpec` |
| `RateLimit` | The limiter alone |
| `Gateway` | EXTENDS `ExecutionProperties`, `L == INSTANCE RateLimit` on the same clock.  Auth, limiter, route, execution path, status; `GSpec` with fairness |
| `Execution_proofs`, `SessionLog_proofs` | Types, isolation and the bound of the list; refinement of `SessionLog` |
| `Memory_proofs` | EXTENDS `Execution_proofs`.  TTLs, trims, responses, the tool history |
| `Prompt_proofs` | EXTENDS `Memory_proofs`.  What a prompt holds, and that the API accepts it |
| `Agent_proofs` | EXTENDS `Prompt_proofs`.  The agent implements `Execution`; trims, responses and prompts of its turns |
| `SummaryWorker_proofs` | EXTENDS `SessionLog_proofs`, `Memory_proofs`.  The worker beside the requests |
| `RateLimit_proofs`, `Gateway_proofs` | The limiter; the gateway, with an instance of the limiter's theorems |
| `MCExecution`, `MCAgent`, `MCSummaryWorker`, `MCRateLimit`, `MCGateway` | Values of constants for TLC |

`Execution` is the hub.  Below it, `SessionLog` is what it implements; above it, `Agent`
and `SummaryWorker` and `Gateway` are compositions whose every step is one of
`Execution`, of the other part, or of both.  `Agent` decides by data what `Execution`
leaves free, so that it implements `Execution` with the faults "llm" and "tool".

`_format_messages` is one loop with a set of pending ids.  `Prompt` states which message
the loop skips (`Skipped`, from the ids pending when it comes to it) and takes the others by
their places, instead of with a recursive operator: such a definition can be proved about.

Definitions after a comment "Mutant:" are plausible bugs of the operator below
them.  They are part of no specification; they show that a property would notice.

### Correspondence with the code

`pc[r]` names the await a request stands at.  The action with that guard is the
command the await sends *and* the local code up to the next await, so that no
local step can be interleaved that the event loop would not interleave.

| Code | `pc` | Action |
|---|---|---|
| `set_session_owner_if_unset` | bind | `BindOwner` |
| `get_session_owner`, comparison | verify | `VerifyOwner` |
| `load_messages`, `_assemble_messages` | load | `LoadHistory` |
| `append_user_message` | user_push, user_expire | `PushTask`, `ExpireTask` |
| `provider.generate` | llm1 | `FirstReply`; in `Agent` `ModelAnswers`, `ModelRefuses` |
| `append_assistant_tool_calls` | decl_push, decl_expire | `PushDeclaration`, `ExpireDeclaration` |
| `execute_tool` | tool | `RunTool`, `ToolRaises`; in `Agent` `ToolReturns`, `ToolEscapes` |
| `record_tool_call` | record_push, record_expire | `RecordToolCall`, `ExpireToolRecord` |
| `append_tool_message` | tool_push, tool_expire | `PushToolAnswer`, `ExpireToolAnswer` |
| second `generate` | llm2 | `SecondReply`; in `Agent` `ModelAnswers`, `ModelRefuses` |
| `append_assistant_message` | final_push, final_expire | `PushAnswer`, `ExpireAnswer` |
| `trim_if_needed` | trim_get, trim_llen, trim_ltrim | `CheckTrim`, `ReadLength`, `Trim` |
| `get_message_count`, `get_summary` | count, summary | `CountMessages`, `Complete` |

A store command fails in two ways: it is not applied (`StoreFails`), or it is
applied and its reply is lost (second disjunct of `Reply`).  Both raise
MemoryStoreError, which ends the request; nothing is undone or retried.

In the gateway, `stage[r]` is the middleware or handler a call stands in:

| Code | `stage` | Action |
|---|---|---|
| `AuthMiddleware.dispatch` | new | `Authenticate` |
| `RateLimitMiddleware.dispatch` | limiter | `Limiter` (no user: "unlimited"; INCR, EXPIRE: "allowed" or "limited"; failing store: "passed"), `Refuse` (429), `Lost` (the process stops) |
| routing, schema of the body, open paths | limiter, let through | `Reject` |
| `execute_task`: user, name in the body | limiter, let through | `RefuseIdentity` (401, 403) |
| `validate_user_id`, `sanitize_task` | limiter, let through | `RefuseInput` (400) |
| `ExecuteTaskUseCase.execute` begins | limiter, let through | `EnterUseCase` |
| the rest of it, and the exception handlers | use_case | `Serve`, with `Status` |

Abstractions: a message is who wrote it, its role, and the number of calls it
declares or the number of the call it answers.  Time is a counter of ticks; `TTL`
is the hour.  `lapsed[s]` is a history variable: the owner key of `s` has expired
at least once.  A summary is the set of messages it was made of (`covers`).  A float is
its class (zero, positive, negative, not finite, complex), and an operation on floats
has a set of possible classes and exceptions; this keeps every exception the code can
meet and gives up only when exactly it meets it.  A reply's calls are chosen one by
one, when the loop comes to them, because nothing looks at a call before.

## 3. Runs

The longest, `worker` (0.5 million states, with liveness) and `gateway` (0.3 million,
with liveness), take about two and a half minutes on two cores, `exec_owners` (1.2
million) and `rate_limit` (1.1 million) one; the others less than half a minute.

| Run | Instance | What it shows |
|---|---|---|
| `exec_overlap` | 2 overlapping requests, no faults, keys expire after one tick | the list is bounded between turns; every key has a TTL; prompts ask the task once, show the answer to every call once and after it; refinement of `SessionLog` |
| `exec_owners` | 3 overlapping requests, 2 users, every fault | types; isolation of sessions; 403 only for strangers; a record for every tool answer and none without a call |
| `agent` | 3 turns of a client that waits, OpenAI, every kind of tool call, failing models, up to 3 calls of which 2 are run, 4 messages kept | which calls end a turn and which are answered; only a raised tool spoils a session; trims keep the newest; responses true; refinement of `Execution`; admitted requests end |
| `worker` | 2 jobs run apart beside one turn, every fault of the worker, keys expire | types, and LTRIM with a length above the limit only; still a `SessionLog`; no older summary; jobs end |
| `rate_limit` | 4 calls of a user and 1 without, limit 2, 2 minutes of 2 ticks and their end, store errors and crashes | limit within a minute; fewer than twice the limit of one minute's calls in any span, late INCRs included; 429 only over the limit |
| `gateway` | 2 calls of a user and 1 without, limit 1, 2 minutes of a tick, keys expire; failing limiter store, crashes there, failing models | the limit at the use case, for all but calls a failing store lets through; no trace of refused calls; every call answered |
| `owner_lifetime`, `trim_race`, `tool_failure`, `provider_followup`, `alias_model`, `summary_forgets` | | violations, section 6 |

**Why the bounds are enough to meet the interesting cases.**

- *Messages kept.*  MAX_MESSAGES_PER_SESSION is 2, 3 or 4 instead of 50, so that a
  turn (2 messages, or 2 + 1 + the calls) overruns it: a trim cuts between a
  declaration and its answers, and two trims race.
- *Tool calls.*  In `agent` the model asks for up to 3 and 2 are run, so that the cap
  is met; elsewhere one call is enough for each control point.
- *Which calls.*  `MCAgent!AllCalls` has every operator with a zero on the right;
  operands that are no numbers, on either side, as a leaf and below another node; complex
  numbers as operands of all divisions and as an exponent; integers no float holds; text that does
  not parse, nests too deep or is not there; arguments that are no object; a search
  with each kind of `max_results`; an unregistered tool.  Two levels of tree reach
  every branch of `_safe_eval` with every kind of operand it can be given.
- *Requests.*  Two suffice for each race of two commands; three where a stranger
  meets two requests of the owner, or where a third turn must read what two turns
  and their trims left.
- *Time.*  `TTL = 1, Horizon = 1` lets every key expire at every point of the
  requests; `Horizon = 0` where expiry is not the question; `owner_lifetime` takes TTL 2
  and Horizon 3 because the messages must have been renewed while the owner key was
  not.
- *Worker.*  A turn of 4 messages, 3 kept, 3 needed for a summary and 1 kept out of
  it keep the order of the code's constants (10 > 5, 50 >= 10); one retry shows
  what three would.
- *Limiter.*  Limit 2 with four calls of a user meets the limit, its excess and a second
  minute, and lets two lives of one counter reach into one span: three allowed calls in a
  span do occur, which is the most `SpanLimit` permits.  A minute of two ticks
  has a beginning and an end, which is where a late EXPIRE differs from a punctual one.
  The four calls are alike, and the run takes them as symmetric (it checks invariants
  only).
- *Gateway.*  A minute is one tick there: what time does to counters is the subject of
  `rate_limit`, and what the gateway adds is the order of auth, limiter and route,
  under counters and keys that go away.  Its calls stand in auth, limiter and route at
  the same time, but `Serial` lets one at a time into the use case, and no model calls
  tools (`MaxReplyCalls = 0`): overlap and tools are the subject of the other runs, and
  `NoTrace` is proved for both.

`Serial` says that a client sends a session its next request only after the last
one ended.  Nothing in the server enforces it; the properties of `agent` are about
such clients, and section 6 says what fails without.  `JobsApart` is the same for
summary jobs.

**Fairness.**  Weak fairness of each request's next step once it has begun (`ASpec`,
`GSpec`): the event loop resumes every coroutine whose await is over.  That an await
ends is `wait_for` for tools and the SDK's time-out for models; for Redis it is an
assumption, because redis-py sets no socket time-out by default
(`request_timeout_seconds` of the settings is read nowhere).  A request is free never
to arrive, and nothing is assumed of faults.  For the summary task (`WSpec`), the
broker delivers and the worker goes on; `JobsEnd` excepts workers that die for ever.

## 4. Theorems

Proved for every value of the constants that satisfies the ASSUMEs: any number of
requests, users and sessions, any limits, faults and TTLs.  The ASSUMEs say that
the limits are naturals (the message limit, the cap and the minute not 0), that the
sentinels `NoOwner` and `NoUser` are no users, that a request has a user and a session,
that a call's subject is its user or nobody, and that a worker keeps fewer messages than
it needs for a summary.  Where a theorem needs more, the hypothesis is in its statement:

| Hypothesis | What it says | Why without it there is no theorem |
|---|---|---|
| `Serial` | a client sends a session one request at a time | `trim_race`, and section 6 |
| `Horizon < TTL` | no key expires in the behaviour: `Horizon` is where the clock stops | a list that expires between LLEN and the response |
| `Faults \cap {"store", "crash"} = {}` | no store command and no process is lost; models may fail and tools raise | a request that stops between two commands, section 6 |
| `JobsApart` | a session's summary jobs run one at a time | section 6 |

**Execution.**

- `TypeCorrect`: `Spec => []TypeOK`.  Besides the types, `TypeOK` holds the facts
  about locals that make it inductive: inside the tool loop there is a call
  left, before it none has been answered, LTRIM is sent only with an LLEN above
  the limit.  Without them the loop counter could leave `0..MaxToolCalls`.
- `OwnershipHolds`: `Ownership` = `SessionIsolation` /\ `RefusedOnlyStrangers` /\
  `VerifyFindsOwner`.  Isolation alone is not inductive: that a request past the
  check is the owner's rests on the verdict, and that a refusal is justified rests
  on the owner key being there between SET NX and GET, which is `VerifyFindsOwner`.
  All three are conditioned on the key not having expired.  `Isolation` and
  `Refusals` are its corollaries.
- `OverlongHolds`: without faults, a list above its limit has a request that
  `WillTrim`: one between a push and its LLEN, or one about to LTRIM with an LLEN
  at least as long as the list.  The invariant is what makes the bound hold under
  overlap: a push by another request behind an LLEN is covered by that other
  request.  `Bound` (`QuiescentBound`) follows, since a request that will trim is
  in flight.
- `Refinement`: `Spec => Log!Spec`.  The owner maps to `holder`, the list to
  `log`.  Initial states map by definition; for a push, that the speaker holds the
  session comes from `SessionIsolation`; a trim is `Forget`; a tick is `Lapse`.

**Memory.**

- `KeysGetTTL`: no store command and no process lost, a list without a TTL has a
  request that has pushed and is about to EXPIRE.  A trim that empties the list takes its
  TTL away with it, which the invariant must allow.
- `TrimKeeps`: `Serial`.  The invariant `SerialInv` adds `Alone` (one request in flight per
  session) and `Measured` (the LLEN that LTRIM goes by is that of the list, or the list
  has expired).  A step of any other request is on another session (`StepIsLocal`), so
  that only the trim's own step has to be looked at.  It leaves exactly the newest up to the
  limit (`TrimsToNewest`); the property asks for no fewer.
- `ResponseTruth`: `Serial`, `Horizon < TTL`.  `ClosingInv` follows a turn from the RPUSH of
  its answer to its end: the answer is last in the list, the list is cut, counted, reported.
- `HistoryMatches`: any overlap and every fault, for the time no key can have expired.
  `HistoryInv` counts: answers in the list and requests `Ahead` (recorded, not yet
  answered) are together at most the records, and these at most the calls that can have a
  record by now.  Finite cardinalities of both sets are part of it.

**Prompts.**

- `TaskOnce`, `DeclaredFirst`, `FollowUpComplete`: unconditional.  `PromptInv` says that a task
  and a declaration are in any list and prompt at most once and not before their request
  has stored them (`OnceStored`, `OncePrompted`), that the prompt ends with the task until the
  declaration is in it (`Asked`), and that from then on it ends with the declaration and the
  answers so far, in order (`Answering`).  Since the formatter keeps the order of what it does
  not skip, and skips no answer whose call is still pending, the sent prompt has the same end.
- `PromptsAccepted`: `Serial`, and models are all that fails.  `OnlyToolsSpoil` in
  `Agent_proofs`: `Serial`, and no store command or process is lost; tools may raise, and the
  theorem is about the sessions in which none has.  Its last two hypotheses say that the
  setting creates the OpenAI provider and asks it for a model of its own, as in the run;
  `alias_model` and `provider_followup` show prompts refused for other reasons.
  The invariant is `SoundInv` = `SerialInv` /\ `PromptInv` /\ `Sound`.
  A list is `Chained` when after each message stands what it calls for: a declaration of
  *n* calls, or answer *k* of *n*, leaves answers to come and is followed by the next one;
  any other message is not followed by an answer.  A list is `Closed` when its last
  message leaves nothing to come.  `Sound` says of a session in which no tool has raised that
  its list is chained (perhaps beginning among answers whose declaration was trimmed),
  that it is open only while its one turn stores its answers and then ends with the
  turn's latest message, and that the turn's prompt is chained behind the system
  message.  Chaining survives a trim, because a suffix of a chained list is chained;
  expiry, because the empty list is; a failing model, because it ends a turn at a
  closed list.  A list that expires *between* a turn's answers begins anew with a
  later answer, which is chained again; the run `agent` has no expiry, so the theorem says
  more than it.  Then, of a chained and closed prompt, every declared answer comes
  (`AnswersCome`), every answer behind the first other message was declared
  (`AnswersAreDeclared`), and the formatter skips exactly the answers in front of that
  (`FrontIsSkipped`), so that what is sent is chained, closed and accepted.

**Agent.**

- `AgentRefines`: `ASpec => Turn!Spec`, where `Turn` is `Execution` with "llm" and
  "tool" among its faults.  The actions that differ are four: an answering model is
  `FirstReply` or `SecondReply`, a refusing one `ModelFails`; a tool that returns is
  `RunTool`, one that raises `ToolRaises`.  The rest maps action by action; the steps
  are the same formulas over another value of `Faults`.
- `AgentIsolation`, `AgentTrims`, `AgentResponds`, `OnlyToolsSpoil`: a step of the agent is
  one of the execution path or ends a request at a model or a tool (`AStepEnds`), which
  touches no list and no other request, so that it keeps `Ownership`, `SerialInv`, `ClosingInv` and
  `SoundInv`.

**Summary worker.**

- `WorkerTypes`: `WSpec => []WorkerTypeOK`, with `WorkerInv`.
- `WorkerRefinement`: `WSpec => Log!Spec`, for any number of overlapping jobs and all their
  faults.  A job's LTRIM is `Forget` like a request's (`TrimMessagesRefines`, shared with
  `Refinement`), its other steps leave owner and list alone.
- `MovesForward`: `JobsApart`.  What a summary covers can only be called older if messages are
  told apart and ordered, so `ForwardInv` says that a list holds no message twice, that
  whatever is in a list or a summary has been said (so that a push is new), that nothing
  the summary covers stands in the list behind something it does not, and, of a job about
  to save, the same of what it loaded, together with that it leaves out nothing of the stored
  summary that is still in the list.

**Limiter and gateway.**

- `LimiterTypes`, `LimitHolds`, `RefusalsAreDue`, `SpanHolds`: the invariant is `LimitInv` =
  `TypeOK` /\ `Course` /\ `Kept` /\ `Counting` /\ `Blamed` /\ `Lives`.  `Counting` relates the counter to
  cardinalities: it is at most the calls counted and, as long as its minute lasts, at least
  those of them that were granted, which are at most the limit.  That it does not fall
  within its minute is `Kept`: an EXPIRE is sent after its INCR, so a TTL of a whole
  minute ends behind the minute counted.  `Blamed` keeps the refused calls' reason
  after the counter is gone.
  `Lives` is what `SpanHolds` needs, for `Counting` says nothing of an INCR that finds its
  minute over and its counter gone.  A counter created at *b* lasts at least until *b* plus
  a minute, and has granted fewer calls than it counts, but for the one that created it
  (`CreatedAt`); when there is none, fewer than the limit were granted as late as a span
  not yet over can see (`Absent`).  So a span meets at most two lives of a counter, and of
  the first it misses the creating call: together fewer than twice the limit.
- `GatewayRefines`: `GSpec => Spec`, each step of the gateway being a step of
  `Execution` or leaving it alone; `GatewayIsolation` follows.
- `GatewayLimits`: `GSpec => R!Spec`, the same for the limiter, on the gateway's clock and
  with its callers; hence the limiter's theorems hold in the gateway.  `ServedFew`
  (`ServedWithinLimit`) follows from `MinuteLimit`'s and `SpanLimit`'s lemmas: a user's call
  that reaches the use case was counted and allowed, or a failing store let it through
  (`Passage`); none of them comes there "unlimited".
- `NoTrace`: `GSpec => []RefusalsLeaveNoTrace`.  The property is not inductive, for it
  says nothing of how a message came to be there.  The invariant `GateInv` adds
  `Passage` (only calls that the limiter checked and let through have begun, and a call with a
  refusing status has either not begun or was found forbidden) and `Traces` (each
  stored message is by a request past the ownership check, each owner key is that of
  a request that has begun).  `Traces` is kept by every step of `Execution`, because
  each either moves its request on among the admitted ones, appends a message of its
  own, binds its own user, or only removes.

Each proof has one lemma per named part, one step per action, and a PTL step at
the end.  What is said along a list (`AnswersCome`, `AnswersAreDeclared`) is
an induction over positions; it is done as the smallest counterexample (`Smallest`, from the
library's well-foundedness of the naturals), since the library's induction theorems
take an operator, which the provers cannot instantiate.

**Only model-checked.**  Liveness (`AdmittedEnds`, `EveryCallIsAnswered`, `JobsEnd`):
outside TLAPS's reach.  `OnlyTheseEndTheTurn`, a property of what `SafeEval` yields, which is a
recursion over trees, for which the provers have no induction.

## 5. Not modelled

- *Values of the tools.*  The magnitude of numbers and the texts a search returns.
- *Rendering of results.*  Whether a result that is inf, nan or complex can be written
  as JSON is a matter of the libraries; `Serve` takes a completed turn for a 200.
- *Reports of a model call.*  Usage, durations, finish_reason, and the conversion of
  tool schemas: nothing of the program reads them.  A reply of Gemini without
  candidates is an answer like any other.
- *The APIs.*  What OpenAI, Anthropic and Gemini accept is known from outside the
  repository; `Accepted`, `AnthropicAccepts` and `GeminiAccepts` state only as much of
  it as the formatters' shapes can offend against.
- *What tokens, paths, names and bodies contain.*  The gateway's steps choose freely
  whether they are valid.  A subject is taken to have no blanks around it, which
  `validate_user_id` strips and the limiter's key keeps.
- *Connections.*  A Redis client is made per request and closed by nothing but the
  garbage collector.
- *Settings, logging, audit, roles, health details.*  The check of the JWT secret runs
  before there is a state; the rest writes what no other part reads.

## 6. Disagreements between the code and what is said of it

Each has a run that TLC ends with a violation.

1. *The owner key outlives nothing* (`owner_lifetime`).  It gets its TTL once; the
   messages' TTL is renewed by each append.  After an hour of use the next request
   binds a session that already holds a conversation, although the docstring of
   `verify_or_bind_session_owner` says that every use after the first verifies.
2. *Two trims by LLENs that are out of date* (`trim_race`).  When both LLENs precede both
   LTRIMs, the second `ltrim key (total - keep) -1` cuts the shortened list once more, and
   fewer than the newest messages up to the limit are left.
3. *A raising tool leaves a dangling declaration* (`tool_failure`, with `0 ** -1`).
   Every later prompt of the session holds a declaration without answers; the
   formatter drops answers without declarations only.  `OnlyTheseEndTheTurn` (run
   `agent`) says which calls do it: an unregistered tool, arguments that are no object,
   a `max_results` that is no integer, an expression with a power, an integer beyond
   floats, or nested too deep.
4. *The follow-up call of Anthropic and Gemini* (`provider_followup`).  Their formatters
   do not send the tool calls the model made; Anthropic's sends the result with a role
   the API does not have.
5. *An alias makes one provider and names another's model* (`alias_model`).
6. *A summary forgets the one before* (`summary_forgets`).  It is made of the list alone and
   overwrites the one stored.  In the run a waiting client's three turns go on beside two
   jobs that are run apart, with no fault; an LTRIM between the two summaries (a turn's, or
   the first job's own) removes what only the first one still holds.

Seen by changing the constants of a run, and not kept as runs:

- with `Faults = {"store"}`, `KeysExpire` fails: a request that stops between RPUSH
  and EXPIRE leaves a list without TTL until the next append;
- with `Horizon >= TTL`, `RefusalHasReason` fails: when the owner key expires
  between SET NX and GET, the request is refused although nobody owns the session;
- with overlapping requests, `PromptAccepted` fails: one request's messages stand
  between another's declaration and its answers;
- `QuiescentBound` is stated for `Faults = {}` only, and would not hold otherwise: a
  request that ends in an error after its first append never trims;
- with `JobsApart = FALSE`, `SummaryMovesForward` fails: the slower of two jobs
  stores the older summary last.

Read, and not a matter of a run of its own:

- `docs/system_design.md:114` and `README.md:183` call the limiter's window sliding; it
  is the calendar minute.  A span of a minute meets two of them, and so, by `MinuteLimit`,
  twice the limit of calls counted in their own minute.  INCRs that arrive after the
  minute they name come on top: `SpanLimit` bounds them for each minute named, and nothing
  bounds their sum over the minutes.
- `docs/api_reference.md:96-124` answers "12 factorial" with a successful
  `factorial(12)`; for a call node `_safe_eval` raises ToolValidationError, so the
  result is an error.

## 7. Plan

Done: every part of section 1 but the last, their compositions and refinements, and a
proof of each safety property that a passing run checks, but for `OnlyTheseEndTheTurn`.
What is left, in this order:

1. `OverlongIsTemporary` and `QuiescentBound` under `WSpec`, with a job between its LLEN and
   its LTRIM as a further one that will trim, and what becomes of them when a worker dies.
2. `KeysExpire` and `ToolHistoryMatches` under `WSpec` and `GSpec`; through `GatewayRefines`
   the second is immediate.
3. `OnlyToolErrorsSpoil` with failing store commands: which of them spoil a list, and
   which leave it chained.
4. Of `OnlyTheseEndTheTurn` the part that needs no recursion: calls that are not
   the calculator's.
