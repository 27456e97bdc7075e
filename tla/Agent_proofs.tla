---------------------------- MODULE Agent_proofs ----------------------------
(***************************************************************************)
(* The execution path with its provider and tools implements the execution *)
(* path in which models fail and tools raise, for every setting, every     *)
(* tool call and every value of the constants, and spoils no prompt but by *)
(* a tool that raises.                                                     *)
(***************************************************************************)
EXTENDS Agent, Prompt_proofs

USE DEF Session

LEMMA ReplyTurns ==
    ASSUME NEW r \in Requests, NEW l, Reply(r, l)
    PROVE  Turn!Reply(r, l)
  BY DEF Reply, Turn!Reply, Goto, Turn!Goto

LEMMA PushTurns ==
    ASSUME NEW r \in Requests, NEW from, NEW m, NEW to, Push(r, from, m, to)
    PROVE  Turn!Push(r, from, m, to)
  BY ReplyTurns DEF Push, Turn!Push, PushMessage, Turn!PushMessage, Session, Turn!Session

LEMMA ExpireTurns ==
    ASSUME NEW r \in Requests, NEW from, NEW to, Expire(r, from, to)
    PROVE  Turn!Expire(r, from, to)
  BY ReplyTurns DEF Expire, Turn!Expire, ExpireMessages, Turn!ExpireMessages, ExpireAt,
     Turn!ExpireAt, Session, Turn!Session

\* Names that do not depend on what may fail.
LEMMA SamePCs ==
    /\ Turn!ModelPCs = ModelPCs /\ Turn!StorePCs = StorePCs
    /\ Turn!InFlight = InFlight /\ Turn!Ended = Ended
  BY DEF ModelPCs, Turn!ModelPCs, StorePCs, Turn!StorePCs, InFlight, Turn!InFlight, Ended, Turn!Ended,
     Admitted, Turn!Admitted, OwnerPCs, Turn!OwnerPCs, RecordPCs, Turn!RecordPCs, TrimPCs,
     Turn!TrimPCs, ReportPCs, Turn!ReportPCs

LEMMA FailTurns ==
    ASSUME NEW r \in Requests, NEW l, Fail(r, l)
    PROVE  Turn!Fail(r, l)
  BY DEF Fail, Turn!Fail, Goto, Turn!Goto, storeVars, Turn!storeVars

LEMMA AdmitTurns ==
    ASSUME NEW r \in Requests, Admit(r)
    PROVE  Turn!Admit(r)
<1> USE DEF Session, Turn!Session, Goto, Turn!Goto, storeVars, Turn!storeVars
<1>1. CASE Start(r)
  BY <1>1, SamePCs DEF Start, Turn!Start, Turn!Admit
<1>2. CASE BindOwner(r)
  BY <1>2, ReplyTurns DEF BindOwner, Turn!BindOwner, SetOwner, Turn!SetOwner, ExpireAt,
     Turn!ExpireAt, Turn!Admit
<1>3. CASE VerifyOwner(r)
  BY <1>3 DEF VerifyOwner, Turn!VerifyOwner, OwnerVerdict, Turn!OwnerVerdict, Turn!Admit
<1> QED  BY <1>1, <1>2, <1>3 DEF Admit

LEMMA AskTurns ==
    ASSUME NEW r \in Requests, Ask(r)
    PROVE  Turn!Ask(r)
<1> USE DEF Session, Turn!Session, Goto, Turn!Goto, storeVars, Turn!storeVars, Turn!Ask
<1>1. CASE LoadHistory(r)
  BY <1>1 DEF LoadHistory, Turn!LoadHistory, AssembleMessages, Turn!AssembleMessages,
     SystemMessage, Turn!SystemMessage, UserMessage, Turn!UserMessage
<1>2. CASE PushTask(r)
  BY <1>2, PushTurns DEF PushTask, Turn!PushTask, UserMessage, Turn!UserMessage
<1>3. CASE ExpireTask(r)
  BY <1>3, ExpireTurns DEF ExpireTask, Turn!ExpireTask
<1>4. CASE FirstReply(r)
  BY <1>4 DEF FirstReply, Turn!FirstReply, Capped, Turn!Capped
<1> QED  BY <1>1, <1>2, <1>3, <1>4 DEF Ask

LEMMA UseToolsTurns ==
    ASSUME NEW r \in Requests, UseTools(r)
    PROVE  Turn!UseTools(r)
<1> USE DEF Session, Turn!Session, Goto, Turn!Goto, storeVars, Turn!storeVars, Turn!UseTools,
            Declaration, Turn!Declaration, ToolCallsMessage, Turn!ToolCallsMessage,
            ToolAnswer, Turn!ToolAnswer, ToolMessage, Turn!ToolMessage
<1>1. CASE PushDeclaration(r)
  BY <1>1, PushTurns DEF PushDeclaration, Turn!PushDeclaration
<1>2. CASE ExpireDeclaration(r)
  BY <1>2, ExpireTurns DEF ExpireDeclaration, Turn!ExpireDeclaration
<1>3. CASE RunTool(r)
  BY <1>3 DEF RunTool, Turn!RunTool
<1>4. CASE RecordToolCall(r)
  BY <1>4, ReplyTurns DEF RecordToolCall, Turn!RecordToolCall, PushToolRecord, Turn!PushToolRecord
<1>5. CASE ExpireToolRecord(r)
  BY <1>5, ReplyTurns DEF ExpireToolRecord, Turn!ExpireToolRecord, ExpireToolHistory,
     Turn!ExpireToolHistory, ExpireAt, Turn!ExpireAt
<1>6. CASE PushToolAnswer(r)
  BY <1>6, PushTurns DEF PushToolAnswer, Turn!PushToolAnswer
<1>7. CASE ExpireToolAnswer(r)
  BY <1>7, ExpireTurns DEF ExpireToolAnswer, Turn!ExpireToolAnswer
<1>8. CASE SecondReply(r)
  BY <1>8 DEF SecondReply, Turn!SecondReply
<1> QED  BY <1>1, <1>2, <1>3, <1>4, <1>5, <1>6, <1>7, <1>8 DEF UseTools

LEMMA FinishTurns ==
    ASSUME NEW r \in Requests, Finish(r)
    PROVE  Turn!Finish(r)
<1> USE DEF Session, Turn!Session, Goto, Turn!Goto, storeVars, Turn!storeVars, Turn!Finish
<1>1. CASE PushAnswer(r)
  BY <1>1, PushTurns DEF PushAnswer, Turn!PushAnswer, AssistantMessage, Turn!AssistantMessage
<1>2. CASE ExpireAnswer(r)
  BY <1>2, ExpireTurns DEF ExpireAnswer, Turn!ExpireAnswer
<1>3. CASE CheckTrim(r)
  BY <1>3 DEF CheckTrim, Turn!CheckTrim
<1>4. CASE ReadLength(r)
  BY <1>4 DEF ReadLength, Turn!ReadLength
<1>5. CASE Trim(r)
  BY <1>5, ReplyTurns DEF Trim, Turn!Trim, TrimMessages, Turn!TrimMessages, Never, Turn!Never
<1>6. CASE CountMessages(r)
  BY <1>6 DEF CountMessages, Turn!CountMessages
<1>7. CASE Complete(r)
  BY <1>7 DEF Complete, Turn!Complete
<1> QED  BY <1>1, <1>2, <1>3, <1>4, <1>5, <1>6, <1>7 DEF Finish

LEMMA BreakTurns ==
    ASSUME NEW r \in Requests, Break(r)
    PROVE  Turn!Break(r)
<1> USE FailTurns, SamePCs DEF Turn!Break
<1>1. CASE StoreFails(r)
  BY <1>1 DEF StoreFails, Turn!StoreFails
<1>2. CASE ModelFails(r)
  BY <1>2 DEF ModelFails, Turn!ModelFails
<1>3. CASE ToolRaises(r)
  BY <1>3 DEF ToolRaises, Turn!ToolRaises
<1>4. CASE Crash(r)
  BY <1>4 DEF Crash, Turn!Crash
<1> QED  BY <1>1, <1>2, <1>3, <1>4 DEF Break

\* A refused prompt is a model that fails, an escaping tool one that raises.
LEMMA AStepTurns ==
    ASSUME NEW r \in Requests, AStep(r)
    PROVE  Turn!Step(r)
<1> USE DEF Turn!Step
<1>1. CASE Rest(r) \/ Break(r)
  BY <1>1, AdmitTurns, AskTurns, UseToolsTurns, FinishTurns, BreakTurns DEF Rest
<1>2. CASE ToolReturns(r) \/ ModelAnswers(r)
  BY <1>2, AskTurns, UseToolsTurns DEF ToolReturns, ModelAnswers, Ask, UseTools
<1>3. CASE ToolEscapes(r)
  <2>1. Turn!ToolRaises(r)
    BY <1>3, FailTurns DEF ToolEscapes, Turn!ToolRaises
  <2> QED  BY <2>1 DEF Turn!Break
<1>4. CASE ModelRefuses(r)
  <2>1. Turn!ModelFails(r)
    BY <1>4, FailTurns, SamePCs DEF ModelRefuses, Turn!ModelFails
  <2> QED  BY <2>1 DEF Turn!Break
<1> QED  BY <1>1, <1>2, <1>3, <1>4 DEF AStep

LEMMA AInitTurns == AInit => Turn!Init
  BY DEF AInit, Init, Turn!Init, StoreInit, Turn!StoreInit, Keys, Turn!Keys, Never, Turn!Never

LEMMA ANextTurns == [ANext]_agentVars => [Turn!Next]_(Turn!vars)
<1> SUFFICES ASSUME [ANext]_agentVars
             PROVE  [Turn!Next]_(Turn!vars)
  OBVIOUS
<1>1. CASE \E r \in Requests : AStep(r)
  BY <1>1, AStepTurns DEF Turn!Next
<1>2. CASE Pass
  BY <1>2 DEF Pass, Turn!Next, Turn!Pass, Tick, Turn!Tick, Due, Turn!Due, Keys, Turn!Keys, Never,
     Turn!Never, localVars, Turn!localVars
<1>3. CASE UNCHANGED vars
  BY <1>3 DEF vars, Turn!vars, storeVars, Turn!storeVars, localVars, Turn!localVars
<1> QED  BY <1>1, <1>2, <1>3 DEF ANext, AllEnded, agentVars

\* The agent implements the execution path with failing models and raising tools.
THEOREM AgentRefines == ASpec => ImplementsExecution
  BY AInitTurns, ANextTurns, PTL DEF ASpec, ImplementsExecution, Turn!Spec

-----------------------------------------------------------------------------
(***************************************************************************)
(* Its steps are those of the execution path, and requests that end at a   *)
(* refused prompt or an escaped exception: the sessions stay isolated.     *)
(***************************************************************************)

LEMMA AStepKinds ==
    ASSUME NEW r \in Requests, AStep(r)
    PROVE  Step(r) \/ Fail(r, "llm_error") \/ Fail(r, "tool_error")
  BY DEF AStep, Rest, ToolReturns, ToolEscapes, ModelAnswers, ModelRefuses, Step, Ask, UseTools

LEMMA EndType ==
    ASSUME TypeOK, NEW r \in Requests, NEW l \in {"llm_error", "tool_error"}, Fail(r, l)
    PROVE  TypeOK'
  BY DEF TypeOK, Fail, Goto, StoreTypeOK, storeVars, LocalTypeOK, Locals, PCs, Ended

LEMMA EndOwnership ==
    ASSUME TypeOK, Ownership, NEW r \in Requests, NEW l \in {"llm_error", "tool_error"},
           Fail(r, l)
    PROVE  Ownership'
<1>1. l \in Ended \ {"forbidden"}
  BY DEF Ended
<1> QED  BY <1>1, QuietOwnership DEF Fail

LEMMA ANextKeeps == TypeOK /\ Ownership /\ [ANext]_agentVars => TypeOK' /\ Ownership'
<1> SUFFICES ASSUME TypeOK, Ownership, [ANext]_agentVars
             PROVE  TypeOK' /\ Ownership'
  OBVIOUS
<1>1. CASE \E r \in Requests : AStep(r)
  <2>1. PICK r \in Requests : AStep(r)
    BY <1>1
  <2>2. CASE Step(r)
    BY <2>2, NextType, NextOwnership DEF Next
  <2>3. CASE Fail(r, "llm_error") \/ Fail(r, "tool_error")
    BY <2>3, EndType, EndOwnership
  <2> QED  BY <2>1, <2>2, <2>3, AStepKinds
<1>2. CASE Pass \/ UNCHANGED vars
  BY <1>2, NextType, NextOwnership DEF Next
<1> QED  BY <1>1, <1>2 DEF ANext, AllEnded, agentVars

\* Until the owner key expires, a session and the prompts made of it hold its
\* owner's messages only, whatever provider answers and whatever its tools raise.
THEOREM AgentIsolation == ASpec => []SessionIsolation
<1>1. AInit => TypeOK /\ Ownership
  BY InitType, InitOwnership DEF AInit
<1> QED  BY <1>1, ANextKeeps, PTL DEF ASpec, Ownership

-----------------------------------------------------------------------------
(***************************************************************************)
(* Trims and responses.  A request that ends at a model or a tool touches  *)
(* no list and is neither at its trim nor completed.                       *)
(***************************************************************************)

\* The steps of the agent that are no steps of the execution path.
Ends(r) ==
    \/ pc[r] \in ModelPCs /\ Fail(r, "llm_error")
    \/ pc[r] = "tool" /\ Fail(r, "tool_error")

LEMMA AStepEnds ==
    ASSUME [ANext]_agentVars
    PROVE  [Next]_vars \/ \E r \in Requests : Ends(r)
<1>1. ASSUME NEW r \in Requests, AStep(r)
      PROVE  Step(r) \/ Ends(r)
  BY <1>1 DEF AStep, Rest, ToolReturns, ModelAnswers, ModelRefuses, ToolEscapes, Step, Ask,
     UseTools, Ends
<1> QED  BY <1>1 DEF ANext, AllEnded, agentVars, Next

LEMMA EndIsLocal ==
    ASSUME TypeOK, NEW r \in Requests, Ends(r)
    PROVE  /\ UNCHANGED storeVars
           /\ prompt' = prompt /\ calls' = calls /\ answered' = answered /\ total' = total
           /\ response' = response
           /\ pc[r] \in InFlight /\ pc'[r] \in {"llm_error", "tool_error"}
           /\ \A q \in Requests \ {r} : pc'[q] = pc[q]
  BY DEF Ends, Fail, Goto, TypeOK, LocalTypeOK, InFlight, Admitted, ModelPCs

LEMMA EndKeepsSerial ==
    ASSUME SerialInv, NEW r \in Requests, Ends(r)
    PROVE  SerialInv'
<1> USE DEF SerialInv
<1>1. TypeOK'
  BY EndType DEF Ends
<1>2. Alone' /\ Measured'
  BY EndIsLocal DEF storeVars, Alone, Measured, InFlight, Admitted, StorePCs, OwnerPCs, RecordPCs,
     TrimPCs, ReportPCs, ModelPCs
<1> QED  BY <1>1, <1>2

LEMMA EndKeepsClosing ==
    ASSUME ClosingInv, NEW r \in Requests, Ends(r)
    PROVE  ClosingInv'
<1> USE DEF ClosingInv, SerialInv
<1>1. NothingDue'
  BY EndIsLocal DEF storeVars, NothingDue
<1>2. Closing'
  BY EndIsLocal DEF storeVars, Closing, Closes, ClosingPCs, ReportPCs, TrimPCs
<1> QED  BY <1>1, <1>2, EndKeepsSerial

\* When the clients of a session wait for each answer, a trim leaves exactly the newest
\* messages, also after turns that a refused prompt or a raising tool has ended.
THEOREM AgentTrims ==
    ASSUME Serial
    PROVE  ASpec => TrimKeepsNewest
<1>1. SerialInv /\ [ANext]_agentVars => [\A r \in Requests : KeepsNewest(r)]_vars
  <2>1. SerialInv /\ [Next]_vars => \A r \in Requests : KeepsNewest(r)
    BY TrimsKeepNewest
  <2>2. SerialInv /\ (\E r \in Requests : Ends(r)) => \A r \in Requests : KeepsNewest(r)
    BY EndIsLocal DEF storeVars, SerialInv, KeepsNewest
  <2> QED  BY <2>1, <2>2, AStepEnds
<1>2. SerialInv /\ [ANext]_agentVars => SerialInv'
  BY AStepEnds, NextSerial, EndKeepsSerial
<1>3. AInit => SerialInv
  BY InitSerial DEF AInit
<1> QED  BY <1>1, <1>2, <1>3, PTL DEF ASpec, TrimKeepsNewest, KeepsNewest

\* When they wait and no key expires in between, a completed response says how long the
\* list is, which is within its bound and ends with the answer.
THEOREM AgentResponds ==
    ASSUME Serial, Horizon < TTL
    PROVE  ASpec => ResponseMatchesStore
<1> DEFINE Truth(r) ==
             pc[r] # "completed" /\ pc'[r] = "completed"
               => /\ response'[r].message_count = Len(messages[Session(r)])
                  /\ response'[r].message_count \in 1..MaxMessages
                  /\ messages[Session(r)][Len(messages[Session(r)])] = AssistantMessage(r)
<1>1. ClosingInv /\ [ANext]_agentVars => [\A r \in Requests : Truth(r)]_vars
  <2>1. ClosingInv /\ [Next]_vars => \A r \in Requests : Truth(r)
    BY CompletesTruly
  <2>2. ASSUME ClosingInv, NEW q \in Requests, Ends(q), NEW r \in Requests,
               pc[r] # "completed"
        PROVE  pc'[r] # "completed"
    BY <2>2, EndIsLocal DEF ClosingInv, SerialInv
  <2> QED  BY <2>1, <2>2, AStepEnds
<1>2. ClosingInv /\ [ANext]_agentVars => ClosingInv'
  BY AStepEnds, NextClosing, EndKeepsClosing
<1>3. AInit => ClosingInv
  BY InitClosing DEF AInit
<1> QED  BY <1>1, <1>2, <1>3, PTL DEF ASpec, ResponseMatchesStore

-----------------------------------------------------------------------------
(***************************************************************************)
(* A prompt is refused only where a tool has raised: the turns of the      *)
(* agent keep lists and prompts chained (Prompt_proofs), also those that   *)
(* a refused prompt or an escaped exception ends.                          *)
(***************************************************************************)

\* A refused prompt and an escaped exception end a turn as a failing model and a
\* raising tool do.
LEMMA EndKeepsSound ==
    ASSUME SoundInv, NEW r \in Requests, Ends(r)
    PROVE  SoundInv'
<1> USE DEF SoundInv, SerialInv, PromptInv
<1>1. /\ messages' = messages /\ prompt' = prompt /\ calls' = calls /\ answered' = answered
      /\ pc[r] \in InFlight /\ pc'[r] \in {"llm_error", "tool_error"}
      /\ \A q \in Requests \ {r} : pc'[q] = pc[q]
  BY EndIsLocal DEF storeVars
<1>2. SerialInv' /\ Sound'
  BY EndKeepsSerial, EndSound DEF Ends
<1>3. OnceStored'
  BY <1>1 DEF OnceStored, AtMostOnce, Lacks, Marks, Before
<1>4. OncePrompted'
  BY <1>1 DEF OncePrompted, AtMostOnce, Lacks, Marks, Undeclared
<1>5. ASSUME NEW q \in Requests
      PROVE  Asked(q)' /\ Answering(q)'
  <2>1. CASE q = r
    BY <1>1, <2>1 DEF Asked, Answering, Undeclared, LoopPCs, Ends
  <2>2. CASE q # r
    BY <1>1, <2>2 DEF Asked, Answering, Answered, Undeclared, LoopPCs
  <2> QED  BY <2>1, <2>2
<1> QED  BY <1>2, <1>3, <1>4, <1>5

\* So the agent keeps what the execution path keeps.
LEMMA ANextSound ==
    ASSUME Serial, Faults \cap {"store", "crash"} = {}
    PROVE  SoundInv /\ [ANext]_agentVars => SoundInv'
  BY AStepEnds, NextSound, EndKeepsSound

\* With one request at a time and no store command or process lost, OpenAI's model
\* refuses a prompt only of a session in which a tool has raised, whatever the turns
\* before have left of themselves in the list.
THEOREM OnlyToolsSpoil ==
    ASSUME Serial, Faults \cap {"store", "crash"} = {}, Created("openai"), ModelOwner = "openai"
    PROVE  ASpec => []OnlyToolErrorsSpoil
<1>1. AInit => SoundInv
  BY InitSound DEF AInit
<1>2. SoundInv /\ [ANext]_agentVars => SoundInv'
  BY ANextSound
<1>3. SoundInv => OnlyToolErrorsSpoil
  <2> SUFFICES ASSUME SoundInv, NEW r \in Requests, pc[r] \in ModelPCs, Unspoilt(Session(r))
               PROVE  Served(prompt[r])
    BY DEF OnlyToolErrorsSpoil, Unspoilt
  <2>1. Accepted(FormatMessages(prompt[r]))
    BY SoundAccepts
  <2>2. PromptAcceptedBy("openai", prompt[r])
    BY <2>1 DEF PromptAcceptedBy
  <2>3. "openai" \in ProviderNames
    BY DEF ProviderNames, Spellings
  <2> QED  BY <2>2, <2>3 DEF Served
<1> QED  BY <1>1, <1>2, <1>3, PTL DEF ASpec

=============================================================================
