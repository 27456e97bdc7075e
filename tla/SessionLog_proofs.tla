-------------------------- MODULE SessionLog_proofs --------------------------
(***************************************************************************)
(* The execution path implements the session log, for every number of      *)
(* requests, users and sessions, every overlap and every fault.            *)
(***************************************************************************)
EXTENDS Execution_proofs

USE DEF Session

LEMMA InitRefines == Init => Log!Init
  BY DEF Init, StoreInit, Log!Init

LEMMA QuietRefines ==
    ASSUME UNCHANGED <<owner, messages, lapsed>>
    PROVE  [Log!Next]_(Log!logVars)
  BY DEF Log!logVars

\* A push is a message said by the holder.
LEMMA PushRefines ==
    ASSUME TypeOK, Ownership, NEW r \in Requests, NEW from \in Admitted, NEW to,
           NEW m \in Message, m.by = r, Push(r, from, m, to)
    PROVE  [Log!Next]_(Log!logVars)
<1>1. Session(r) \in Sessions /\ (owner[Session(r)] = UserOf[m.by] \/ lapsed[Session(r)])
  BY ExecutionAssumption, OwnedBefore DEF Push
<1>2. Log!Say(Session(r), m)
  BY <1>1 DEF Log!Say, Push, PushMessage
<1> QED  BY <1>1, <1>2 DEF Log!Next

\* EXPIRE says nothing.
LEMMA ExpireRefines ==
    ASSUME NEW r, NEW from, NEW to, Expire(r, from, to)
    PROVE  [Log!Next]_(Log!logVars)
  BY QuietRefines DEF Expire, ExpireMessages

\* An LTRIM forgets the oldest messages, all of them when it starts past the end.
LEMMA TrimMessagesRefines ==
    ASSUME TypeOK, NEW s \in Sessions, NEW t \in Nat, t > MaxMessages,
           TrimMessages(s, t, MaxMessages)
    PROVE  [Log!Next]_(Log!logVars)
<1> DEFINE list == messages[s]
           start == t - MaxMessages
<1>1. list \in Seq(Message) /\ start \in Nat \ {0}
  BY ExecutionAssumption DEF TypeOK, StoreTypeOK
<1>2. /\ messages' = [messages EXCEPT ![s] = SubSeq(list, start + 1, Len(list))]
      /\ UNCHANGED <<owner, lapsed>>
  BY DEF TrimMessages
<1>3. CASE start <= Len(list)
  <2>1. start \in 1..Len(list)
    BY <1>1, <1>3
  <2>2. Log!Forget(s, start)
    BY <1>2 DEF Log!Forget
  <2> QED  BY <1>1, <2>1, <2>2 DEF Log!Next
<1>4. CASE start > Len(list) /\ list # << >>
  <2>1. Len(list) \in 1..Len(list)
    BY <1>1, <1>4
  <2>2. SubSeq(list, start + 1, Len(list)) = SubSeq(list, Len(list) + 1, Len(list))
    <3>1. SubSeq(list, start + 1, Len(list)) = << >>
      BY <1>1, <1>4
    <3>2. SubSeq(list, Len(list) + 1, Len(list)) = << >>
      BY <1>1
    <3> QED  BY <3>1, <3>2
  <2>3. Log!Forget(s, Len(list))
    BY <1>2, <2>2 DEF Log!Forget
  <2> QED  BY <1>1, <2>1, <2>3 DEF Log!Next
<1>5. CASE list = << >>
  <2>1. SubSeq(list, start + 1, Len(list)) = list
    BY <1>1, <1>5
  <2>2. messages' = messages
    BY <1>1, <1>2, <2>1 DEF TypeOK, StoreTypeOK
  <2> QED  BY <1>2, <2>2, QuietRefines
<1> QED  BY <1>1, <1>3, <1>4, <1>5

LEMMA TrimRefines ==
    ASSUME TypeOK, NEW r \in Requests, Trim(r)
    PROVE  [Log!Next]_(Log!logVars)
<1>1. Session(r) \in Sessions /\ total[r] \in Nat /\ total[r] > MaxMessages
  BY ExecutionAssumption DEF Trim, TypeOK, LocalTypeOK, Locals
<1> QED  BY <1>1, TrimMessagesRefines DEF Trim

LEMMA TickRefines ==
    ASSUME Tick
    PROVE  [Log!Next]_(Log!logVars)
<1> DEFINE S == {s \in Sessions : Due("owner", s)}
           L == {s \in Sessions : Due("messages", s)}
<1>1. Log!Lapse(S, L)
  BY DEF Tick, Log!Lapse
<1> QED  BY <1>1 DEF Log!Next

LEMMA StepRefines ==
    ASSUME TypeOK, Ownership, NEW r \in Requests, Step(r)
    PROVE  [Log!Next]_(Log!logVars)
<1> USE DEF Admitted, StorePCs, OwnerPCs, RecordPCs, TrimPCs, ReportPCs, ModelPCs
<1>1. CASE BindOwner(r)
  <2>1. CASE SetOwner(Session(r), UserOf[r])
    <3>1. Log!Claim(Session(r), UserOf[r])
      BY <2>1 DEF SetOwner, Log!Claim
    <3> QED  BY <3>1, ExecutionAssumption DEF Log!Next
  <2>2. CASE UNCHANGED storeVars
    BY <2>2, QuietRefines DEF storeVars
  <2> QED  BY <1>1, <2>1, <2>2 DEF BindOwner
<1>2. CASE PushTask(r)
  BY <1>2, PushRefines, MessageTypes DEF PushTask, UserMessage
<1>3. CASE PushDeclaration(r)
  <2>1. Declaration(r) \in Message /\ Declaration(r).by = r
    BY MessageTypes DEF Declaration, ToolCallsMessage, TypeOK, LocalTypeOK
  <2> QED  BY <1>3, <2>1, PushRefines DEF PushDeclaration
<1>4. CASE PushToolAnswer(r)
  <2>1. answered[r] + 1 \in 0..MaxToolCalls
    BY <1>4, ExecutionAssumption DEF PushToolAnswer, Push, TypeOK, LocalTypeOK, Locals
  <2>2. ToolAnswer(r) \in Message /\ ToolAnswer(r).by = r
    BY <2>1, MessageTypes DEF ToolAnswer, ToolMessage
  <2> QED  BY <1>4, <2>2, PushRefines DEF PushToolAnswer
<1>5. CASE PushAnswer(r)
  BY <1>5, PushRefines, MessageTypes DEF PushAnswer, AssistantMessage
<1>6. CASE ExpireTask(r) \/ ExpireDeclaration(r) \/ ExpireToolAnswer(r) \/ ExpireAnswer(r)
  BY <1>6, ExpireRefines DEF ExpireTask, ExpireDeclaration, ExpireToolAnswer, ExpireAnswer
<1>7. CASE RecordToolCall(r) \/ ExpireToolRecord(r)
  BY <1>7, QuietRefines DEF RecordToolCall, ExpireToolRecord, PushToolRecord, ExpireToolHistory
<1>8. CASE \/ Start(r) \/ VerifyOwner(r) \/ LoadHistory(r) \/ FirstReply(r) \/ RunTool(r)
           \/ SecondReply(r) \/ CheckTrim(r) \/ ReadLength(r) \/ CountMessages(r)
           \/ Complete(r) \/ Break(r)
  BY <1>8, QuietRefines DEF Start, VerifyOwner, LoadHistory, FirstReply, RunTool, SecondReply,
     CheckTrim, ReadLength, CountMessages, Complete, Break, StoreFails, ModelFails, ToolRaises,
     Crash, Fail, storeVars
<1> QED
  BY <1>1, <1>2, <1>3, <1>4, <1>5, <1>6, <1>7, <1>8, TrimRefines
     DEF Step, Admit, Ask, UseTools, Finish

LEMMA NextRefines == TypeOK /\ Ownership /\ [Next]_vars => [Log!Next]_(Log!logVars)
<1> SUFFICES ASSUME TypeOK, Ownership, [Next]_vars
             PROVE  [Log!Next]_(Log!logVars)
  OBVIOUS
<1>1. CASE UNCHANGED vars
  BY <1>1, QuietRefines DEF vars, storeVars
<1> QED  BY <1>1, StepRefines, TickRefines DEF Next, Pass, AllEnded

\* Every behaviour of the execution path is one of the session log: claimed once,
\* appended to by the holder only, forgotten from the front only.
THEOREM Refinement == Spec => ImplementsSessionLog
  BY InitType, NextType, InitOwnership, NextOwnership, InitRefines, NextRefines, PTL
     DEF Spec, ImplementsSessionLog, Log!Spec

=============================================================================
