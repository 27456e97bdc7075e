-------------------------- MODULE Execution_proofs --------------------------
(***************************************************************************)
(* Proofs about the execution path, for every number of requests, users    *)
(* and sessions and every value of the limits.                             *)
(***************************************************************************)
EXTENDS ExecutionProperties, TLAPS

USE DEF Session

-----------------------------------------------------------------------------
(***************************************************************************)
(* Types of the keys: each command keeps them.                             *)
(***************************************************************************)

LEMMA SetOwnerType ==
    ASSUME StoreTypeOK, NEW s \in Sessions, NEW u \in Users, SetOwner(s, u)
    PROVE  StoreTypeOK'
  BY StoreAssumption DEF StoreTypeOK, SetOwner, ExpireAt, Keys

LEMMA PushMessageType ==
    ASSUME StoreTypeOK, NEW s \in Sessions, NEW m \in Message, PushMessage(s, m)
    PROVE  StoreTypeOK'
  BY StoreAssumption DEF StoreTypeOK, PushMessage

LEMMA ExpireMessagesType ==
    ASSUME StoreTypeOK, NEW s \in Sessions, ExpireMessages(s)
    PROVE  StoreTypeOK'
  BY StoreAssumption DEF StoreTypeOK, ExpireMessages, ExpireAt, Keys

LEMMA PushToolRecordType ==
    ASSUME StoreTypeOK, NEW s \in Sessions, PushToolRecord(s)
    PROVE  StoreTypeOK'
  BY StoreAssumption DEF StoreTypeOK, PushToolRecord

LEMMA ExpireToolHistoryType ==
    ASSUME StoreTypeOK, NEW s \in Sessions, ExpireToolHistory(s)
    PROVE  StoreTypeOK'
  BY StoreAssumption DEF StoreTypeOK, ExpireToolHistory, ExpireAt, Keys

LEMMA TrimMessagesType ==
    ASSUME StoreTypeOK, NEW s \in Sessions, NEW t \in Nat, NEW k \in Nat, t > k,
           TrimMessages(s, t, k)
    PROVE  StoreTypeOK'
  BY StoreAssumption DEF StoreTypeOK, TrimMessages, Keys, Never

LEMMA TickType ==
    ASSUME StoreTypeOK, Tick
    PROVE  StoreTypeOK'
  BY StoreAssumption DEF StoreTypeOK, Tick, Keys, Never, Due

-----------------------------------------------------------------------------
(***************************************************************************)
(* Types of the locals.                                                    *)
(***************************************************************************)

LEMMA MessageTypes ==
    ASSUME NEW r \in Requests
    PROVE  /\ SystemMessage(r) \in Message
           /\ UserMessage(r) \in Message
           /\ AssistantMessage(r) \in Message
           /\ \A k \in 0..MaxToolCalls : ToolCallsMessage(r, k) \in Message
           /\ \A k \in 0..MaxToolCalls : ToolMessage(r, k) \in Message
  BY ExecutionAssumption DEF Message, Roles, SystemMessage, UserMessage,
     AssistantMessage, ToolCallsMessage, ToolMessage

LEMMA InitType == Init => TypeOK
  BY StoreAssumption, ExecutionAssumption
     DEF Init, StoreInit, TypeOK, StoreTypeOK, LocalTypeOK, Locals, PCs, Never, Keys

LEMMA AdmitType ==
    ASSUME TypeOK, NEW r \in Requests, Admit(r)
    PROVE  TypeOK'
<1> USE ExecutionAssumption DEF TypeOK, Goto, Reply
<1> Session(r) \in Sessions /\ UserOf[r] \in Users
  OBVIOUS
<1>1. CASE Start(r)
  BY <1>1 DEF Start, StoreTypeOK, storeVars, LocalTypeOK, Locals, PCs, InFlight, OwnerPCs
<1>2. CASE BindOwner(r)
  <2>1. StoreTypeOK'
    BY <1>2, SetOwnerType DEF BindOwner, StoreTypeOK, storeVars
  <2>2. LocalTypeOK' /\ Locals'
    BY <1>2 DEF BindOwner, LocalTypeOK, Locals, PCs, InFlight, OwnerPCs, Admitted, Ended,
       StorePCs, RecordPCs
  <2> QED  BY <2>1, <2>2
<1>3. CASE VerifyOwner(r)
  BY <1>3 DEF VerifyOwner, OwnerVerdict, StoreTypeOK, storeVars, LocalTypeOK, Locals,
     PCs, InFlight, OwnerPCs, Admitted, Ended, StorePCs, RecordPCs
<1> QED  BY <1>1, <1>2, <1>3 DEF Admit

LEMMA AskType ==
    ASSUME TypeOK, NEW r \in Requests, Ask(r)
    PROVE  TypeOK'
<1> USE ExecutionAssumption DEF TypeOK, Goto, Reply
<1>0. Session(r) \in Sessions
  OBVIOUS
<1>1. CASE LoadHistory(r)
  <2>1. AssembleMessages(messages[Session(r)], r) \in Seq(Message)
    <3>1. messages[Session(r)] \in Seq(Message)
      BY <1>0 DEF StoreTypeOK
    <3> QED  BY <3>1, MessageTypes DEF AssembleMessages
  <2>2. prompt' \in [Requests -> Seq(Message)]
    BY <1>1, <2>1 DEF LoadHistory, LocalTypeOK
  <2> QED
    BY <1>1, <2>2 DEF LoadHistory, StoreTypeOK, storeVars, LocalTypeOK, Locals, PCs, InFlight,
       Admitted, StorePCs, RecordPCs
<1>2. CASE PushTask(r)
  <2>1. StoreTypeOK'
    BY <1>0, <1>2, PushMessageType, MessageTypes DEF PushTask, Push
  <2> QED
    BY <1>2, <2>1 DEF PushTask, Push, LocalTypeOK, Locals, PCs, InFlight,
       Admitted, StorePCs, RecordPCs, Ended
<1>3. CASE ExpireTask(r)
  <2>1. StoreTypeOK'
    BY <1>0, <1>3, ExpireMessagesType DEF ExpireTask, Expire
  <2> QED
    BY <1>3, <2>1 DEF ExpireTask, Expire, LocalTypeOK, Locals, PCs, InFlight,
       Admitted, ModelPCs, Ended
<1>4. CASE FirstReply(r)
  <2> PICK n \in 0..MaxReplyCalls :
        /\ calls' = [calls EXCEPT ![r] = Capped(n)]
        /\ Goto(r, IF n > 0 THEN "decl_push" ELSE "final_push")
    BY <1>4 DEF FirstReply
  <2>1. Capped(n) \in 0..MaxToolCalls /\ (n > 0 => Capped(n) > 0)
    BY DEF Capped
  <2> QED
    BY <1>4, <2>1 DEF FirstReply, StoreTypeOK, storeVars, LocalTypeOK, Locals, PCs, InFlight,
       Admitted, StorePCs, RecordPCs
<1> QED  BY <1>1, <1>2, <1>3, <1>4 DEF Ask

LEMMA UseToolsType ==
    ASSUME TypeOK, NEW r \in Requests, UseTools(r)
    PROVE  TypeOK'
<1> USE ExecutionAssumption DEF TypeOK, Goto, Reply
<1>0. Session(r) \in Sessions
  OBVIOUS
<1>a. Declaration(r) \in Message
  BY MessageTypes DEF Declaration, LocalTypeOK
<1>b. answered[r] < calls[r] => ToolAnswer(r) \in Message
  <2> SUFFICES ASSUME answered[r] < calls[r]
               PROVE  answered[r] + 1 \in 0..MaxToolCalls
    BY MessageTypes DEF ToolAnswer
  <2> QED  BY DEF LocalTypeOK
<1>1. CASE PushDeclaration(r)
  <2>1. StoreTypeOK'
    BY <1>0, <1>a, <1>1, PushMessageType DEF PushDeclaration, Push
  <2> QED
    BY <1>1, <2>1 DEF PushDeclaration, Push, LocalTypeOK, Locals, PCs, InFlight,
       Admitted, StorePCs, RecordPCs, Ended
<1>2. CASE ExpireDeclaration(r)
  <2>1. StoreTypeOK'
    BY <1>0, <1>2, ExpireMessagesType DEF ExpireDeclaration, Expire
  <2>2. prompt' \in [Requests -> Seq(Message)]
    BY <1>a, <1>2 DEF ExpireDeclaration, LocalTypeOK
  <2> QED
    BY <1>2, <2>1, <2>2 DEF ExpireDeclaration, Expire, LocalTypeOK, Locals, PCs, InFlight,
       Admitted, Ended
<1>3. CASE RunTool(r)
  BY <1>3 DEF RunTool, StoreTypeOK, storeVars, LocalTypeOK, Locals, PCs, InFlight,
     Admitted, StorePCs, RecordPCs
<1>4. CASE RecordToolCall(r)
  <2>1. StoreTypeOK'
    BY <1>0, <1>4, PushToolRecordType DEF RecordToolCall
  <2> QED
    BY <1>4, <2>1 DEF RecordToolCall, LocalTypeOK, Locals, PCs, InFlight,
       Admitted, StorePCs, RecordPCs, Ended
<1>5. CASE ExpireToolRecord(r)
  <2>1. StoreTypeOK'
    BY <1>0, <1>5, ExpireToolHistoryType DEF ExpireToolRecord
  <2> QED
    BY <1>5, <2>1 DEF ExpireToolRecord, LocalTypeOK, Locals, PCs, InFlight,
       Admitted, StorePCs, RecordPCs, Ended
<1>6. CASE PushToolAnswer(r)
  <2>1. ToolAnswer(r) \in Message
    BY <1>b, <1>6 DEF PushToolAnswer, Push, Locals
  <2>2. StoreTypeOK'
    BY <1>0, <1>6, <2>1, PushMessageType DEF PushToolAnswer, Push
  <2> QED
    BY <1>6, <2>2 DEF PushToolAnswer, Push, LocalTypeOK, Locals, PCs, InFlight,
       Admitted, StorePCs, RecordPCs, Ended
<1>7. CASE ExpireToolAnswer(r)
  <2>1. StoreTypeOK'
    BY <1>0, <1>7, ExpireMessagesType DEF ExpireToolAnswer, Expire
  <2>2. answered[r] < calls[r]
    BY <1>7 DEF ExpireToolAnswer, Expire, Locals
  <2>3. prompt' \in [Requests -> Seq(Message)]
    BY <1>b, <1>7, <2>2 DEF ExpireToolAnswer, LocalTypeOK
  <2>4. answered' \in [Requests -> 0..MaxToolCalls] /\ answered'[r] = answered[r] + 1
    BY <1>7, <2>2 DEF ExpireToolAnswer, LocalTypeOK
  <2> QED
    BY <1>7, <2>1, <2>2, <2>3, <2>4 DEF ExpireToolAnswer, Expire, LocalTypeOK, Locals, PCs,
       InFlight, Admitted, ModelPCs, Ended
<1>8. CASE SecondReply(r)
  BY <1>8 DEF SecondReply, StoreTypeOK, storeVars, LocalTypeOK, Locals, PCs, InFlight,
     Admitted, StorePCs, RecordPCs
<1> QED
  BY <1>1, <1>2, <1>3, <1>4, <1>5, <1>6, <1>7, <1>8 DEF UseTools

LEMMA FinishType ==
    ASSUME TypeOK, NEW r \in Requests, Finish(r)
    PROVE  TypeOK'
<1> USE ExecutionAssumption DEF TypeOK, Goto, Reply
<1>0. Session(r) \in Sessions /\ Len(messages[Session(r)]) \in Nat
  BY DEF StoreTypeOK
<1>1. CASE PushAnswer(r)
  <2>1. StoreTypeOK'
    BY <1>0, <1>1, PushMessageType, MessageTypes DEF PushAnswer, Push
  <2> QED
    BY <1>1, <2>1 DEF PushAnswer, Push, LocalTypeOK, Locals, PCs, InFlight,
       Admitted, StorePCs, RecordPCs, Ended
<1>2. CASE ExpireAnswer(r)
  <2>1. StoreTypeOK'
    BY <1>0, <1>2, ExpireMessagesType DEF ExpireAnswer, Expire
  <2> QED
    BY <1>2, <2>1 DEF ExpireAnswer, Expire, LocalTypeOK, Locals, PCs, InFlight,
       Admitted, StorePCs, TrimPCs, Ended
<1>3. CASE CheckTrim(r)
  BY <1>3 DEF CheckTrim, StoreTypeOK, storeVars, LocalTypeOK, Locals, PCs, InFlight,
     Admitted, StorePCs, TrimPCs, ReportPCs
<1>4. CASE ReadLength(r)
  BY <1>0, <1>4 DEF ReadLength, StoreTypeOK, storeVars, LocalTypeOK, Locals, PCs, InFlight,
     Admitted, StorePCs, TrimPCs, ReportPCs
<1>5. CASE Trim(r)
  <2>1. StoreTypeOK'
    BY <1>0, <1>5, TrimMessagesType DEF Trim, LocalTypeOK, Locals
  <2> QED
    BY <1>5, <2>1 DEF Trim, LocalTypeOK, Locals, PCs, InFlight,
       Admitted, StorePCs, ReportPCs, Ended
<1>6. CASE CountMessages(r)
  BY <1>0, <1>6 DEF CountMessages, StoreTypeOK, storeVars, LocalTypeOK, Locals, PCs, InFlight,
     Admitted, StorePCs, ReportPCs
<1>7. CASE Complete(r)
  <2>1. summary[Session(r)] \in BOOLEAN
    BY <1>0 DEF StoreTypeOK
  <2>2. response' \in [Requests -> [message_count : Nat, has_summary : BOOLEAN]]
    BY <1>7, <2>1 DEF Complete, LocalTypeOK
  <2> QED
    BY <1>7, <2>2 DEF Complete, StoreTypeOK, storeVars, LocalTypeOK, Locals, PCs, Ended
<1> QED
  BY <1>1, <1>2, <1>3, <1>4, <1>5, <1>6, <1>7 DEF Finish

LEMMA BreakType ==
    ASSUME TypeOK, NEW r \in Requests, Break(r)
    PROVE  TypeOK'
  BY DEF TypeOK, Break, StoreFails, ModelFails, ToolRaises, Crash, Fail, Goto,
     StoreTypeOK, storeVars, LocalTypeOK, Locals, PCs, Ended

LEMMA NextType == TypeOK /\ [Next]_vars => TypeOK'
<1> SUFFICES ASSUME TypeOK, [Next]_vars
             PROVE  TypeOK'
  OBVIOUS
<1>1. ASSUME NEW r \in Requests, Step(r)
      PROVE  TypeOK'
  BY <1>1, AdmitType, AskType, UseToolsType, FinishType, BreakType DEF Step
<1>2. CASE Pass
  <2>1. StoreTypeOK'
    BY <1>2, TickType DEF Pass, TypeOK
  <2> QED  BY <1>2, <2>1 DEF Pass, TypeOK, localVars, LocalTypeOK, Locals
<1>3. CASE UNCHANGED vars
  BY <1>3 DEF TypeOK, vars, storeVars, localVars, StoreTypeOK, LocalTypeOK, Locals
<1> QED  BY <1>1, <1>2, <1>3 DEF Next, AllEnded

\* Every variable of the execution path stays in its type, the loop counter within
\* the capped number of calls and LTRIM's argument above the limit.
THEOREM TypeCorrect == Spec => []TypeOK
  BY InitType, NextType, PTL DEF Spec

\* Only Tick moves the clock, and no owner key expires but there.
LEMMA StepIsTimeless ==
    ASSUME NEW r \in Requests, Step(r)
    PROVE  now' = now /\ lapsed' = lapsed
<1> USE DEF storeVars
<1>1. CASE Admit(r)
  BY <1>1 DEF Admit, Start, BindOwner, SetOwner, VerifyOwner
<1>2. CASE Ask(r)
  BY <1>2 DEF Ask, LoadHistory, PushTask, Push, PushMessage, ExpireTask, Expire,
     ExpireMessages, FirstReply
<1>3. CASE UseTools(r)
  BY <1>3 DEF UseTools, PushDeclaration, ExpireDeclaration, RunTool, RecordToolCall,
     PushToolRecord, ExpireToolRecord, ExpireToolHistory, PushToolAnswer, ExpireToolAnswer,
     SecondReply, Push, PushMessage, Expire, ExpireMessages
<1>4. CASE Finish(r)
  BY <1>4 DEF Finish, PushAnswer, Push, PushMessage, ExpireAnswer, Expire, ExpireMessages,
     CheckTrim, ReadLength, Trim, TrimMessages, CountMessages, Complete
<1>5. CASE Break(r)
  BY <1>5 DEF Break, StoreFails, ModelFails, ToolRaises, Crash, Fail
<1> QED  BY <1>1, <1>2, <1>3, <1>4, <1>5 DEF Step

-----------------------------------------------------------------------------
(***************************************************************************)
(* Ownership.  Nothing but SET NX and the clock changes the owner; a       *)
(* request gets past the check only as the owner; and all that is stored   *)
(* or put into a prompt is either its own or was stored before.            *)
(***************************************************************************)

LEMMA WrittenAppend ==
    ASSUME NEW list \in Seq(Message), NEW m \in Message, NEW u,
           WrittenBy(list, u), UserOf[m.by] = u
    PROVE  WrittenBy(Append(list, m), u)
  BY DEF WrittenBy

LEMMA WrittenSuffix ==
    ASSUME NEW list \in Seq(Message), NEW n \in Nat, NEW u, WrittenBy(list, u)
    PROVE  WrittenBy(SubSeq(list, n + 1, Len(list)), u)
  BY DEF WrittenBy

LEMMA WrittenAssembled ==
    ASSUME NEW list \in Seq(Message), NEW r \in Requests, WrittenBy(list, UserOf[r])
    PROVE  WrittenBy(AssembleMessages(list, r), UserOf[r])
<1> DEFINE whole == <<SystemMessage(r)>> \o list \o <<UserMessage(r)>>
<1>1. whole \in Seq(Message) /\ Len(whole) = Len(list) + 2
  BY MessageTypes
<1>2. ASSUME NEW i \in 1..Len(whole)
      PROVE  UserOf[whole[i].by] = UserOf[r]
  <2>1. CASE i = 1
    BY <2>1 DEF SystemMessage
  <2>2. CASE i \in 2..(Len(list) + 1)
    <3>1. whole[i] = list[i - 1]
      BY <1>1, <2>2, MessageTypes
    <3> QED  BY <2>2, <3>1 DEF WrittenBy
  <2>3. CASE i = Len(list) + 2
    <3>1. whole[i] = UserMessage(r)
      BY <1>1, <2>3, MessageTypes
    <3> QED  BY <3>1 DEF UserMessage
  <2> QED  BY <1>1, <1>2, <2>1, <2>2, <2>3
<1> QED  BY <1>2 DEF WrittenBy, AssembleMessages

\* What a step of r that leaves the owner alone has to show.
Kept(r) ==
    /\ \A q \in Requests \ {r} : pc'[q] = pc[q] /\ prompt'[q] = prompt[q]
    /\ \A s \in Sessions \ {Session(r)} : messages'[s] = messages[s]
    /\ owner' = owner
    /\ lapsed' = lapsed
    /\ ~lapsed[Session(r)] =>
          /\ WrittenBy(messages'[Session(r)], owner[Session(r)])
          /\ WrittenBy(prompt'[r], UserOf[r])
          /\ pc'[r] \in Admitted => UserOf[r] = owner[Session(r)]
          /\ pc'[r] = "forbidden" => owner[Session(r)] \notin {NoOwner, UserOf[r]}
          /\ pc'[r] = "verify" => owner[Session(r)] # NoOwner

LEMMA KeptOwnership ==
    ASSUME TypeOK, Ownership, NEW r \in Requests, Kept(r)
    PROVE  Ownership'
<1>1. SessionIsolation'
  <2> SUFFICES ASSUME NEW s \in Sessions, ~lapsed'[s]
               PROVE  /\ WrittenBy(messages'[s], owner'[s])
                      /\ \A q \in Requests : Session(q) = s =>
                            /\ pc'[q] \in Admitted => UserOf[q] = owner'[s]
                            /\ WrittenBy(prompt'[q], UserOf[q])
    BY DEF SessionIsolation, WrittenBy
  <2>1. WrittenBy(messages'[s], owner'[s])
    BY DEF Kept, Ownership, SessionIsolation
  <2>2. ASSUME NEW q \in Requests, Session(q) = s
        PROVE  /\ pc'[q] \in Admitted => UserOf[q] = owner'[s]
               /\ WrittenBy(prompt'[q], UserOf[q])
    BY <2>2 DEF Kept, Ownership, SessionIsolation
  <2> QED  BY <2>1, <2>2
<1>2. RefusedOnlyStrangers' /\ VerifyFindsOwner'
  BY DEF Kept, Ownership, RefusedOnlyStrangers, VerifyFindsOwner
<1> QED  BY <1>1, <1>2 DEF Ownership

\* The facts of the state before that the steps below start from.
LEMMA OwnedBefore ==
    ASSUME TypeOK, Ownership, NEW r \in Requests, ~lapsed[Session(r)]
    PROVE  /\ Session(r) \in Sessions
           /\ messages[Session(r)] \in Seq(Message)
           /\ prompt[r] \in Seq(Message)
           /\ WrittenBy(messages[Session(r)], owner[Session(r)])
           /\ WrittenBy(prompt[r], UserOf[r])
           /\ pc[r] \in Admitted => UserOf[r] = owner[Session(r)]
  BY ExecutionAssumption
     DEF TypeOK, StoreTypeOK, LocalTypeOK, Ownership, SessionIsolation

\* Steps that change neither the store nor the prompt.
LEMMA QuietOwnership ==
    ASSUME TypeOK, Ownership, NEW r \in Requests, UNCHANGED <<storeVars, prompt>>,
           NEW l, Goto(r, l),
           \/ l \in Ended \ {"forbidden"}
           \/ l = "bind"
           \/ l \in Admitted /\ pc[r] \in Admitted
           \/ l = "verify" /\ owner[Session(r)] # NoOwner
           \/ pc[r] = "verify" /\ l = OwnerVerdict(r)
    PROVE  Ownership'
<1>1. pc'[r] = l /\ \A q \in Requests \ {r} : pc'[q] = pc[q]
  BY DEF TypeOK, LocalTypeOK, Goto
<1>2. Kept(r)
  BY <1>1, OwnedBefore DEF Kept, storeVars, OwnerVerdict, Ownership, VerifyFindsOwner,
     Ended, Admitted, StorePCs, OwnerPCs, RecordPCs, TrimPCs, ReportPCs, ModelPCs
<1> QED  BY <1>2, KeptOwnership

\* append_message appends a message of r's own.
LEMMA PushOwnership ==
    ASSUME TypeOK, Ownership, NEW r \in Requests, NEW from \in Admitted, NEW to \in Admitted,
           NEW m \in Message, m.by = r, Push(r, from, m, to)
    PROVE  Ownership'
<1>1. /\ pc'[r] \in Admitted \cup {"store_error"}
      /\ \A q \in Requests \ {r} : pc'[q] = pc[q]
  BY DEF TypeOK, LocalTypeOK, Push, Reply, Goto
<1>2. ~lapsed[Session(r)] => WrittenBy(messages'[Session(r)], owner[Session(r)])
  <2> SUFFICES ASSUME ~lapsed[Session(r)]
               PROVE  WrittenBy(Append(messages[Session(r)], m), owner[Session(r)])
    BY ExecutionAssumption DEF Push, PushMessage, TypeOK, StoreTypeOK
  <2> QED  BY OwnedBefore, WrittenAppend DEF Push
<1>3. Kept(r)
  BY <1>1, <1>2, OwnedBefore DEF Kept, Push, PushMessage, TypeOK, StoreTypeOK,
     Admitted, StorePCs, OwnerPCs, RecordPCs, TrimPCs, ReportPCs, ModelPCs
<1> QED  BY <1>3, KeptOwnership

\* EXPIRE, after which r may have added a message of its own to the prompt.
LEMMA ExpireOwnership ==
    ASSUME TypeOK, Ownership, NEW r \in Requests, NEW from \in Admitted, NEW to \in Admitted,
           Expire(r, from, to),
           NEW m \in Message, m.by = r,
           prompt' = prompt \/ prompt' = [prompt EXCEPT ![r] = Append(@, m)]
    PROVE  Ownership'
<1>1. /\ pc'[r] \in Admitted \cup {"store_error"}
      /\ \A q \in Requests \ {r} : pc'[q] = pc[q] /\ prompt'[q] = prompt[q]
  BY DEF TypeOK, LocalTypeOK, Expire, Reply, Goto
<1>2. ~lapsed[Session(r)] => WrittenBy(prompt'[r], UserOf[r])
  <2> SUFFICES ASSUME ~lapsed[Session(r)]
               PROVE  WrittenBy(prompt'[r], UserOf[r])
    OBVIOUS
  <2>1. CASE prompt' = prompt
    BY <2>1, OwnedBefore
  <2>2. CASE prompt' = [prompt EXCEPT ![r] = Append(@, m)]
    <3>1. prompt'[r] = Append(prompt[r], m)
      BY <2>2 DEF TypeOK, LocalTypeOK
    <3>2. /\ prompt[r] \in Seq(Message) /\ WrittenBy(prompt[r], UserOf[r])
          /\ UserOf[m.by] = UserOf[r]
      BY OwnedBefore
    <3>3. WrittenBy(Append(prompt[r], m), UserOf[r])
      BY <3>2, WrittenAppend
    <3> QED  BY <3>1, <3>3
  <2> QED  BY <2>1, <2>2
<1>3. Kept(r)
  BY <1>1, <1>2, OwnedBefore DEF Kept, Expire, ExpireMessages,
     Admitted, StorePCs, OwnerPCs, RecordPCs, TrimPCs, ReportPCs, ModelPCs
<1> QED  BY <1>3, KeptOwnership

LEMMA AdmitOwnership ==
    ASSUME TypeOK, Ownership, NEW r \in Requests, Admit(r)
    PROVE  Ownership'
<1>1. CASE Start(r)
  BY <1>1, QuietOwnership DEF Start
<1>2. CASE BindOwner(r)
  <2>1. CASE SetOwner(Session(r), UserOf[r])
    <3> USE ExecutionAssumption, StoreAssumption
    <3> DEFINE s == Session(r)
    <3>1. s \in Sessions /\ UserOf[r] \in Users /\ owner[s] = NoOwner
      BY <2>1 DEF SetOwner
    <3>2. /\ owner'[s] = UserOf[r] /\ \A t \in Sessions \ {s} : owner'[t] = owner[t]
          /\ UNCHANGED <<messages, lapsed, prompt>>
      BY <1>2, <2>1 DEF SetOwner, BindOwner, TypeOK, StoreTypeOK
    <3>3. /\ pc'[r] \in {"load", "store_error"}
          /\ \A q \in Requests \ {r} : pc'[q] = pc[q]
      BY <1>2, <2>1, <3>1 DEF BindOwner, Reply, Goto, TypeOK, LocalTypeOK
    <3>4. ~lapsed[s] => messages[s] = << >>
      <4> SUFFICES ASSUME ~lapsed[s], messages[s] # << >>
                   PROVE  FALSE
        OBVIOUS
      <4>1. messages[s] \in Seq(Message) /\ WrittenBy(messages[s], NoOwner)
        BY <3>1, OwnedBefore
      <4>2. 1 \in 1..Len(messages[s]) /\ messages[s][1] \in Message
        BY <4>1
      <4> QED  BY <4>1, <4>2 DEF WrittenBy, Message
    <3>5. SessionIsolation'
      <4> SUFFICES ASSUME NEW t \in Sessions, ~lapsed[t]
                   PROVE  /\ WrittenBy(messages[t], owner'[t])
                          /\ \A q \in Requests : Session(q) = t =>
                                /\ pc'[q] \in Admitted => UserOf[q] = owner'[t]
                                /\ WrittenBy(prompt[q], UserOf[q])
        BY <3>2 DEF SessionIsolation, WrittenBy
      <4>1. WrittenBy(messages[t], owner'[t])
        <5>1. CASE t = s
          BY <3>4, <5>1 DEF WrittenBy
        <5>2. CASE t # s
          BY <3>2, <5>2 DEF Ownership, SessionIsolation
        <5> QED  BY <5>1, <5>2
      <4>2. ASSUME NEW q \in Requests, Session(q) = t
            PROVE  /\ pc'[q] \in Admitted => UserOf[q] = owner'[t]
                   /\ WrittenBy(prompt[q], UserOf[q])
        BY <3>1, <3>2, <3>3, <4>2 DEF Ownership, SessionIsolation,
           Admitted, StorePCs, OwnerPCs, RecordPCs, TrimPCs, ReportPCs, ModelPCs
      <4> QED  BY <4>1, <4>2
    <3>6. RefusedOnlyStrangers' /\ VerifyFindsOwner'
      BY <3>1, <3>2, <3>3 DEF Ownership, RefusedOnlyStrangers, VerifyFindsOwner
    <3> QED  BY <3>5, <3>6 DEF Ownership
  <2>2. CASE owner[Session(r)] # NoOwner /\ Goto(r, "verify") /\ UNCHANGED storeVars
    BY <1>2, <2>2, QuietOwnership DEF BindOwner
  <2> QED  BY <1>2, <2>1, <2>2 DEF BindOwner
<1>3. CASE VerifyOwner(r)
  BY <1>3, QuietOwnership DEF VerifyOwner
<1> QED  BY <1>1, <1>2, <1>3 DEF Admit

LEMMA AskOwnership ==
    ASSUME TypeOK, Ownership, NEW r \in Requests, Ask(r)
    PROVE  Ownership'
<1> USE DEF Admitted, StorePCs, OwnerPCs, RecordPCs, TrimPCs, ReportPCs, ModelPCs
<1>1. CASE LoadHistory(r)
  <2>1. /\ pc'[r] = "user_push" /\ pc[r] = "load"
        /\ prompt'[r] = AssembleMessages(messages[Session(r)], r)
        /\ \A q \in Requests \ {r} : pc'[q] = pc[q] /\ prompt'[q] = prompt[q]
    BY <1>1 DEF LoadHistory, Goto, TypeOK, LocalTypeOK
  <2>2. ~lapsed[Session(r)] => WrittenBy(prompt'[r], UserOf[r])
    BY <2>1, OwnedBefore, WrittenAssembled
  <2>3. Kept(r)
    BY <1>1, <2>1, <2>2, OwnedBefore DEF Kept, LoadHistory, storeVars
  <2> QED  BY <2>3, KeptOwnership
<1>2. CASE PushTask(r)
  BY <1>2, PushOwnership, MessageTypes DEF PushTask, UserMessage
<1>3. CASE ExpireTask(r)
  BY <1>3, ExpireOwnership, MessageTypes DEF ExpireTask, UserMessage
<1>4. CASE FirstReply(r)
  <2>1. PICK l \in {"decl_push", "final_push"} : Goto(r, l)
    BY <1>4 DEF FirstReply
  <2> QED  BY <1>4, <2>1, QuietOwnership DEF FirstReply
<1> QED  BY <1>1, <1>2, <1>3, <1>4 DEF Ask

LEMMA UseToolsOwnership ==
    ASSUME TypeOK, Ownership, NEW r \in Requests, UseTools(r)
    PROVE  Ownership'
<1> USE DEF Admitted, StorePCs, OwnerPCs, RecordPCs, TrimPCs, ReportPCs, ModelPCs
<1>a. Declaration(r) \in Message /\ Declaration(r).by = r
  BY MessageTypes DEF Declaration, ToolCallsMessage, TypeOK, LocalTypeOK
<1>b. pc[r] \in {"tool_push", "tool_expire"} => ToolAnswer(r) \in Message /\ ToolAnswer(r).by = r
  <2> SUFFICES ASSUME pc[r] \in {"tool_push", "tool_expire"}
               PROVE  answered[r] + 1 \in 0..MaxToolCalls
    BY MessageTypes DEF ToolAnswer, ToolMessage
  <2> QED  BY ExecutionAssumption DEF TypeOK, LocalTypeOK, Locals
<1>1. CASE PushDeclaration(r)
  BY <1>1, <1>a, PushOwnership DEF PushDeclaration
<1>2. CASE ExpireDeclaration(r)
  BY <1>2, <1>a, ExpireOwnership DEF ExpireDeclaration
<1>3. CASE RunTool(r)
  BY <1>3, QuietOwnership DEF RunTool
<1>4. CASE RecordToolCall(r)
  <2>1. /\ pc'[r] \in Admitted \cup {"store_error"} /\ pc[r] \in Admitted
        /\ \A q \in Requests \ {r} : pc'[q] = pc[q]
    BY <1>4 DEF RecordToolCall, Reply, Goto, TypeOK, LocalTypeOK
  <2>2. Kept(r)
    BY <1>4, <2>1, OwnedBefore DEF Kept, RecordToolCall, PushToolRecord
  <2> QED  BY <2>2, KeptOwnership
<1>5. CASE ExpireToolRecord(r)
  <2>1. /\ pc'[r] \in Admitted \cup {"store_error"} /\ pc[r] \in Admitted
        /\ \A q \in Requests \ {r} : pc'[q] = pc[q]
    BY <1>5 DEF ExpireToolRecord, Reply, Goto, TypeOK, LocalTypeOK
  <2>2. Kept(r)
    BY <1>5, <2>1, OwnedBefore DEF Kept, ExpireToolRecord, ExpireToolHistory
  <2> QED  BY <2>2, KeptOwnership
<1>6. CASE PushToolAnswer(r)
  BY <1>6, <1>b, PushOwnership DEF PushToolAnswer, Push
<1>7. CASE ExpireToolAnswer(r)
  <2>1. PICK to \in {"tool", "llm2"} : Expire(r, "tool_expire", to)
    BY <1>7 DEF ExpireToolAnswer
  <2>2. prompt' = [prompt EXCEPT ![r] = Append(@, ToolAnswer(r))]
    BY <1>7 DEF ExpireToolAnswer
  <2>3. ToolAnswer(r) \in Message /\ ToolAnswer(r).by = r
    BY <1>b, <2>1 DEF Expire
  <2> QED  BY <2>1, <2>2, <2>3, ExpireOwnership
<1>8. CASE SecondReply(r)
  BY <1>8, QuietOwnership DEF SecondReply
<1> QED
  BY <1>1, <1>2, <1>3, <1>4, <1>5, <1>6, <1>7, <1>8 DEF UseTools

LEMMA FinishOwnership ==
    ASSUME TypeOK, Ownership, NEW r \in Requests, Finish(r)
    PROVE  Ownership'
<1> USE DEF Admitted, StorePCs, OwnerPCs, RecordPCs, TrimPCs, ReportPCs, ModelPCs
<1>1. CASE PushAnswer(r)
  BY <1>1, PushOwnership, MessageTypes DEF PushAnswer, AssistantMessage
<1>2. CASE ExpireAnswer(r)
  BY <1>2, ExpireOwnership, MessageTypes DEF ExpireAnswer, AssistantMessage
<1>3. CASE CheckTrim(r)
  <2>1. PICK l \in {"trim_llen", "count"} : Goto(r, l)
    BY <1>3 DEF CheckTrim
  <2> QED  BY <1>3, <2>1, QuietOwnership DEF CheckTrim
<1>4. CASE ReadLength(r)
  <2>1. PICK l \in {"trim_ltrim", "count"} : Goto(r, l)
    BY <1>4 DEF ReadLength
  <2> QED  BY <1>4, <2>1, QuietOwnership DEF ReadLength
<1>5. CASE Trim(r)
  <2>1. /\ pc'[r] \in Admitted \cup {"store_error"} /\ pc[r] \in Admitted
        /\ \A q \in Requests \ {r} : pc'[q] = pc[q]
    BY <1>5 DEF Trim, Reply, Goto, TypeOK, LocalTypeOK
  <2>2. /\ Session(r) \in Sessions /\ total[r] - MaxMessages \in Nat
    BY <1>5, ExecutionAssumption DEF Trim, TypeOK, LocalTypeOK, Locals
  <2>5. messages'[Session(r)]
          = SubSeq(messages[Session(r)], (total[r] - MaxMessages) + 1, Len(messages[Session(r)]))
    BY <1>5, <2>2 DEF Trim, TrimMessages, TypeOK, StoreTypeOK
  <2>3. ~lapsed[Session(r)] => WrittenBy(messages'[Session(r)], owner[Session(r)])
    BY <2>2, <2>5, OwnedBefore, WrittenSuffix
  <2>4. Kept(r)
    BY <1>5, <2>1, <2>3, OwnedBefore DEF Kept, Trim, TrimMessages, TypeOK, StoreTypeOK
  <2> QED  BY <2>4, KeptOwnership
<1>6. CASE CountMessages(r)
  BY <1>6, QuietOwnership DEF CountMessages
<1>7. CASE Complete(r)
  BY <1>7, QuietOwnership DEF Complete, Ended
<1> QED
  BY <1>1, <1>2, <1>3, <1>4, <1>5, <1>6, <1>7 DEF Finish

LEMMA BreakOwnership ==
    ASSUME TypeOK, Ownership, NEW r \in Requests, Break(r)
    PROVE  Ownership'
<1>1. PICK l \in Ended \ {"forbidden"} : Fail(r, l)
  BY DEF Break, StoreFails, ModelFails, ToolRaises, Crash, Ended
<1> QED  BY <1>1, QuietOwnership DEF Fail

LEMMA TickOwnership ==
    ASSUME TypeOK, Ownership, Pass
    PROVE  Ownership'
<1>1. /\ UNCHANGED <<pc, prompt>>
      /\ \A s \in Sessions : ~lapsed'[s] =>
            /\ ~lapsed[s]
            /\ owner'[s] = owner[s]
            /\ messages'[s] \in {messages[s], << >>}
  BY DEF Pass, Tick, localVars, TypeOK, StoreTypeOK
<1>2. SessionIsolation'
  <2> SUFFICES ASSUME NEW s \in Sessions, ~lapsed'[s]
               PROVE  /\ WrittenBy(messages'[s], owner'[s])
                      /\ \A q \in Requests : Session(q) = s =>
                            /\ pc[q] \in Admitted => UserOf[q] = owner'[s]
                            /\ WrittenBy(prompt[q], UserOf[q])
    BY <1>1 DEF SessionIsolation, WrittenBy
  <2>1. WrittenBy(<< >>, owner[s])
    BY DEF WrittenBy
  <2> QED  BY <1>1, <2>1 DEF Ownership, SessionIsolation
<1>3. RefusedOnlyStrangers' /\ VerifyFindsOwner'
  BY <1>1, ExecutionAssumption DEF Ownership, RefusedOnlyStrangers, VerifyFindsOwner
<1> QED  BY <1>2, <1>3 DEF Ownership

LEMMA NextOwnership == TypeOK /\ Ownership /\ [Next]_vars => Ownership'
<1> SUFFICES ASSUME TypeOK, Ownership, [Next]_vars
             PROVE  Ownership'
  OBVIOUS
<1>1. ASSUME NEW r \in Requests, Step(r)
      PROVE  Ownership'
  BY <1>1, AdmitOwnership, AskOwnership, UseToolsOwnership, FinishOwnership, BreakOwnership
     DEF Step
<1>2. CASE UNCHANGED vars
  BY <1>2 DEF vars, storeVars, localVars, Ownership, SessionIsolation, WrittenBy,
     RefusedOnlyStrangers, VerifyFindsOwner
<1> QED  BY <1>1, <1>2, TickOwnership DEF Next, AllEnded

LEMMA InitOwnership == Init => Ownership
  BY DEF Init, StoreInit, Ownership, SessionIsolation, WrittenBy, RefusedOnlyStrangers,
     VerifyFindsOwner, Admitted, StorePCs, OwnerPCs, RecordPCs, TrimPCs, ReportPCs, ModelPCs

THEOREM OwnershipHolds == Spec => []Ownership
  BY InitType, NextType, InitOwnership, NextOwnership, PTL DEF Spec

\* Until the owner key expires, a session holds its owner's messages only, and only
\* the owner's requests work on it, with prompts of the owner's messages.
THEOREM Isolation == Spec => []SessionIsolation
  BY OwnershipHolds, PTL DEF Ownership

\* Until the owner key expires, only a stranger to the session is refused.
THEOREM Refusals == Spec => []RefusedOnlyStrangers
  BY OwnershipHolds, PTL DEF Ownership

-----------------------------------------------------------------------------
(***************************************************************************)
(* The bound on the list, when nothing fails.  A request that pushes is    *)
(* then on its way to an LLEN; the LLEN it reads covers all that is there; *)
(* what others push between this LLEN and its LTRIM they will see in an    *)
(* LLEN of their own.                                                      *)
(***************************************************************************)

\* What a step of r has to show: r is on its way to a trim, or the list has not
\* grown and r has not left its trim undone.
Progress(r) ==
    /\ \A q \in Requests \ {r} : pc'[q] = pc[q] /\ total'[q] = total[q]
    /\ \A s \in Sessions \ {Session(r)} : messages'[s] = messages[s]
    /\ \/ pc'[r] \in BeforeLength
       \/ pc'[r] = "trim_ltrim" /\ Len(messages'[Session(r)]) <= total'[r]
       \/ /\ Len(messages'[Session(r)]) <= Len(messages[Session(r)])
          /\ WillTrim(r) => Len(messages'[Session(r)]) <= MaxMessages

LEMMA ProgressBound ==
    ASSUME TypeOK, TypeOK', OverlongIsTemporary, Faults = {}, NEW r \in Requests, Progress(r)
    PROVE  OverlongIsTemporary'
<1> SUFFICES ASSUME NEW s \in Sessions, Len(messages'[s]) > MaxMessages
             PROVE  \E q \in Requests :
                       /\ Session(q) = s
                       /\ \/ pc'[q] \in BeforeLength
                          \/ pc'[q] = "trim_ltrim" /\ Len(messages'[Session(q)]) <= total'[q]
  BY DEF OverlongIsTemporary, WillTrim
<1>0. /\ Len(messages[s]) \in Nat /\ Len(messages'[s]) \in Nat /\ MaxMessages \in Nat
      /\ \A q \in Requests : total[q] \in Nat
  <2>1. messages[s] \in Seq(Message) /\ messages'[s] \in Seq(Message)
    BY DEF TypeOK, StoreTypeOK
  <2>2. \A q \in Requests : total[q] \in Nat
    BY DEF TypeOK, LocalTypeOK
  <2> QED  BY <2>1, <2>2, ExecutionAssumption
<1>1. CASE Session(r) # s
  <2>1. messages'[s] = messages[s]
    BY <1>1 DEF Progress
  <2>2. PICK q \in Requests : Session(q) = s /\ WillTrim(q)
    BY <2>1 DEF OverlongIsTemporary
  <2> QED  BY <1>1, <2>1, <2>2 DEF Progress, WillTrim
<1>2. CASE Session(r) = s
  <2>1. CASE \/ pc'[r] \in BeforeLength
             \/ pc'[r] = "trim_ltrim" /\ Len(messages'[Session(r)]) <= total'[r]
    BY <1>2, <2>1
  <2>2. CASE /\ Len(messages'[Session(r)]) <= Len(messages[Session(r)])
             /\ WillTrim(r) => Len(messages'[Session(r)]) <= MaxMessages
    <3>1. Len(messages[s]) > MaxMessages
      BY <1>0, <1>2, <2>2
    <3>2. PICK q \in Requests : Session(q) = s /\ WillTrim(q)
      BY <3>1 DEF OverlongIsTemporary
    <3>3. q # r
      BY <1>0, <1>2, <2>2, <3>2
    <3>4. pc'[q] = pc[q] /\ total'[q] = total[q]
      BY <3>3 DEF Progress
    <3>5. ASSUME pc[q] = "trim_ltrim", Len(messages[s]) <= total[q]
          PROVE  Len(messages'[s]) <= total[q]
      BY <1>0, <1>2, <2>2, <3>5
    <3> QED  BY <3>2, <3>4, <3>5 DEF WillTrim
  <2> QED  BY <2>1, <2>2 DEF Progress
<1> QED  BY <1>1, <1>2

\* Steps that do not touch the list.
LEMMA StillProgress ==
    ASSUME TypeOK, Faults = {}, NEW r \in Requests, UNCHANGED <<messages, total>>,
           NEW l, Goto(r, l),
           \/ l \in BeforeLength
           \/ ~WillTrim(r)
           \/ Len(messages[Session(r)]) <= MaxMessages
    PROVE  Progress(r)
<1>1. pc'[r] = l /\ \A q \in Requests \ {r} : pc'[q] = pc[q]
  BY DEF TypeOK, LocalTypeOK, Goto
<1>2. Session(r) \in Sessions /\ Len(messages[Session(r)]) \in Nat
  BY ExecutionAssumption DEF TypeOK, StoreTypeOK
<1> QED  BY <1>1, <1>2 DEF Progress

\* A push leads into BeforeLength.
LEMMA PushProgress ==
    ASSUME TypeOK, Faults = {}, NEW r \in Requests, NEW from, NEW m,
           NEW to \in BeforeLength, Push(r, from, m, to)
    PROVE  Progress(r)
<1>1. pc'[r] = to /\ \A q \in Requests \ {r} : pc'[q] = pc[q]
  BY DEF TypeOK, LocalTypeOK, Push, Reply, Goto
<1> QED  BY <1>1 DEF Progress, Push, PushMessage, TypeOK, StoreTypeOK

LEMMA ExpireProgress ==
    ASSUME TypeOK, Faults = {}, NEW r \in Requests, NEW from,
           NEW to \in BeforeLength, Expire(r, from, to), total' = total
    PROVE  Progress(r)
  BY StillProgress DEF Expire, ExpireMessages, Reply

LEMMA StepProgress ==
    ASSUME TypeOK, Faults = {}, NEW r \in Requests, Step(r)
    PROVE  Progress(r)
<1> USE DEF BeforeLength, RecordPCs, ModelPCs
<1>0. /\ Session(r) \in Sessions /\ Len(messages[Session(r)]) \in Nat
      /\ MaxMessages \in Nat
  BY ExecutionAssumption DEF TypeOK, StoreTypeOK
<1>1. CASE Admit(r)
  <2>1. CASE Start(r)
    BY <2>1, StillProgress DEF Start, WillTrim, storeVars
  <2>2. CASE BindOwner(r)
    <3>1. PICK l \in {"load", "verify"} : Goto(r, l)
      BY <2>2 DEF BindOwner, Reply
    <3> QED  BY <2>2, <3>1, StillProgress DEF BindOwner, WillTrim, SetOwner, storeVars
  <2>3. CASE VerifyOwner(r)
    BY <2>3, StillProgress DEF VerifyOwner, WillTrim, storeVars
  <2> QED  BY <1>1, <2>1, <2>2, <2>3 DEF Admit
<1>2. CASE Ask(r)
  <2>1. CASE LoadHistory(r)
    BY <2>1, StillProgress DEF LoadHistory, WillTrim, storeVars
  <2>2. CASE PushTask(r)
    BY <2>2, PushProgress DEF PushTask
  <2>3. CASE ExpireTask(r)
    BY <2>3, ExpireProgress DEF ExpireTask
  <2>4. CASE FirstReply(r)
    <3>1. PICK l \in {"decl_push", "final_push"} : Goto(r, l)
      BY <2>4 DEF FirstReply
    <3> QED  BY <2>4, <3>1, StillProgress DEF FirstReply, storeVars
  <2> QED  BY <1>2, <2>1, <2>2, <2>3, <2>4 DEF Ask
<1>3. CASE UseTools(r)
  <2>1. CASE PushDeclaration(r) \/ PushToolAnswer(r)
    BY <2>1, PushProgress DEF PushDeclaration, PushToolAnswer
  <2>2. CASE ExpireDeclaration(r)
    BY <2>2, ExpireProgress DEF ExpireDeclaration
  <2>3. CASE RunTool(r) \/ SecondReply(r)
    BY <2>3, StillProgress DEF RunTool, SecondReply, storeVars
  <2>4. CASE RecordToolCall(r)
    BY <2>4, StillProgress DEF RecordToolCall, PushToolRecord, Reply
  <2>5. CASE ExpireToolRecord(r)
    BY <2>5, StillProgress DEF ExpireToolRecord, ExpireToolHistory, Reply
  <2>6. CASE ExpireToolAnswer(r)
    <3>1. PICK to \in {"tool", "llm2"} : Expire(r, "tool_expire", to)
      BY <2>6 DEF ExpireToolAnswer
    <3> QED  BY <2>6, <3>1, ExpireProgress DEF ExpireToolAnswer
  <2> QED  BY <1>3, <2>1, <2>2, <2>3, <2>4, <2>5, <2>6 DEF UseTools
<1>4. CASE Finish(r)
  <2>1. CASE PushAnswer(r)
    BY <2>1, PushProgress DEF PushAnswer
  <2>2. CASE ExpireAnswer(r)
    BY <2>2, ExpireProgress DEF ExpireAnswer
  <2>3. CASE CheckTrim(r)
    <3>1. PICK l : /\ Goto(r, l)
                   /\ l = "trim_llen" \/ Len(messages[Session(r)]) <= MaxMessages
      BY <1>0, <2>3 DEF CheckTrim
    <3> QED  BY <2>3, <3>1, StillProgress DEF CheckTrim, storeVars
  <2>4. CASE ReadLength(r)
    <3>1. CASE Len(messages[Session(r)]) > MaxMessages
      <4>1. /\ pc'[r] = "trim_ltrim" /\ total'[r] = Len(messages[Session(r)])
            /\ messages' = messages
            /\ \A q \in Requests \ {r} : pc'[q] = pc[q] /\ total'[q] = total[q]
        BY <2>4, <3>1 DEF ReadLength, Goto, storeVars, TypeOK, LocalTypeOK
      <4> QED  BY <1>0, <4>1 DEF Progress
    <3>2. CASE Len(messages[Session(r)]) <= MaxMessages
      <4>1. /\ pc'[r] = "count" /\ messages' = messages
            /\ \A q \in Requests \ {r} : pc'[q] = pc[q] /\ total'[q] = total[q]
        BY <1>0, <2>4, <3>2 DEF ReadLength, Goto, storeVars, TypeOK, LocalTypeOK
      <4> QED  BY <1>0, <3>2, <4>1 DEF Progress
    <3> QED  BY <1>0, <3>1, <3>2
  <2>5. CASE Trim(r)
    <3> DEFINE list == messages[Session(r)]
               start == total[r] - MaxMessages
    <3>1. start \in Nat \ {0} /\ total[r] = start + MaxMessages /\ list \in Seq(Message)
      BY <1>0, <2>5 DEF Trim, TypeOK, StoreTypeOK, LocalTypeOK, Locals
    <3>2. /\ messages'[Session(r)] = SubSeq(list, start + 1, Len(list))
          /\ \A s \in Sessions \ {Session(r)} : messages'[s] = messages[s]
      BY <1>0, <2>5 DEF Trim, TrimMessages, TypeOK, StoreTypeOK
    <3>3. Len(SubSeq(list, start + 1, Len(list)))
            = IF start + 1 <= Len(list) THEN Len(list) - start ELSE 0
      BY <3>1
    <3>4. /\ Len(messages'[Session(r)]) <= Len(list)
          /\ Len(list) <= total[r] => Len(messages'[Session(r)]) <= MaxMessages
      BY <1>0, <3>1, <3>2, <3>3
    <3>5. pc[r] = "trim_ltrim" /\ \A q \in Requests \ {r} : pc'[q] = pc[q] /\ total'[q] = total[q]
      BY <2>5 DEF Trim, Reply, Goto, TypeOK, LocalTypeOK
    <3> QED  BY <3>2, <3>4, <3>5 DEF Progress, WillTrim
  <2>6. CASE CountMessages(r)
    BY <2>6, StillProgress DEF CountMessages, WillTrim, storeVars
  <2>7. CASE Complete(r)
    BY <2>7, StillProgress DEF Complete, WillTrim, storeVars
  <2> QED  BY <1>4, <2>1, <2>2, <2>3, <2>4, <2>5, <2>6, <2>7 DEF Finish
<1>5. CASE Break(r)
  BY <1>5 DEF Break, StoreFails, ModelFails, ToolRaises, Crash
<1> QED  BY <1>1, <1>2, <1>3, <1>4, <1>5 DEF Step

LEMMA NextOverlong == TypeOK /\ TypeOK' /\ OverlongIsTemporary /\ [Next]_vars
                        => OverlongIsTemporary'
<1> SUFFICES ASSUME TypeOK, TypeOK', OverlongIsTemporary, [Next]_vars, Faults = {}
             PROVE  OverlongIsTemporary'
  BY DEF OverlongIsTemporary
<1>1. ASSUME NEW r \in Requests, Step(r)
      PROVE  OverlongIsTemporary'
  BY <1>1, StepProgress, ProgressBound
<1>2. CASE Pass
  <2>1. /\ UNCHANGED <<pc, total>>
        /\ \A s \in Sessions : messages'[s] \in {messages[s], << >>}
    BY <1>2 DEF Pass, Tick, localVars
  <2>2. \A s \in Sessions : Len(messages'[s]) > MaxMessages => messages'[s] = messages[s]
    BY <2>1, ExecutionAssumption
  <2> QED  BY <2>1, <2>2, ExecutionAssumption DEF OverlongIsTemporary, WillTrim
<1>3. CASE UNCHANGED vars
  BY <1>3 DEF vars, storeVars, localVars, OverlongIsTemporary, WillTrim
<1> QED  BY <1>1, <1>2, <1>3 DEF Next, AllEnded

LEMMA InitOverlong == Init => OverlongIsTemporary
  BY ExecutionAssumption DEF Init, StoreInit, OverlongIsTemporary

THEOREM OverlongHolds == Spec => []OverlongIsTemporary
  BY InitType, NextType, InitOverlong, NextOverlong, PTL DEF Spec

\* With nothing failing, the list of a session is within its bound whenever no
\* request is in flight on it, for every number of overlapping requests.
THEOREM Bound == Spec => []QuiescentBound
<1>1. TypeOK /\ OverlongIsTemporary => QuiescentBound
  <2> SUFFICES ASSUME TypeOK, OverlongIsTemporary
               PROVE  QuiescentBound
    OBVIOUS
  <2>0. \A s \in Sessions : Len(messages[s]) \in Nat
    <3> TAKE s \in Sessions
    <3> QED  BY DEF TypeOK, StoreTypeOK
  <2> SUFFICES ASSUME Faults = {}, NEW s \in Sessions, Len(messages[s]) > MaxMessages
               PROVE  \E r \in Requests : Session(r) = s /\ pc[r] \in InFlight
    BY <2>0, ExecutionAssumption DEF QuiescentBound
  <2>1. PICK r \in Requests : Session(r) = s /\ WillTrim(r)
    BY DEF OverlongIsTemporary
  <2> QED
    BY <2>1 DEF WillTrim, BeforeLength, InFlight, Admitted, StorePCs, OwnerPCs, RecordPCs,
       TrimPCs, ReportPCs, ModelPCs
<1> QED  BY <1>1, TypeCorrect, OverlongHolds, PTL

=============================================================================
