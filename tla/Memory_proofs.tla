---------------------------- MODULE Memory_proofs ----------------------------
(***************************************************************************)
(* What becomes of a session's keys over the turns of its requests: every  *)
(* key gets its TTL, a trim keeps the newest messages, a response tells    *)
(* the truth about the list, and the tool history keeps up with it.        *)
(***************************************************************************)
EXTENDS Execution_proofs, FiniteSetTheorems

USE DEF Session

-----------------------------------------------------------------------------
(***************************************************************************)
(* A request works on its own locals and on the keys of its session.       *)
(***************************************************************************)

\* What a step of r leaves alone.
Local(r) ==
    /\ \A q \in Requests \ {r} :
          /\ pc'[q] = pc[q] /\ calls'[q] = calls[q] /\ answered'[q] = answered[q]
          /\ total'[q] = total[q] /\ response'[q] = response[q] /\ prompt'[q] = prompt[q]
    /\ \A s \in Sessions \ {Session(r)} :
          /\ messages'[s] = messages[s] /\ toolHistory'[s] = toolHistory[s]
          /\ owner'[s] = owner[s]
          /\ \A k \in Keys : deadline'[k][s] = deadline[k][s]
    /\ summary' = summary

LEMMA StepIsLocal ==
    ASSUME TypeOK, NEW r \in Requests, Step(r)
    PROVE  Local(r)
<1> USE ExecutionAssumption
    DEF Local, TypeOK, StoreTypeOK, LocalTypeOK, Goto, Reply, storeVars, Keys, ExpireAt
<1>1. CASE Admit(r)
  <2>1. CASE Start(r) \/ VerifyOwner(r)
    BY <2>1 DEF Start, VerifyOwner
  <2>2. CASE BindOwner(r)
    <3>1. \A q \in Requests \ {r} : pc'[q] = pc[q]
      BY <2>2 DEF BindOwner
    <3>2. CASE SetOwner(Session(r), UserOf[r])
      BY <2>2, <3>1, <3>2 DEF BindOwner, SetOwner
    <3>3. CASE UNCHANGED storeVars
      BY <2>2, <3>1, <3>3 DEF BindOwner
    <3> QED  BY <2>2, <3>2, <3>3 DEF BindOwner
  <2> QED  BY <1>1, <2>1, <2>2 DEF Admit
<1>2. CASE Ask(r)
  <2>1. CASE LoadHistory(r) \/ FirstReply(r)
    BY <2>1 DEF LoadHistory, FirstReply
  <2>2. CASE PushTask(r)
    BY <2>2 DEF PushTask, Push, PushMessage
  <2>3. CASE ExpireTask(r)
    BY <2>3 DEF ExpireTask, Expire, ExpireMessages
  <2> QED  BY <1>2, <2>1, <2>2, <2>3 DEF Ask
<1>3. CASE UseTools(r)
  <2>1. CASE RunTool(r) \/ SecondReply(r)
    BY <2>1 DEF RunTool, SecondReply
  <2>2. CASE PushDeclaration(r) \/ PushToolAnswer(r)
    BY <2>2 DEF PushDeclaration, PushToolAnswer, Push, PushMessage
  <2>3. CASE ExpireDeclaration(r)
    BY <2>3 DEF ExpireDeclaration, Expire, ExpireMessages
  <2>4. CASE RecordToolCall(r)
    BY <2>4 DEF RecordToolCall, PushToolRecord
  <2>5. CASE ExpireToolRecord(r)
    BY <2>5 DEF ExpireToolRecord, ExpireToolHistory
  <2>6. CASE ExpireToolAnswer(r)
    BY <2>6 DEF ExpireToolAnswer, Expire, ExpireMessages
  <2> QED  BY <1>3, <2>1, <2>2, <2>3, <2>4, <2>5, <2>6 DEF UseTools
<1>4. CASE Finish(r)
  <2>1. CASE PushAnswer(r)
    BY <2>1 DEF PushAnswer, Push, PushMessage
  <2>2. CASE ExpireAnswer(r)
    BY <2>2 DEF ExpireAnswer, Expire, ExpireMessages
  <2>3. CASE CheckTrim(r) \/ ReadLength(r) \/ CountMessages(r) \/ Complete(r)
    BY <2>3 DEF CheckTrim, ReadLength, CountMessages, Complete
  <2>4. CASE Trim(r)
    BY <2>4 DEF Trim, TrimMessages
  <2> QED  BY <1>4, <2>1, <2>2, <2>3, <2>4 DEF Finish
<1>5. CASE Break(r)
  BY <1>5 DEF Break, StoreFails, ModelFails, ToolRaises, Crash, Fail
<1> QED  BY <1>1, <1>2, <1>3, <1>4, <1>5 DEF Step

-----------------------------------------------------------------------------
(***************************************************************************)
(* Every key gets its TTL, unless a store command or the process is lost   *)
(* between RPUSH and EXPIRE.                                               *)
(***************************************************************************)

LEMMA DeadlineIsATime ==
    ASSUME TypeOK
    PROVE  now \in Nat /\ now + TTL # Never
<1>1. now \in Nat
  <2>1. now \in 0..Horizon
    BY DEF TypeOK, StoreTypeOK
  <2> QED  BY <2>1, StoreAssumption
<1> QED  BY <1>1, StoreAssumption DEF Never

\* What a step of r must show of key k of its own session: it is gone, or has a
\* deadline, or r is about to set it; or nothing has happened to it, and r was not
\* the one to set it.
Timed(r, k) ==
    LET s == Session(r) IN
    \/ ~Has(k, s)'
    \/ deadline'[k][s] # Never
    \/ WillExpire(r, k)'
    \/ Has(k, s) /\ deadline[k][s] = Never /\ ~WillExpire(r, k)

LEMMA TimedKeysExpire ==
    ASSUME TypeOK, KeysExpire, NEW r \in Requests, Local(r), \A k \in Keys : Timed(r, k)
    PROVE  KeysExpire'
<1> SUFFICES ASSUME NEW k \in Keys, NEW s \in Sessions, Has(k, s)', deadline'[k][s] = Never
             PROVE  \E q \in Requests : Session(q) = s /\ WillExpire(q, k)'
  BY DEF KeysExpire
<1>1. \A q \in Requests \ {r} : WillExpire(q, k) => WillExpire(q, k)'
  BY DEF Local, WillExpire
<1>2. CASE s = Session(r)
  <2>1. WillExpire(r, k)' \/ (Has(k, s) /\ deadline[k][s] = Never /\ ~WillExpire(r, k))
    BY <1>2 DEF Timed
  <2>2. CASE Has(k, s) /\ deadline[k][s] = Never /\ ~WillExpire(r, k)
    <3>1. PICK q \in Requests : Session(q) = s /\ WillExpire(q, k)
      BY <2>2 DEF KeysExpire
    <3> QED  BY <1>1, <2>2, <3>1
  <2> QED  BY <1>2, <2>1, <2>2
<1>3. CASE s # Session(r)
  <2>1. Has(k, s) /\ deadline[k][s] = Never
    BY <1>3 DEF Local, Has, Keys
  <2>2. PICK q \in Requests : Session(q) = s /\ WillExpire(q, k)
    BY <2>1 DEF KeysExpire
  <2> QED  BY <1>1, <1>3, <2>2
<1> QED  BY <1>2, <1>3

\* A step that changes no key, of a request that was not about to set a TTL.
LEMMA QuietTimed ==
    ASSUME TypeOK, NEW r \in Requests, UNCHANGED storeVars,
           pc[r] \notin {"user_expire", "decl_expire", "tool_expire", "final_expire", "record_expire"},
           NEW k \in Keys
    PROVE  Timed(r, k)
  BY DEF Timed, Has, WillExpire, storeVars, Keys

\* RPUSH leads to EXPIRE.
LEMMA PushTimed ==
    ASSUME TypeOK, Faults \cap {"store", "crash"} = {}, NEW r \in Requests, NEW from, NEW m,
           NEW to \in {"user_expire", "decl_expire", "tool_expire", "final_expire"},
           from \in {"user_push", "decl_push", "tool_push", "final_push"},
           Push(r, from, m, to), NEW k \in Keys
    PROVE  Timed(r, k)
<1>1. /\ pc[r] = from /\ pc'[r] = to
      /\ UNCHANGED <<owner, toolHistory, summary, deadline>>
  BY DEF Push, PushMessage, Reply, Goto, TypeOK, LocalTypeOK
<1> QED  BY <1>1 DEF Timed, Has, WillExpire, Keys

\* EXPIRE leaves a list that has a deadline, or none.
LEMMA ExpireTimed ==
    ASSUME TypeOK, Faults \cap {"store", "crash"} = {}, NEW r \in Requests, NEW to,
           NEW from \in {"user_expire", "decl_expire", "tool_expire", "final_expire"},
           Expire(r, from, to), NEW k \in Keys
    PROVE  Timed(r, k)
<1>0. Session(r) \in Sessions /\ now + TTL # Never
  BY ExecutionAssumption, DeadlineIsATime
<1>1. /\ pc[r] = from
      /\ UNCHANGED <<owner, messages, toolHistory, summary>>
      /\ deadline' = IF messages[Session(r)] = << >> THEN deadline
                                                     ELSE ExpireAt("messages", Session(r))
  BY DEF Expire, ExpireMessages
<1>2. CASE k = "messages"
  BY <1>0, <1>1, <1>2 DEF Timed, Has, ExpireAt, TypeOK, StoreTypeOK
<1>3. CASE k # "messages"
  <2>1. deadline'[k] = deadline[k]
    BY <1>1, <1>3 DEF ExpireAt, TypeOK, StoreTypeOK
  <2> QED  BY <1>1, <1>3, <2>1 DEF Timed, Has, WillExpire, Keys
<1> QED  BY <1>2, <1>3

LEMMA StepTimed ==
    ASSUME TypeOK, Faults \cap {"store", "crash"} = {}, NEW r \in Requests, Step(r),
           NEW k \in Keys
    PROVE  Timed(r, k)
<1>0. Session(r) \in Sessions /\ now + TTL # Never
  BY ExecutionAssumption, DeadlineIsATime
<1>1. CASE Admit(r)
  <2>1. CASE SetOwner(Session(r), UserOf[r]) /\ BindOwner(r)
    <3>1. pc[r] = "bind" /\ UNCHANGED <<messages, toolHistory, summary>>
      BY <2>1 DEF BindOwner, SetOwner
    <3>2. CASE k = "owner"
      BY <1>0, <2>1, <3>2 DEF Timed, SetOwner, ExpireAt, TypeOK, StoreTypeOK
    <3>3. CASE k # "owner"
      <4>1. deadline'[k] = deadline[k]
        BY <2>1, <3>3 DEF SetOwner, ExpireAt, TypeOK, StoreTypeOK
      <4> QED  BY <3>1, <3>3, <4>1 DEF Timed, Has, WillExpire, Keys
    <3> QED  BY <3>2, <3>3
  <2>2. CASE UNCHANGED storeVars
    BY <1>1, <2>2, QuietTimed DEF Admit, Start, BindOwner, VerifyOwner
  <2> QED  BY <1>1, <2>1, <2>2 DEF Admit, Start, BindOwner, VerifyOwner
<1>2. CASE PushTask(r) \/ PushDeclaration(r) \/ PushToolAnswer(r) \/ PushAnswer(r)
  BY <1>2, PushTimed DEF PushTask, PushDeclaration, PushToolAnswer, PushAnswer
<1>3. CASE ExpireTask(r) \/ ExpireDeclaration(r) \/ ExpireToolAnswer(r) \/ ExpireAnswer(r)
  BY <1>3, ExpireTimed DEF ExpireTask, ExpireDeclaration, ExpireToolAnswer, ExpireAnswer
<1>4. CASE RecordToolCall(r)
  <2>1. /\ pc[r] = "record_push" /\ pc'[r] = "record_expire"
        /\ UNCHANGED <<owner, messages, summary, deadline>>
    BY <1>4 DEF RecordToolCall, PushToolRecord, Reply, Goto, TypeOK, LocalTypeOK
  <2> QED  BY <2>1 DEF Timed, Has, WillExpire, Keys
<1>5. CASE ExpireToolRecord(r)
  <2>1. /\ pc[r] = "record_expire"
        /\ UNCHANGED <<owner, messages, toolHistory, summary>>
        /\ deadline' = IF toolHistory[Session(r)] = 0
                         THEN deadline ELSE ExpireAt("toolHistory", Session(r))
    BY <1>5 DEF ExpireToolRecord, ExpireToolHistory
  <2>2. CASE k = "toolHistory"
    BY <1>0, <2>1, <2>2 DEF Timed, Has, ExpireAt, TypeOK, StoreTypeOK
  <2>3. CASE k # "toolHistory"
    <3>1. deadline'[k] = deadline[k]
      BY <2>1, <2>3 DEF ExpireAt, TypeOK, StoreTypeOK
    <3> QED  BY <2>1, <2>3, <3>1 DEF Timed, Has, WillExpire, Keys
  <2> QED  BY <2>2, <2>3
<1>6. CASE LoadHistory(r) \/ FirstReply(r) \/ RunTool(r) \/ SecondReply(r)
           \/ CheckTrim(r) \/ ReadLength(r) \/ CountMessages(r) \/ Complete(r)
  <2>1. /\ UNCHANGED storeVars
        /\ pc[r] \in {"load", "llm1", "tool", "llm2", "trim_get", "trim_llen", "count", "summary"}
    BY <1>6 DEF LoadHistory, FirstReply, RunTool, SecondReply, CheckTrim, ReadLength,
       CountMessages, Complete
  <2> QED  BY <2>1, QuietTimed
<1>7. CASE Trim(r)
  <2>1. /\ pc[r] = "trim_ltrim" /\ total[r] > MaxMessages
        /\ UNCHANGED <<owner, toolHistory, summary>>
    BY <1>7 DEF Trim, TrimMessages, TypeOK, Locals
  <2> DEFINE s == Session(r)
             start == total[r] - MaxMessages
  <2>2. /\ messages'[s] = SubSeq(messages[s], start + 1, Len(messages[s]))
        /\ deadline' = IF start < Len(messages[s])
                         THEN deadline ELSE [deadline EXCEPT !["messages"][s] = Never]
    BY <1>0, <1>7 DEF Trim, TrimMessages, TypeOK, StoreTypeOK
  <2>3. start \in Nat /\ messages[s] \in Seq(Message)
    BY <1>0, <2>1, ExecutionAssumption DEF TypeOK, StoreTypeOK, LocalTypeOK
  <2>4. CASE start < Len(messages[s])
    <3>1. deadline' = deadline /\ messages[s] # << >>
      BY <2>2, <2>3, <2>4
    <3> QED  BY <2>1, <3>1 DEF Timed, Has, WillExpire, Keys
  <2>5. CASE ~(start < Len(messages[s]))
    <3>1. messages'[s] = << >>
      <4> HIDE DEF start
      <4> QED  BY <2>2, <2>3, <2>5
    <3>2. k # "messages" => deadline'[k] = deadline[k]
      BY <2>2, <2>5 DEF TypeOK, StoreTypeOK
    <3> QED  BY <2>1, <3>1, <3>2 DEF Timed, Has, WillExpire, Keys
  <2> QED  BY <2>4, <2>5
<1>8. CASE Break(r)
  <2>1. /\ UNCHANGED storeVars
        /\ pc[r] \in ModelPCs \cup {"tool"}
    BY <1>8 DEF Break, StoreFails, ModelFails, ToolRaises, Crash, Fail
  <2> QED  BY <2>1, QuietTimed DEF ModelPCs
<1> QED
  BY <1>1, <1>2, <1>3, <1>4, <1>5, <1>6, <1>7, <1>8 DEF Step, Ask, UseTools, Finish

LEMMA NextKeysExpire ==
    Faults \cap {"store", "crash"} = {} /\ TypeOK /\ KeysExpire /\ [Next]_vars => KeysExpire'
<1> SUFFICES ASSUME Faults \cap {"store", "crash"} = {}, TypeOK, KeysExpire, [Next]_vars
             PROVE  KeysExpire'
  OBVIOUS
<1>1. ASSUME NEW r \in Requests, Step(r)
      PROVE  KeysExpire'
  BY <1>1, StepIsLocal, StepTimed, TimedKeysExpire
<1>2. CASE Pass
  <2>1. \A k \in Keys, s \in Sessions :
           /\ Has(k, s)' => Has(k, s) /\ ~Due(k, s)
           /\ ~Due(k, s) => deadline'[k][s] = deadline[k][s]
    <3> SUFFICES ASSUME NEW k \in Keys, NEW s \in Sessions
                 PROVE  /\ Has(k, s)' => Has(k, s) /\ ~Due(k, s)
                        /\ ~Due(k, s) => deadline'[k][s] = deadline[k][s]
      OBVIOUS
    <3>1. ~Due(k, s) => deadline'[k][s] = deadline[k][s]
      BY <1>2 DEF Pass, Tick
    <3>2. CASE k = "owner"
      BY <1>2, <3>2 DEF Pass, Tick, Has
    <3>3. CASE k = "messages"
      BY <1>2, <3>3 DEF Pass, Tick, Has
    <3>4. CASE k = "toolHistory"
      BY <1>2, <3>4 DEF Pass, Tick, Has
    <3>5. CASE k = "summary"
      BY <1>2, <3>5 DEF Pass, Tick, Has
    <3> QED  BY <3>1, <3>2, <3>3, <3>4, <3>5 DEF Keys
  <2>2. pc' = pc
    BY <1>2 DEF Pass, localVars
  <2> QED  BY <2>1, <2>2 DEF KeysExpire, WillExpire
<1>3. CASE UNCHANGED vars
  <2>1. UNCHANGED <<deadline, pc>> /\ \A k \in Keys, s \in Sessions : Has(k, s)' <=> Has(k, s)
    BY <1>3 DEF vars, storeVars, localVars, Has, Keys
  <2> QED  BY <2>1 DEF KeysExpire, WillExpire
<1> QED  BY <1>1, <1>2, <1>3 DEF Next, AllEnded

\* As long as no store command fails and no process is lost between an RPUSH and its
\* EXPIRE, every key of every session has a TTL or a request about to set it, also
\* where requests overlap, models fail, tools raise and keys expire between the two.
THEOREM KeysGetTTL ==
    ASSUME Faults \cap {"store", "crash"} = {}
    PROVE  Spec => []KeysExpire
<1>1. Init => KeysExpire
  <2> SUFFICES ASSUME Init, NEW k \in Keys, NEW s \in Sessions
               PROVE  ~Has(k, s)
    BY DEF KeysExpire
  <2>1. CASE k = "owner"
    BY <2>1 DEF Init, StoreInit, Has
  <2>2. CASE k = "messages"
    BY <2>2 DEF Init, StoreInit, Has
  <2>3. CASE k = "toolHistory"
    BY <2>3 DEF Init, StoreInit, Has
  <2>4. CASE k = "summary"
    BY <2>4 DEF Init, StoreInit, Has
  <2> QED  BY <2>1, <2>2, <2>3, <2>4 DEF Keys
<1>2. TypeOK /\ KeysExpire /\ [Next]_vars => KeysExpire'
  BY NextKeysExpire
<1> QED  BY <1>1, <1>2, InitType, NextType, PTL DEF Spec

-----------------------------------------------------------------------------
(***************************************************************************)
(* One request at a time.  When clients send a session one request after   *)
(* the other, what a request has read of the list is still true when it    *)
(* acts on it, unless the list has expired meanwhile.                      *)
(***************************************************************************)

Alone ==
    \A q, r \in Requests :
        Session(q) = Session(r) /\ pc[q] \in InFlight /\ pc[r] \in InFlight => q = r

\* The LLEN that LTRIM works with is that of the list.
Measured ==
    \A r \in Requests : pc[r] = "trim_ltrim" =>
        messages[Session(r)] = << >> \/ Len(messages[Session(r)]) = total[r]

SerialInv == TypeOK /\ Alone /\ Measured

\* A request in flight is alone with its session: another one's step is elsewhere.
LEMMA StepAlone ==
    ASSUME Serial, TypeOK, Alone, NEW r \in Requests, Step(r)
    PROVE  /\ Alone'
           /\ \A q \in Requests \ {r} : pc[q] \in InFlight => Session(q) # Session(r)
<1>1. \/ pc[r] \in InFlight
      \/ \A q \in Requests : Session(q) = Session(r) => pc[q] \notin InFlight
  <2> USE DEF InFlight, Admitted, StorePCs, OwnerPCs, RecordPCs, TrimPCs, ReportPCs, ModelPCs
  <2>1. CASE Admit(r)
    BY <2>1 DEF Admit, Start, BindOwner, VerifyOwner
  <2>2. CASE Ask(r)
    BY <2>2 DEF Ask, LoadHistory, PushTask, Push, ExpireTask, Expire, FirstReply
  <2>3. CASE UseTools(r)
    BY <2>3 DEF UseTools, PushDeclaration, ExpireDeclaration, RunTool, RecordToolCall,
       ExpireToolRecord, PushToolAnswer, ExpireToolAnswer, SecondReply, Push, Expire
  <2>4. CASE Finish(r)
    BY <2>4 DEF Finish, PushAnswer, Push, ExpireAnswer, Expire, CheckTrim, ReadLength, Trim,
       CountMessages, Complete
  <2>5. CASE Break(r)
    BY <2>5 DEF Break, StoreFails, ModelFails, ToolRaises, Crash
  <2> QED  BY <2>1, <2>2, <2>3, <2>4, <2>5 DEF Step
<1>2. \A q \in Requests \ {r} : pc[q] \in InFlight => Session(q) # Session(r)
  BY <1>1 DEF Alone
<1>3. \A q \in Requests \ {r} : pc'[q] = pc[q]
  BY StepIsLocal DEF Local
<1>4. Alone'
  BY <1>2, <1>3 DEF Alone
<1> QED  BY <1>2, <1>4

\* How r comes to send LTRIM.
LEMMA StepMeasures ==
    ASSUME TypeOK, NEW r \in Requests, Step(r), pc'[r] = "trim_ltrim"
    PROVE  messages'[Session(r)] = messages[Session(r)] /\ total'[r] = Len(messages[Session(r)])
<1> USE DEF TypeOK, LocalTypeOK, Goto, Reply
<1>1. CASE Admit(r)
  BY <1>1 DEF Admit, Start, BindOwner, VerifyOwner, OwnerVerdict
<1>2. CASE Ask(r)
  BY <1>2 DEF Ask, LoadHistory, PushTask, Push, ExpireTask, Expire, FirstReply
<1>3. CASE UseTools(r)
  BY <1>3 DEF UseTools, PushDeclaration, ExpireDeclaration, RunTool, RecordToolCall,
     ExpireToolRecord, PushToolAnswer, ExpireToolAnswer, SecondReply, Push, Expire
<1>4. CASE ReadLength(r)
  BY <1>4 DEF ReadLength, storeVars
<1>5. CASE PushAnswer(r) \/ ExpireAnswer(r) \/ CheckTrim(r) \/ Trim(r) \/ CountMessages(r)
           \/ Complete(r)
  BY <1>5 DEF PushAnswer, Push, ExpireAnswer, Expire, CheckTrim, Trim, CountMessages, Complete
<1>6. CASE Break(r)
  BY <1>6 DEF Break, StoreFails, ModelFails, ToolRaises, Crash, Fail
<1> QED  BY <1>1, <1>2, <1>3, <1>4, <1>5, <1>6 DEF Step, Finish

LEMMA NextSerial == Serial /\ SerialInv /\ [Next]_vars => SerialInv'
<1> SUFFICES ASSUME Serial, SerialInv, [Next]_vars
             PROVE  SerialInv'
  OBVIOUS
<1> USE DEF SerialInv
<1>1. TypeOK'
  BY NextType
<1>2. Alone' /\ Measured'
  <2>1. ASSUME NEW r \in Requests, Step(r)
        PROVE  Alone' /\ Measured'
    <3>1. Alone'
      BY <2>1, StepAlone
    <3>2. ASSUME NEW q \in Requests, q # r, pc'[q] = "trim_ltrim"
          PROVE  messages'[Session(q)] = messages[Session(q)] /\ total'[q] = total[q] /\ pc'[q] = pc[q]
      <4>1. pc'[q] = pc[q] /\ total'[q] = total[q]
        BY <2>1, <3>2, StepIsLocal DEF Local
      <4>2. Session(q) # Session(r)
        BY <2>1, <3>2, <4>1, StepAlone DEF InFlight, Admitted, StorePCs, OwnerPCs, TrimPCs
      <4>3. Session(q) \in Sessions
        BY ExecutionAssumption
      <4> QED  BY <2>1, <4>1, <4>2, <4>3, StepIsLocal DEF Local
    <3>3. Measured'
      BY <2>1, <3>2, StepMeasures DEF Measured
    <3> QED  BY <3>1, <3>3
  <2>2. CASE Pass
    <3>1. pc' = pc /\ total' = total /\ \A s \in Sessions : messages'[s] \in {messages[s], << >>}
      BY <2>2 DEF Pass, Tick, localVars
    <3> QED  BY <3>1, ExecutionAssumption DEF Alone, Measured
  <2>3. CASE UNCHANGED vars
    BY <2>3 DEF vars, storeVars, localVars, Alone, Measured
  <2> QED  BY <2>1, <2>2, <2>3 DEF Next, AllEnded
<1> QED  BY <1>1, <1>2

LEMMA InitSerial == Init => SerialInv
<1>1. Init => Alone /\ Measured
  BY DEF Init, Alone, Measured, InFlight, Admitted, StorePCs, OwnerPCs, RecordPCs, TrimPCs,
     ReportPCs, ModelPCs
<1> QED  BY <1>1, InitType DEF SerialInv

LEMMA SerialHolds ==
    ASSUME Serial
    PROVE  Spec => []SerialInv
<1>1. SerialInv /\ [Next]_vars => SerialInv'
  BY NextSerial
<1> QED  BY <1>1, InitSerial, PTL DEF Spec

\* LTRIM on the list it was measured on.
LEMMA TrimCuts ==
    ASSUME TypeOK, NEW r \in Requests, Trim(r), Len(messages[Session(r)]) = total[r]
    PROVE  /\ messages'[Session(r)] = LastN(messages[Session(r)], MaxMessages)
           /\ Len(messages'[Session(r)]) = MaxMessages
           /\ messages'[Session(r)][MaxMessages] = messages[Session(r)][total[r]]
<1> DEFINE list == messages[Session(r)]
           start == total[r] - MaxMessages
<1>1. /\ list \in Seq(Message) /\ start \in Nat \ {0}
      /\ MaxMessages \in Nat \ {0} /\ start + MaxMessages = Len(list)
      /\ total[r] = Len(list)
  BY ExecutionAssumption DEF Trim, TypeOK, StoreTypeOK, LocalTypeOK, Locals
<1>2. messages'[Session(r)] = SubSeq(list, start + 1, Len(list))
  BY ExecutionAssumption DEF Trim, TrimMessages, TypeOK, StoreTypeOK
<1>3. messages'[Session(r)] = LastN(list, MaxMessages)
  <2>1. start + 1 = Len(list) - MaxMessages + 1
    BY <1>1
  <2> QED  BY <1>2, <2>1 DEF LastN
<1> HIDE DEF list, start
<1>4. /\ Len(SubSeq(list, start + 1, Len(list))) = MaxMessages
      /\ SubSeq(list, start + 1, Len(list))[MaxMessages] = list[Len(list)]
  BY <1>1
<1> QED  BY <1>1, <1>2, <1>3, <1>4 DEF list

\* TrimKeepsNewest, of the LTRIM of r.
KeepsNewest(r) ==
    LET list == messages[Session(r)]
        rest == messages'[Session(r)]
    IN  pc[r] = "trim_ltrim" /\ pc'[r] # "trim_ltrim" /\ rest # list
          => /\ Len(rest) >= MaxMessages
             /\ LastN(rest, MaxMessages) = LastN(list, MaxMessages)

\* What changes the list when r leaves LTRIM is that LTRIM, which cuts it to size.
LEMMA TrimsToNewest ==
    ASSUME Serial, SerialInv, [Next]_vars, NEW r \in Requests,
           pc[r] = "trim_ltrim", pc'[r] # "trim_ltrim", messages'[Session(r)] # messages[Session(r)]
    PROVE  /\ messages'[Session(r)] = LastN(messages[Session(r)], MaxMessages)
           /\ Len(messages'[Session(r)]) = MaxMessages
<1>0. Session(r) \in Sessions /\ pc[r] \in InFlight
  BY ExecutionAssumption DEF InFlight, Admitted, StorePCs, OwnerPCs, TrimPCs
<1>1. CASE \E q \in Requests : Step(q)
  <2>1. PICK q \in Requests : Step(q)
    BY <1>1
  <2>2. q = r
    <3>1. ASSUME q # r
          PROVE  Session(r) # Session(q)
      BY <1>0, <2>1, <3>1, StepAlone DEF SerialInv
    <3> QED  BY <1>0, <2>1, <3>1, StepIsLocal DEF SerialInv, Local
  <2>3. Trim(r)
    <3> USE <2>1, <2>2
    <3>1. ~Admit(r)
      BY DEF Admit, Start, BindOwner, VerifyOwner
    <3>2. ~Ask(r)
      BY DEF Ask, LoadHistory, PushTask, Push, ExpireTask, Expire, FirstReply
    <3>3. ~UseTools(r)
      BY DEF UseTools, PushDeclaration, ExpireDeclaration, RunTool, RecordToolCall,
         ExpireToolRecord, PushToolAnswer, ExpireToolAnswer, SecondReply, Push, Expire
    <3>4. ~Break(r)
      BY DEF Break, StoreFails, ModelFails, ToolRaises, Crash, Fail, storeVars
    <3>5. Finish(r) => Trim(r)
      BY DEF Finish, PushAnswer, Push, ExpireAnswer, Expire, CheckTrim, ReadLength,
         CountMessages, Complete
    <3> QED  BY <3>1, <3>2, <3>3, <3>4, <3>5 DEF Step
  <2>4. CASE messages[Session(r)] = << >>
    <3>1. messages'[Session(r)] = << >>
      <4>1. messages'[Session(r)]
              = SubSeq(messages[Session(r)], total[r] - MaxMessages + 1, Len(messages[Session(r)]))
        BY <1>0, <2>3 DEF Trim, TrimMessages, SerialInv, TypeOK, StoreTypeOK
      <4>2. total[r] - MaxMessages \in Nat
        BY ExecutionAssumption DEF SerialInv, TypeOK, LocalTypeOK, Locals
      <4>3. messages'[Session(r)] = SubSeq(<< >>, total[r] - MaxMessages + 1, 0)
        BY <2>4, <4>1
      <4> QED  BY <4>2, <4>3
    <3> QED  BY <2>4, <3>1
  <2>5. CASE Len(messages[Session(r)]) = total[r]
    BY <2>3, <2>5, TrimCuts DEF SerialInv
  <2> QED  BY <2>4, <2>5 DEF SerialInv, Measured
<1>2. CASE Pass \/ UNCHANGED vars
  BY <1>2 DEF Pass, vars, localVars
<1> QED  BY <1>1, <1>2 DEF Next, AllEnded

LEMMA TrimsKeepNewest ==
    ASSUME Serial, SerialInv, [Next]_vars, NEW r \in Requests
    PROVE  KeepsNewest(r)
<1> DEFINE list == messages[Session(r)]
           rest == messages'[Session(r)]
<1> SUFFICES ASSUME pc[r] = "trim_ltrim", pc'[r] # "trim_ltrim", rest # list
             PROVE  Len(rest) >= MaxMessages /\ LastN(rest, MaxMessages) = LastN(list, MaxMessages)
  BY DEF KeepsNewest
<1>1. rest = LastN(list, MaxMessages) /\ Len(rest) = MaxMessages
  BY TrimsToNewest
<1>2. MaxMessages \in Nat /\ rest \in Seq(Message)
  <2>1. TypeOK'
    BY NextType DEF SerialInv
  <2> QED  BY <2>1, ExecutionAssumption DEF TypeOK, StoreTypeOK
<1> HIDE DEF rest, list
<1>3. LastN(rest, MaxMessages) = rest
  <2>1. Len(rest) - MaxMessages + 1 = 1
    BY <1>1, <1>2
  <2>2. SubSeq(rest, 1, Len(rest)) = rest
    BY <1>2
  <2> QED  BY <1>1, <2>1, <2>2 DEF LastN
<1> QED  BY <1>1, <1>2, <1>3

\* When the clients of a session wait for each answer, LTRIM keeps the newest
\* MAX_MESSAGES_PER_SESSION messages, whatever fails and whatever expires.
THEOREM TrimKeeps ==
    ASSUME Serial
    PROVE  Spec => TrimKeepsNewest
<1>1. SerialInv /\ [Next]_vars => [\A r \in Requests : KeepsNewest(r)]_vars
  BY TrimsKeepNewest
<1> QED  BY <1>1, SerialHolds, PTL DEF Spec, TrimKeepsNewest, KeepsNewest

-----------------------------------------------------------------------------
(***************************************************************************)
(* The end of a turn.  A request that has stored its answer finds it at    *)
(* the end of the list, which it cuts to its bound, counts and reports.    *)
(***************************************************************************)

\* No key is due before TTL.
NothingDue ==
    \A k \in Keys, s \in Sessions : deadline[k][s] # Never => deadline[k][s] >= TTL

\* From the RPUSH of its answer to its end.
ClosingPCs == {"final_expire"} \cup TrimPCs \cup ReportPCs

Closes(r) ==
    LET list == messages[Session(r)] IN
    /\ pc[r] \in ClosingPCs => Len(list) > 0 /\ list[Len(list)] = AssistantMessage(r)
    /\ pc[r] \in ReportPCs => Len(list) <= MaxMessages
    /\ pc[r] = "summary" => response[r].message_count = Len(list)

Closing == \A r \in Requests : Closes(r)

ClosingInv == SerialInv /\ NothingDue /\ Closing

LEMMA InitDue == Init => NothingDue
  BY DEF Init, StoreInit, NothingDue

\* A deadline is only ever set TTL ahead.
LEMMA StepSetsDeadlines ==
    ASSUME TypeOK, NEW r \in Requests, Step(r), NEW k \in Keys, NEW s \in Sessions
    PROVE  deadline'[k][s] \in {deadline[k][s], Never, now + TTL}
<1>0. /\ deadline \in [Keys -> [Sessions -> Nat]]
      /\ Session(r) \in Sessions
  BY ExecutionAssumption DEF TypeOK, StoreTypeOK
<1>1. ASSUME NEW l \in Keys, deadline' = ExpireAt(l, Session(r))
      PROVE  deadline'[k][s] \in {deadline[k][s], Never, now + TTL}
  BY <1>0, <1>1 DEF ExpireAt
<1>2. ASSUME deadline' = deadline
      PROVE  deadline'[k][s] \in {deadline[k][s], Never, now + TTL}
  BY <1>2
<1>3. CASE PushTask(r) \/ PushDeclaration(r) \/ PushToolAnswer(r) \/ PushAnswer(r)
  BY <1>2, <1>3
  DEF PushTask, PushDeclaration, PushToolAnswer, PushAnswer, Push, PushMessage
<1>4. CASE ExpireTask(r) \/ ExpireDeclaration(r) \/ ExpireToolAnswer(r) \/ ExpireAnswer(r)
  <2>1. ExpireMessages(Session(r))
    BY <1>4 DEF ExpireTask, ExpireDeclaration, ExpireToolAnswer, ExpireAnswer, Expire
  <2> QED  BY <1>1, <1>2, <2>1 DEF ExpireMessages, Keys
<1>5. CASE ExpireToolRecord(r)
  <2>1. ExpireToolHistory(Session(r))
    BY <1>5 DEF ExpireToolRecord
  <2> QED  BY <1>1, <1>2, <2>1 DEF ExpireToolHistory, Keys
<1>6. CASE RecordToolCall(r)
  BY <1>2, <1>6 DEF RecordToolCall, PushToolRecord
<1>7. CASE Trim(r)
  <2>1. deadline' \in {deadline, [deadline EXCEPT !["messages"][Session(r)] = Never]}
    BY <1>7 DEF Trim, TrimMessages
  <2> QED  BY <1>0, <1>2, <2>1
<1>8. CASE BindOwner(r)
  <2>1. SetOwner(Session(r), UserOf[r]) \/ UNCHANGED storeVars
    BY <1>8 DEF BindOwner
  <2> QED  BY <1>1, <1>2, <2>1 DEF SetOwner, storeVars, Keys
<1>9. CASE \/ Start(r) \/ VerifyOwner(r) \/ LoadHistory(r) \/ FirstReply(r) \/ RunTool(r)
           \/ SecondReply(r) \/ CheckTrim(r) \/ ReadLength(r) \/ CountMessages(r) \/ Complete(r)
  BY <1>2, <1>9 DEF Start, VerifyOwner, LoadHistory, FirstReply, RunTool, SecondReply,
     CheckTrim, ReadLength, CountMessages, Complete, storeVars
<1>10. CASE Break(r)
  BY <1>2, <1>10 DEF Break, StoreFails, ModelFails, ToolRaises, Crash, Fail, storeVars
<1> QED
  BY <1>3, <1>4, <1>5, <1>6, <1>7, <1>8, <1>9, <1>10 DEF Step, Admit, Ask, UseTools, Finish

LEMMA NextDue == TypeOK /\ NothingDue /\ [Next]_vars => NothingDue'
<1> SUFFICES ASSUME TypeOK, NothingDue, [Next]_vars
             PROVE  NothingDue'
  OBVIOUS
<1>1. CASE \E r \in Requests : Step(r)
  <2>1. now + TTL >= TTL
    BY DeadlineIsATime, StoreAssumption
  <2> QED  BY <1>1, <2>1, StepSetsDeadlines DEF NothingDue
<1>2. CASE Pass
  BY <1>2 DEF Pass, Tick, NothingDue
<1>3. CASE UNCHANGED vars
  BY <1>3 DEF vars, storeVars, NothingDue
<1> QED  BY <1>1, <1>2, <1>3 DEF Next, AllEnded

\* The clock takes nothing before TTL.
LEMMA PassTakesNothing ==
    ASSUME TypeOK, NothingDue, Pass, now' < TTL, NEW s \in Sessions
    PROVE  messages'[s] = messages[s] /\ toolHistory'[s] = toolHistory[s]
<1>1. now' = now + 1 /\ now \in Nat /\ TTL \in Nat
  BY DeadlineIsATime, StoreAssumption DEF Pass, Tick
<1>2. \A k \in Keys : deadline[k][s] \in Nat
  BY DEF TypeOK, StoreTypeOK
<1>3. ~Due("messages", s) /\ ~Due("toolHistory", s)
  BY <1>1, <1>2 DEF Due, NothingDue, Keys
<1> QED  BY <1>3 DEF Pass, Tick

LEMMA StepCloses ==
    ASSUME SerialInv, NEW r \in Requests, Closes(r), Step(r)
    PROVE  Closes(r)'
<1> DEFINE list == messages[Session(r)]
<1> USE ExecutionAssumption DEF SerialInv, TypeOK, LocalTypeOK, Goto, Reply
<1>0. list \in Seq(Message) /\ Len(list) \in Nat /\ Session(r) \in Sessions
  BY DEF StoreTypeOK
<1>1. CASE PushAnswer(r)
  <2>1. messages'[Session(r)] = Append(list, AssistantMessage(r))
    BY <1>0, <1>1 DEF PushAnswer, Push, PushMessage, StoreTypeOK
  <2>2. pc'[r] \in {"final_expire", "store_error"}
    BY <1>1 DEF PushAnswer, Push
  <2>3. /\ Len(Append(list, AssistantMessage(r))) = Len(list) + 1
        /\ Append(list, AssistantMessage(r))[Len(list) + 1] = AssistantMessage(r)
    BY <1>0, MessageTypes
  <2> QED  BY <1>0, <2>1, <2>2, <2>3 DEF Closes, ReportPCs
<1>2. CASE ExpireAnswer(r)
  BY <1>2 DEF ExpireAnswer, Expire, ExpireMessages, Closes, ClosingPCs, ReportPCs, TrimPCs
<1>3. CASE CheckTrim(r)
  BY <1>0, <1>3 DEF CheckTrim, storeVars, Closes, ClosingPCs, ReportPCs, TrimPCs
<1>4. CASE ReadLength(r)
  BY <1>0, <1>4 DEF ReadLength, storeVars, Closes, ClosingPCs, ReportPCs, TrimPCs
<1>5. CASE Trim(r)
  <2>1. Len(list) > 0 /\ list[Len(list)] = AssistantMessage(r)
    BY <1>5 DEF Trim, Closes, ClosingPCs, TrimPCs
  <2>2. Len(list) = total[r]
    BY <1>0, <1>5, <2>1 DEF Trim, Measured
  <2>3. /\ Len(messages'[Session(r)]) = MaxMessages
        /\ messages'[Session(r)][MaxMessages] = AssistantMessage(r)
    BY <1>5, <2>1, <2>2, TrimCuts
  <2>4. pc'[r] \in {"count", "store_error"}
    BY <1>5 DEF Trim
  <2> QED  BY <2>3, <2>4 DEF Closes, ClosingPCs, ReportPCs, TrimPCs
<1>6. CASE CountMessages(r)
  <2>1. response'[r].message_count = Len(list)
    BY <1>6 DEF CountMessages
  <2> QED  BY <1>6, <2>1 DEF CountMessages, storeVars, Closes, ClosingPCs, ReportPCs, TrimPCs
<1>7. ASSUME pc'[r] \notin ClosingPCs
      PROVE  Closes(r)'
  BY <1>7 DEF Closes, ClosingPCs, ReportPCs
<1>8. CASE Complete(r)
  BY <1>7, <1>8 DEF Complete, ClosingPCs, ReportPCs, TrimPCs
<1>9. CASE Admit(r)
  BY <1>7, <1>9 DEF Admit, Start, BindOwner, VerifyOwner, OwnerVerdict, ClosingPCs, ReportPCs,
     TrimPCs
<1>10. CASE Ask(r)
  BY <1>7, <1>10 DEF Ask, LoadHistory, PushTask, Push, ExpireTask, Expire, FirstReply,
     ClosingPCs, ReportPCs, TrimPCs
<1>11. CASE UseTools(r)
  BY <1>7, <1>11 DEF UseTools, PushDeclaration, ExpireDeclaration, RunTool, RecordToolCall,
     ExpireToolRecord, PushToolAnswer, ExpireToolAnswer, SecondReply, Push, Expire,
     ClosingPCs, ReportPCs, TrimPCs
<1>12. CASE Break(r)
  BY <1>7, <1>12 DEF Break, StoreFails, ModelFails, ToolRaises, Crash, Fail, ClosingPCs,
     ReportPCs, TrimPCs
<1> QED
  BY <1>1, <1>2, <1>3, <1>4, <1>5, <1>6, <1>8, <1>9, <1>10, <1>11, <1>12 DEF Step, Finish

LEMMA InitClosing == Init => ClosingInv
<1>1. Init => Closing
  BY DEF Init, Closing, Closes, ClosingPCs, TrimPCs, ReportPCs
<1> QED  BY <1>1, InitSerial, InitDue DEF ClosingInv

LEMMA NextClosing == Serial /\ Horizon < TTL /\ ClosingInv /\ [Next]_vars => ClosingInv'
<1> SUFFICES ASSUME Serial, Horizon < TTL, ClosingInv, [Next]_vars
             PROVE  ClosingInv'
  OBVIOUS
<1> USE DEF ClosingInv
<1>1. SerialInv' /\ NothingDue'
  BY NextSerial, NextDue DEF SerialInv
<1>2. Closing'
  <2>1. ASSUME NEW r \in Requests, Step(r), NEW q \in Requests
        PROVE  Closes(q)'
    <3>1. CASE q = r
      BY <2>1, <3>1, StepCloses DEF Closing
    <3>2. CASE q # r
      <4>1. pc'[q] = pc[q] /\ response'[q] = response[q]
        BY <2>1, <3>2, StepIsLocal DEF SerialInv, Local
      <4>2. CASE pc[q] \in ClosingPCs
        <5>1. Session(q) # Session(r)
          BY <2>1, <3>2, <4>2, StepAlone DEF SerialInv, ClosingPCs, TrimPCs, ReportPCs,
             InFlight, Admitted, StorePCs, RecordPCs, OwnerPCs
        <5>2. messages'[Session(q)] = messages[Session(q)]
          BY <2>1, <5>1, ExecutionAssumption, StepIsLocal DEF SerialInv, Local
        <5> QED  BY <4>1, <5>2 DEF Closing, Closes
      <4>3. CASE pc[q] \notin ClosingPCs
        BY <4>1, <4>3 DEF Closes, ClosingPCs, ReportPCs
      <4> QED  BY <4>2, <4>3
    <3> QED  BY <3>1, <3>2
  <2>2. CASE Pass
    <3>1. now' < TTL
      <4>1. now' \in 0..Horizon
        BY <1>1 DEF SerialInv, TypeOK, StoreTypeOK
      <4> QED  BY <4>1, StoreAssumption
    <3>2. \A s \in Sessions : messages'[s] = messages[s]
      BY <2>2, <3>1, PassTakesNothing DEF SerialInv
    <3>3. pc' = pc /\ response' = response
      BY <2>2 DEF Pass, localVars
    <3> QED  BY <3>2, <3>3, ExecutionAssumption DEF Closing, Closes
  <2>3. CASE UNCHANGED vars
    BY <2>3 DEF vars, storeVars, localVars, Closing, Closes
  <2> QED  BY <2>1, <2>2, <2>3 DEF Next, AllEnded, Closing
<1> QED  BY <1>1, <1>2

\* A step that completes r finds the list as r's response says.
LEMMA CompletesTruly ==
    ASSUME ClosingInv, [Next]_vars, NEW r \in Requests,
           pc[r] # "completed", pc'[r] = "completed"
    PROVE  /\ response'[r].message_count = Len(messages[Session(r)])
           /\ response'[r].message_count \in 1..MaxMessages
           /\ messages[Session(r)][Len(messages[Session(r)])] = AssistantMessage(r)
<1>0. TypeOK
  BY DEF ClosingInv, SerialInv
<1>1. PICK q \in Requests : Step(q)
  BY DEF Next, Pass, AllEnded, vars, localVars
<1>2. q = r
  BY <1>0, <1>1, StepIsLocal DEF Local
<1>3. Complete(r)
  <2> USE <1>0, <1>1, <1>2 DEF TypeOK, LocalTypeOK, Goto, Reply
  <2>1. ~Admit(r)
    BY DEF Admit, Start, BindOwner, VerifyOwner, OwnerVerdict
  <2>2. ~Ask(r)
    BY DEF Ask, LoadHistory, PushTask, Push, ExpireTask, Expire, FirstReply
  <2>3. ~UseTools(r)
    BY DEF UseTools, PushDeclaration, ExpireDeclaration, RunTool, RecordToolCall,
       ExpireToolRecord, PushToolAnswer, ExpireToolAnswer, SecondReply, Push, Expire
  <2>4. ~Break(r)
    BY DEF Break, StoreFails, ModelFails, ToolRaises, Crash, Fail
  <2>5. Finish(r) => Complete(r)
    BY DEF Finish, PushAnswer, Push, ExpireAnswer, Expire, CheckTrim, ReadLength, Trim,
       CountMessages
  <2> QED  BY <2>1, <2>2, <2>3, <2>4, <2>5 DEF Step
<1>4. pc[r] = "summary" /\ response'[r].message_count = response[r].message_count
  BY <1>0, <1>3 DEF Complete, TypeOK, LocalTypeOK
<1>5. Closes(r)
  BY DEF ClosingInv, Closing
<1>6. Len(messages[Session(r)]) \in Nat /\ MaxMessages \in Nat
  BY <1>0, ExecutionAssumption DEF TypeOK, StoreTypeOK
<1> QED  BY <1>4, <1>5, <1>6 DEF Closes, ClosingPCs, ReportPCs

\* When the clients of a session wait for each answer and no key expires in between,
\* a completed response says how long the list is, which is within its bound and ends
\* with the answer; also after turns that failed on the way.
THEOREM ResponseTruth ==
    ASSUME Serial, Horizon < TTL
    PROVE  Spec => ResponseMatchesStore
<1> DEFINE Truth(r) ==
             pc[r] # "completed" /\ pc'[r] = "completed"
               => /\ response'[r].message_count = Len(messages[Session(r)])
                  /\ response'[r].message_count \in 1..MaxMessages
                  /\ messages[Session(r)][Len(messages[Session(r)])] = AssistantMessage(r)
<1>1. ClosingInv /\ [Next]_vars => [\A r \in Requests : Truth(r)]_vars
  BY CompletesTruly
<1>2. ClosingInv /\ [Next]_vars => ClosingInv'
  BY NextClosing
<1> QED  BY <1>1, <1>2, InitClosing, PTL DEF Spec, ResponseMatchesStore

-----------------------------------------------------------------------------
(***************************************************************************)
(* The tool history keeps up with the messages.  A record is pushed before *)
(* the answer it is about, once for each call of the turn; the invariant   *)
(* counts the records that are ahead of their answers, and the calls that  *)
(* can have a record by now.                                               *)
(***************************************************************************)

\* Recorded a call and has yet to store its answer.
Ahead(s) ==
    {r \in Requests : Session(r) = s /\ pc[r] \in {"record_expire", "tool_push"}}

\* With no record for the call in hand, and with one.
UnrecordedPCs == {"idle", "bind", "verify", "load", "user_push", "user_expire", "llm1",
                  "decl_push", "decl_expire", "tool", "record_push"}
RecordedPCs   == {"record_expire", "tool_push", "tool_expire"}

\* Can call i of r have a record?  Nothing more is known of a turn that stopped.
Done(r, i) ==
    /\ pc[r] \in UnrecordedPCs => i <= answered[r]
    /\ pc[r] \in RecordedPCs => i <= answered[r] + 1

Recorded(s) == {c \in CallsMade(s) : Done(c[1], c[2])}

Records(s) ==
    /\ IsFiniteSet(Ahead(s))
    /\ IsFiniteSet(CallsMade(s))
    /\ Cardinality(Answers(s)) + Cardinality(Ahead(s)) <= toolHistory[s]
    /\ toolHistory[s] <= Cardinality(Recorded(s))

History == now < TTL => \A s \in Sessions : Records(s)

HistoryInv == TypeOK /\ NothingDue /\ History

\* Positions of a list are finitely many, and so are the answers in it.
LEMMA AnswersOfList ==
    ASSUME NEW list \in Seq(Message)
    PROVE  LET places == {i \in 1..Len(list) : list[i].role = "tool"}
           IN  IsFiniteSet(places) /\ Cardinality(places) \in Nat
<1> DEFINE places == {i \in 1..Len(list) : list[i].role = "tool"}
<1>1. IsFiniteSet(1..Len(list))
  BY FS_Interval
<1>2. IsFiniteSet(places)
  BY <1>1, FS_Subset
<1> QED  BY <1>2, FS_CardinalityType

LEMMA AnswersFinite ==
    ASSUME TypeOK, NEW s \in Sessions
    PROVE  IsFiniteSet(Answers(s)) /\ Cardinality(Answers(s)) \in Nat
  BY AnswersOfList DEF Answers, TypeOK, StoreTypeOK

\* RPUSH of an answer adds one to them, of another message none.
LEMMA AppendAnswers ==
    ASSUME TypeOK, TypeOK', NEW s \in Sessions, NEW m \in Message,
           messages'[s] = Append(messages[s], m)
    PROVE  Cardinality(Answers(s)')
             = Cardinality(Answers(s)) + (IF m.role = "tool" THEN 1 ELSE 0)
<1> DEFINE list == messages[s]
<1>1. list \in Seq(Message) /\ Len(list) \in Nat
  BY DEF TypeOK, StoreTypeOK
<1>2. /\ Len(Append(list, m)) = Len(list) + 1
      /\ Append(list, m)[Len(list) + 1] = m
      /\ \A i \in 1..Len(list) : Append(list, m)[i] = list[i]
  BY <1>1
<1>3. Answers(s)' = {i \in 1..Len(Append(list, m)) : Append(list, m)[i].role = "tool"}
  BY DEF Answers
<1> HIDE DEF list
<1>4. CASE m.role = "tool"
  <2>1. Answers(s)' = Answers(s) \cup {Len(list) + 1}
    BY <1>1, <1>2, <1>3, <1>4 DEF Answers, list
  <2>2. Len(list) + 1 \notin Answers(s)
    BY <1>1 DEF Answers, list
  <2> QED  BY <1>4, <2>1, <2>2, AnswersFinite, FS_AddElement
<1>5. CASE m.role # "tool"
  <2>1. Answers(s)' = Answers(s)
    BY <1>1, <1>2, <1>3, <1>5 DEF Answers, list
  <2> QED  BY <1>5, <2>1, AnswersFinite
<1> QED  BY <1>4, <1>5

\* LTRIM adds none: what is left of the list stood at later positions of it.
LEMMA TrimAnswers ==
    ASSUME TypeOK, TypeOK', NEW s \in Sessions, NEW start \in Nat,
           messages'[s] = SubSeq(messages[s], start + 1, Len(messages[s]))
    PROVE  Cardinality(Answers(s)') <= Cardinality(Answers(s))
<1> DEFINE list == messages[s]
           shift == [i \in Answers(s)' |-> i + start]
<1>1. list \in Seq(Message) /\ Len(list) \in Nat
  BY DEF TypeOK, StoreTypeOK
<1>2. ASSUME NEW i \in Answers(s)'
      PROVE  i \in Nat /\ i + start \in Answers(s)
  <2>0. i \in 1..Len(messages'[s]) /\ messages'[s][i].role = "tool"
    BY <1>2 DEF Answers
  <2>1. /\ Len(messages'[s]) = (IF start < Len(list) THEN Len(list) - start ELSE 0)
        /\ \A j \in 1..Len(messages'[s]) : messages'[s][j] = list[j + start]
    BY <1>1
  <2> DEFINE rest == messages'[s]
  <2> HIDE DEF list, rest
  <2>2. start < Len(list) /\ i \in 1..Len(list) - start
    BY <1>1, <2>0, <2>1 DEF rest
  <2>3. list[i + start].role = "tool"
    BY <2>0, <2>1 DEF rest
  <2>4. i \in Nat /\ i + start \in 1..Len(list)
    BY <1>1, <2>2
  <2> QED  BY <2>3, <2>4 DEF Answers, list
<1>3. shift \in Injection(Answers(s)', Answers(s))
  <2>1. shift \in [Answers(s)' -> Answers(s)]
    BY <1>2
  <2>2. \A i, j \in Answers(s)' : shift[i] = shift[j] => i = j
    BY <1>2
  <2> QED  BY <2>1, <2>2 DEF Injection, IsInjective
<1> QED  BY <1>3, AnswersFinite, FS_Injection

\* What a step does to the tool loop of its request: only RecordToolCall puts it
\* ahead, only FirstReply changes its calls, and a call once recorded stays so.
LEMMA StepInLoop ==
    ASSUME TypeOK, NEW r \in Requests, Step(r)
    PROVE  /\ \A i \in Nat : Done(r, i) => Done(r, i)'
           /\ pc'[r] \in {"record_expire", "tool_push"}
                => pc[r] \in {"record_expire", "tool_push"} \/ RecordToolCall(r)
           /\ calls' = calls \/ FirstReply(r)
<1>0. /\ pc \in [Requests -> PCs] /\ answered \in [Requests -> Nat]
      /\ pc[r] \in {"decl_push", "decl_expire", "llm1"} => answered[r] = 0
  BY ExecutionAssumption DEF TypeOK, LocalTypeOK, Locals
<1> USE <1>0 DEF Goto, Reply, Done, UnrecordedPCs, RecordedPCs
<1>1. CASE Admit(r)
  BY <1>1 DEF Admit, Start, BindOwner, VerifyOwner, OwnerVerdict
<1>2. CASE Ask(r)
  <2>1. CASE LoadHistory(r) \/ FirstReply(r)
    BY <2>1 DEF LoadHistory, FirstReply
  <2>2. CASE PushTask(r) \/ ExpireTask(r)
    BY <2>2 DEF PushTask, Push, ExpireTask, Expire
  <2> QED  BY <1>2, <2>1, <2>2 DEF Ask
<1>3. CASE UseTools(r)
  <2>1. CASE PushDeclaration(r) \/ ExpireDeclaration(r)
    BY <2>1 DEF PushDeclaration, ExpireDeclaration, Push, Expire
  <2>2. CASE RunTool(r) \/ SecondReply(r)
    BY <2>2 DEF RunTool, SecondReply
  <2>3. CASE RecordToolCall(r) \/ ExpireToolRecord(r) \/ PushToolAnswer(r)
    BY <2>3 DEF RecordToolCall, ExpireToolRecord, PushToolAnswer, Push
  <2>4. CASE ExpireToolAnswer(r)
    BY <2>4 DEF ExpireToolAnswer, Expire
  <2> QED  BY <1>3, <2>1, <2>2, <2>3, <2>4 DEF UseTools
<1>4. CASE Finish(r)
  BY <1>4 DEF Finish, PushAnswer, Push, ExpireAnswer, Expire, CheckTrim, ReadLength, Trim,
     CountMessages, Complete
<1>5. CASE Break(r)
  BY <1>5 DEF Break, StoreFails, ModelFails, ToolRaises, Crash, Fail
<1> QED  BY <1>1, <1>2, <1>3, <1>4, <1>5 DEF Step

\* What a step does to the lists of its session.
LEMMA StepOnLists ==
    ASSUME TypeOK, NEW r \in Requests, Step(r), NEW s, s = Session(r)
    PROVE  \/ messages'[s] = messages[s] /\ toolHistory'[s] = toolHistory[s]
           \/ RecordToolCall(r) \/ PushToolAnswer(r) \/ Trim(r)
           \/ /\ toolHistory'[s] = toolHistory[s]
              /\ \E m \in Message : m.role # "tool" /\ messages'[s] = Append(messages[s], m)
<1>0. s \in Sessions /\ messages \in [Sessions -> Seq(Message)]
  BY ExecutionAssumption DEF TypeOK, StoreTypeOK
<1>1. ASSUME NEW m \in Message, m.role # "tool", PushMessage(s, m)
      PROVE  /\ toolHistory'[s] = toolHistory[s]
             /\ \E x \in Message : x.role # "tool" /\ messages'[s] = Append(messages[s], x)
  BY <1>0, <1>1 DEF PushMessage
<1>2. CASE PushTask(r)
  BY <1>1, <1>2, MessageTypes DEF PushTask, Push, UserMessage
<1>3. CASE PushDeclaration(r)
  <2>1. Declaration(r) \in Message /\ Declaration(r).role # "tool"
    BY MessageTypes DEF Declaration, ToolCallsMessage, TypeOK, LocalTypeOK
  <2> QED  BY <1>1, <1>3, <2>1 DEF PushDeclaration, Push
<1>4. CASE PushAnswer(r)
  BY <1>1, <1>4, MessageTypes DEF PushAnswer, Push, AssistantMessage
<1>5. CASE \/ ExpireTask(r) \/ ExpireDeclaration(r) \/ ExpireToolRecord(r)
           \/ ExpireToolAnswer(r) \/ ExpireAnswer(r)
  BY <1>5 DEF ExpireTask, ExpireDeclaration, ExpireToolRecord, ExpireToolHistory,
     ExpireToolAnswer, ExpireAnswer, Expire, ExpireMessages
<1>6. CASE Admit(r)
  BY <1>6 DEF Admit, Start, BindOwner, SetOwner, VerifyOwner, storeVars
<1>7. CASE \/ LoadHistory(r) \/ FirstReply(r) \/ RunTool(r) \/ SecondReply(r) \/ CheckTrim(r)
           \/ ReadLength(r) \/ CountMessages(r) \/ Complete(r)
  BY <1>7 DEF LoadHistory, FirstReply, RunTool, SecondReply, CheckTrim, ReadLength,
     CountMessages, Complete, storeVars
<1>8. CASE Break(r)
  BY <1>8 DEF Break, StoreFails, ModelFails, ToolRaises, Crash, Fail, storeVars
<1> QED
  BY <1>2, <1>3, <1>4, <1>5, <1>6, <1>7, <1>8 DEF Step, Ask, UseTools, Finish

\* A reply declares finitely many calls.
LEMMA CallsStayFinite ==
    ASSUME TypeOK, TypeOK', NEW r \in Requests, NEW s \in Sessions, IsFiniteSet(CallsMade(s)),
           \A q \in Requests \ {r} : calls'[q] = calls[q]
    PROVE  IsFiniteSet(CallsMade(s)')
<1> DEFINE pairs == {<<r, i>> : i \in 1..MaxToolCalls}
           pair == [i \in 1..MaxToolCalls |-> <<r, i>>]
<1>1. IsFiniteSet(1..MaxToolCalls)
  BY ExecutionAssumption, FS_Interval
<1>2. pair \in Surjection(1..MaxToolCalls, pairs)
  BY DEF Surjection
<1>3. IsFiniteSet(pairs)
  BY <1>1, <1>2, FS_Surjection
<1>4. CallsMade(s)' \in SUBSET (CallsMade(s) \cup pairs)
  BY DEF CallsMade
<1> QED  BY <1>3, <1>4, FS_Union, FS_Subset

\* A step neither unrecords a call nor makes the number of calls infinite.
LEMMA StepKeepsRecorded ==
    ASSUME TypeOK, TypeOK', NEW r \in Requests, Step(r), NEW s \in Sessions, Records(s)
    PROVE  /\ IsFiniteSet(CallsMade(s)') /\ IsFiniteSet(Recorded(s)')
           /\ Recorded(s) \subseteq Recorded(s)'
           /\ Cardinality(Recorded(s)) \in Nat /\ Cardinality(Recorded(s)') \in Nat
           /\ Cardinality(Recorded(s)) <= Cardinality(Recorded(s)')
<1>1. /\ \A q \in Requests \ {r} : pc'[q] = pc[q] /\ calls'[q] = calls[q]
                                   /\ answered'[q] = answered[q]
  BY StepIsLocal DEF Local
<1>2. IsFiniteSet(CallsMade(s)')
  BY <1>1, CallsStayFinite DEF Records
<1>3. IsFiniteSet(Recorded(s)') /\ IsFiniteSet(Recorded(s))
  <2>1. Recorded(s)' \in SUBSET CallsMade(s)' /\ Recorded(s) \in SUBSET CallsMade(s)
    BY DEF Recorded
  <2> QED  BY <1>2, <2>1, FS_Subset DEF Records
<1>4. Recorded(s) \subseteq Recorded(s)'
  <2> SUFFICES ASSUME NEW c \in Recorded(s)
               PROVE  c \in Recorded(s)'
    OBVIOUS
  <2>1. /\ c \in Requests \X (1..MaxToolCalls) /\ c[1] \in Requests
        /\ c[2] \in Nat /\ c[2] > 0
        /\ Session(c[1]) = s /\ c[2] <= calls[c[1]] /\ Done(c[1], c[2])
    BY ExecutionAssumption DEF Recorded, CallsMade
  <2>2. CASE c[1] # r
    BY <1>1, <2>1, <2>2 DEF Recorded, CallsMade, Done
  <2>3. CASE c[1] = r
    <3>1. Done(c[1], c[2])'
      BY <2>1, <2>3, StepInLoop
    <3>2. calls' = calls
      <4>1. ~FirstReply(r)
        BY <2>1, <2>3 DEF FirstReply, Done, UnrecordedPCs, TypeOK, LocalTypeOK, Locals
      <4> QED  BY <4>1, StepInLoop
    <3> QED  BY <2>1, <3>1, <3>2 DEF Recorded, CallsMade
  <2> QED  BY <2>2, <2>3
<1> QED  BY <1>2, <1>3, <1>4, FS_Subset, FS_CardinalityType

\* The step of a request leaves the records of its session in order.
LEMMA StepRecords ==
    ASSUME TypeOK, TypeOK', NEW r \in Requests, Step(r), NEW s, s = Session(r), Records(s)
    PROVE  Records(s)'
<1>0. /\ s \in Sessions
      /\ toolHistory[s] \in Nat /\ toolHistory'[s] \in Nat
      /\ Cardinality(Answers(s)) \in Nat /\ Cardinality(Answers(s)') \in Nat
      /\ IsFiniteSet(Ahead(s)) /\ Cardinality(Ahead(s)) \in Nat
      /\ Cardinality(Answers(s)) + Cardinality(Ahead(s)) <= toolHistory[s]
      /\ toolHistory[s] <= Cardinality(Recorded(s))
  <2>1. s \in Sessions
    BY ExecutionAssumption
  <2>2. Cardinality(Answers(s)) \in Nat
    BY <2>1, AnswersFinite
  <2>3. Cardinality(Answers(s)') \in Nat
    BY <2>1, AnswersOfList DEF Answers, TypeOK, StoreTypeOK
  <2> QED  BY <2>1, <2>2, <2>3, FS_CardinalityType DEF Records, TypeOK, StoreTypeOK
<1>1. /\ IsFiniteSet(CallsMade(s)')
      /\ Recorded(s) \subseteq Recorded(s)' /\ IsFiniteSet(Recorded(s)')
      /\ Cardinality(Recorded(s)) \in Nat /\ Cardinality(Recorded(s)') \in Nat
      /\ Cardinality(Recorded(s)) <= Cardinality(Recorded(s)')
  BY <1>0, StepKeepsRecorded
<1>2. ASSUME ~RecordToolCall(r)
      PROVE  /\ Ahead(s)' \subseteq Ahead(s)
             /\ IsFiniteSet(Ahead(s)') /\ Cardinality(Ahead(s)') \in Nat
             /\ Cardinality(Ahead(s)') <= Cardinality(Ahead(s))
  <2>1. Ahead(s)' \in SUBSET Ahead(s)
    BY <1>2, StepIsLocal, StepInLoop DEF Local, Ahead
  <2> QED  BY <1>0, <2>1, FS_Subset, FS_CardinalityType
<1>3. ASSUME ~RecordToolCall(r), toolHistory'[s] = toolHistory[s],
             Cardinality(Answers(s)') <= Cardinality(Answers(s))
      PROVE  Records(s)'
  BY <1>0, <1>1, <1>2, <1>3 DEF Records
<1>4. CASE RecordToolCall(r)
  <2>1. /\ pc[r] = "record_push" /\ toolHistory'[s] = toolHistory[s] + 1
        /\ messages' = messages
        /\ pc'[r] \in {"record_expire", "store_error"}
        /\ answered' = answered /\ calls' = calls
    BY <1>0, <1>4 DEF RecordToolCall, PushToolRecord, Reply, Goto, TypeOK, StoreTypeOK, LocalTypeOK
  <2>2. Answers(s)' = Answers(s)
    BY <2>1 DEF Answers
  <2>3. /\ IsFiniteSet(Ahead(s)') /\ Cardinality(Ahead(s)') \in Nat
        /\ Cardinality(Ahead(s)') <= Cardinality(Ahead(s)) + 1
    <3>1. Ahead(s)' \in SUBSET (Ahead(s) \cup {r})
      BY StepIsLocal DEF Local, Ahead
    <3>2. /\ IsFiniteSet(Ahead(s) \cup {r})
          /\ Cardinality(Ahead(s) \cup {r}) \in Nat
          /\ Cardinality(Ahead(s) \cup {r}) <= Cardinality(Ahead(s)) + 1
      <4>1. r \notin Ahead(s)
        BY <2>1 DEF Ahead
      <4>2. /\ IsFiniteSet(Ahead(s) \cup {r})
            /\ Cardinality(Ahead(s) \cup {r}) = Cardinality(Ahead(s)) + 1
        BY <1>0, <4>1, FS_AddElement
      <4> QED  BY <1>0, <4>2
    <3>3. /\ IsFiniteSet(Ahead(s)') /\ Cardinality(Ahead(s)') \in Nat
          /\ Cardinality(Ahead(s)') <= Cardinality(Ahead(s) \cup {r})
      BY <3>1, <3>2, FS_Subset, FS_CardinalityType
    <3> QED  BY <1>0, <3>2, <3>3
  <2>4. Cardinality(Recorded(s)) + 1 <= Cardinality(Recorded(s)')
    <3> DEFINE c == <<r, answered[r] + 1>>
    <3>1. answered[r] \in Nat /\ answered[r] < calls[r] /\ calls[r] \in 0..MaxToolCalls
          /\ MaxToolCalls \in Nat
      BY <2>1, ExecutionAssumption DEF TypeOK, LocalTypeOK, Locals
    <3>2. c \in CallsMade(s)
      <4>1. answered[r] + 1 \in 1..MaxToolCalls /\ answered[r] + 1 <= calls[r]
        BY <3>1
      <4> QED  BY <4>1 DEF CallsMade
    <3>3. c \notin Recorded(s)
      BY <2>1, <3>1 DEF Recorded, Done, UnrecordedPCs
    <3>4. c \in Recorded(s)'
      BY <2>1, <3>1, <3>2 DEF Recorded, CallsMade, Done, UnrecordedPCs, RecordedPCs
    <3>5. IsFiniteSet(Recorded(s))
      BY <1>1, FS_Subset
    <3>6. Recorded(s) \cup {c} \in SUBSET Recorded(s)'
      BY <1>1, <3>4
    <3>7. Cardinality(Recorded(s) \cup {c}) = Cardinality(Recorded(s)) + 1
      BY <3>3, <3>5, FS_AddElement
    <3> QED  BY <1>1, <3>6, <3>7, FS_Subset
  <2> QED  BY <1>0, <1>1, <2>1, <2>2, <2>3, <2>4 DEF Records
<1>5. CASE PushToolAnswer(r)
  <2>1. /\ pc[r] = "tool_push" /\ toolHistory' = toolHistory
        /\ pc'[r] \in {"tool_expire", "store_error"}
        /\ messages'[s] = Append(messages[s], ToolAnswer(r))
    BY <1>0, <1>5 DEF PushToolAnswer, Push, PushMessage, Reply, Goto, TypeOK, StoreTypeOK, LocalTypeOK
  <2>2. ~RecordToolCall(r)
    BY <2>1 DEF RecordToolCall
  <2>3. Cardinality(Answers(s)') = Cardinality(Answers(s)) + 1
    <3>1. ToolAnswer(r) \in Message /\ ToolAnswer(r).role = "tool"
      <4>1. answered[r] + 1 \in 0..MaxToolCalls
        BY <2>1, ExecutionAssumption DEF TypeOK, LocalTypeOK, Locals
      <4> QED  BY <4>1, MessageTypes DEF ToolAnswer, ToolMessage
    <3> QED  BY <1>0, <2>1, <3>1, AppendAnswers
  <2>4. Cardinality(Ahead(s)') + 1 <= Cardinality(Ahead(s))
    <3>1. r \in Ahead(s) /\ r \notin Ahead(s)'
      BY <2>1 DEF Ahead
    <3>2. Ahead(s)' \in SUBSET (Ahead(s) \ {r})
      BY <1>2, <2>2, <3>1
    <3>3. /\ IsFiniteSet(Ahead(s) \ {r})
          /\ Cardinality(Ahead(s) \ {r}) = Cardinality(Ahead(s)) - 1
      BY <1>0, <3>1, FS_RemoveElement
    <3>4. Cardinality(Ahead(s)') <= Cardinality(Ahead(s) \ {r})
      BY <3>2, <3>3, FS_Subset
    <3> QED  BY <1>0, <1>2, <2>2, <3>3, <3>4
  <2> QED  BY <1>0, <1>1, <1>2, <2>1, <2>2, <2>3, <2>4 DEF Records
<1>6. CASE Trim(r)
  <2>1. ~RecordToolCall(r) /\ toolHistory'[s] = toolHistory[s]
    BY <1>6 DEF Trim, TrimMessages, RecordToolCall
  <2>2. total[r] - MaxMessages \in Nat
    BY <1>6, ExecutionAssumption DEF Trim, TypeOK, LocalTypeOK, Locals
  <2>3. messages'[s] = SubSeq(messages[s], total[r] - MaxMessages + 1, Len(messages[s]))
    BY <1>0, <1>6 DEF Trim, TrimMessages, TypeOK, StoreTypeOK
  <2> QED  BY <1>0, <1>3, <2>1, <2>2, <2>3, TrimAnswers
<1>7. ASSUME messages'[s] = messages[s], toolHistory'[s] = toolHistory[s], ~RecordToolCall(r)
      PROVE  Records(s)'
  <2>1. Answers(s)' = Answers(s)
    BY <1>7 DEF Answers
  <2> QED  BY <1>0, <1>3, <1>7, <2>1
<1>8. ASSUME ~RecordToolCall(r), toolHistory'[s] = toolHistory[s], NEW m \in Message,
             m.role # "tool", messages'[s] = Append(messages[s], m)
      PROVE  Records(s)'
  <2>1. Cardinality(Answers(s)') <= Cardinality(Answers(s))
    BY <1>0, <1>8, AppendAnswers
  <2> QED  BY <1>3, <1>8, <2>1
<1> QED  BY <1>4, <1>5, <1>6, <1>7, <1>8, StepOnLists

LEMMA InitHistory == Init => HistoryInv
<1> SUFFICES ASSUME Init, NEW s \in Sessions
             PROVE  Records(s)
  BY InitType, InitDue DEF HistoryInv, History
<1>1. Answers(s) = {} /\ Ahead(s) = {} /\ toolHistory[s] = 0
  BY DEF Init, StoreInit, Answers, Ahead
<1>2. CallsMade(s) = {}
  BY ExecutionAssumption DEF Init, CallsMade
<1>3. Recorded(s) = {}
  BY <1>2 DEF Recorded
<1> QED  BY <1>1, <1>2, <1>3, FS_EmptySet DEF Records

LEMMA NextHistory == HistoryInv /\ [Next]_vars => HistoryInv'
<1> SUFFICES ASSUME HistoryInv, [Next]_vars
             PROVE  HistoryInv'
  OBVIOUS
<1> USE DEF HistoryInv
<1>1. TypeOK' /\ NothingDue'
  BY NextType, NextDue
<1>2. ASSUME NEW s \in Sessions, messages'[s] = messages[s], toolHistory'[s] = toolHistory[s],
             \A q \in Requests : Session(q) = s =>
                 pc'[q] = pc[q] /\ calls'[q] = calls[q] /\ answered'[q] = answered[q],
             Records(s)
      PROVE  Records(s)'
  <2>1. Answers(s)' = Answers(s) /\ Ahead(s)' = Ahead(s)
    BY <1>2 DEF Answers, Ahead
  <2>2. CallsMade(s)' = CallsMade(s)
    BY <1>2 DEF CallsMade
  <2>3. Recorded(s)' = Recorded(s)
    <3>1. \A c \in CallsMade(s) : Done(c[1], c[2])' <=> Done(c[1], c[2])
      BY <1>2 DEF CallsMade, Done
    <3> QED  BY <2>2, <3>1 DEF Recorded
  <2> QED  BY <1>2, <2>1, <2>2, <2>3 DEF Records
<1>3. ASSUME now' < TTL, NEW s \in Sessions
      PROVE  Records(s)'
  <2>1. CASE \E r \in Requests : Step(r)
    <3>1. PICK r \in Requests : Step(r)
      BY <2>1
    <3>2. Records(s)
      BY <1>3, <3>1, StepIsTimeless DEF History
    <3>3. CASE s = Session(r)
      BY <1>1, <3>1, <3>2, <3>3, StepRecords
    <3>4. CASE s # Session(r)
      BY <1>2, <3>1, <3>2, <3>4, StepIsLocal DEF Local
    <3> QED  BY <3>3, <3>4
  <2>2. CASE Pass
    <3>1. now < TTL
      BY <1>3, <2>2, DeadlineIsATime, StoreAssumption DEF Pass, Tick
    <3>2. messages'[s] = messages[s] /\ toolHistory'[s] = toolHistory[s]
      BY <1>3, <2>2, PassTakesNothing
    <3>3. pc' = pc /\ calls' = calls /\ answered' = answered
      BY <2>2 DEF Pass, localVars
    <3> QED  BY <1>2, <3>1, <3>2, <3>3 DEF History
  <2>3. CASE UNCHANGED vars
    BY <1>2, <1>3, <2>3 DEF vars, storeVars, localVars, History
  <2> QED  BY <2>1, <2>2, <2>3 DEF Next, AllEnded
<1> QED  BY <1>1, <1>3 DEF History

\* Before any key can have expired, every tool answer in the messages of a session has
\* its record in the tool history, wherever requests stop and however they overlap, and
\* no call has two.
THEOREM HistoryMatches == Spec => []ToolHistoryMatches
<1>1. HistoryInv => ToolHistoryMatches
  <2> SUFFICES ASSUME HistoryInv, now < TTL, NEW s \in Sessions
               PROVE  toolHistory[s] \in Cardinality(Answers(s)) .. Cardinality(CallsMade(s))
    BY DEF ToolHistoryMatches
  <2>1. /\ IsFiniteSet(Ahead(s)) /\ IsFiniteSet(CallsMade(s))
        /\ Cardinality(Answers(s)) + Cardinality(Ahead(s)) <= toolHistory[s]
        /\ toolHistory[s] <= Cardinality(Recorded(s))
    BY DEF HistoryInv, History, Records
  <2>2. Recorded(s) \in SUBSET CallsMade(s)
    BY DEF Recorded
  <2>3. IsFiniteSet(Recorded(s)) /\ Cardinality(Recorded(s)) <= Cardinality(CallsMade(s))
    BY <2>1, <2>2, FS_Subset
  <2>4. /\ Cardinality(Answers(s)) \in Nat /\ Cardinality(Ahead(s)) \in Nat
        /\ Cardinality(Recorded(s)) \in Nat /\ Cardinality(CallsMade(s)) \in Nat
        /\ toolHistory[s] \in Nat
    BY <2>1, <2>3, AnswersFinite, FS_CardinalityType DEF HistoryInv, TypeOK, StoreTypeOK
  <2> QED  BY <2>1, <2>3, <2>4
<1> QED  BY <1>1, InitHistory, NextHistory, PTL DEF Spec

=============================================================================
