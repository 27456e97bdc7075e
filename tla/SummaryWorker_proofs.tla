------------------------ MODULE SummaryWorker_proofs ------------------------
(***************************************************************************)
(* The summary task beside the requests: it keeps what the execution path  *)
(* promises of the session's log, and a session's summary moves forward    *)
(* when its jobs are run one at a time.                                    *)
(***************************************************************************)
EXTENDS SummaryWorker, SessionLog_proofs, Memory_proofs

USE DEF Session

-----------------------------------------------------------------------------
(***************************************************************************)
(* A job leaves the locals of the requests alone, and does one thing at    *)
(* most to the store.                                                      *)
(***************************************************************************)

JobStores(j) ==
    \/ UNCHANGED storeVars
    \/ SetSummary(JobSession[j])
    \/ job[j] = "trim_ltrim" /\ TrimMessages(JobSession[j], seen[j], MaxMessages)

LEMMA JobOnStore ==
    ASSUME NEW j \in Jobs, Summarise(j) \/ WorkerDies(j)
    PROVE  UNCHANGED localVars /\ JobStores(j)
<1> USE DEF vars, JobStores
<1>1. CASE SaveSummary(j)
  BY <1>1 DEF SaveSummary
<1>2. CASE JobTrim(j)
  BY <1>2 DEF JobTrim
<1>3. CASE \/ Deliver(j) \/ LoadForSummary(j) \/ JobCheckTrim(j) \/ JobReadLength(j)
           \/ JobRaises(j) \/ WorkerDies(j)
  BY <1>3 DEF Deliver, LoadForSummary, JobCheckTrim, JobReadLength, JobRaises, WorkerDies
<1> QED  BY <1>1, <1>2, <1>3 DEF Summarise

LEMMA JobTypes ==
    ASSUME TypeOK, WorkerTypeOK, NEW j \in Jobs, Summarise(j) \/ WorkerDies(j)
    PROVE  WorkerTypeOK'
<1>0. /\ JobSession[j] \in Sessions
      /\ messages[JobSession[j]] \in Seq(Message)
      /\ MaxRetries \in Nat /\ MaxMessages \in Nat
  BY SummaryAssumption, ExecutionAssumption DEF TypeOK, StoreTypeOK
<1> USE <1>0 DEF WorkerTypeOK, Running, JobEnded, JobGoto
<1>1. CASE Deliver(j)
  BY <1>1 DEF Deliver
<1>2. CASE LoadForSummary(j)
  BY <1>2 DEF LoadForSummary
<1>3. ASSUME Retry(j)
      PROVE  /\ job' \in [Jobs -> {"queued"} \cup Running \cup JobEnded]
             /\ retries' \in [Jobs -> 0..MaxRetries]
             /\ \A k \in Jobs : job'[k] = "trim_ltrim" => job[k] = "trim_ltrim" /\ k # j
  <2>1. CASE retries[j] < MaxRetries
    <3>1. retries[j] + 1 \in 0..MaxRetries
      BY <2>1
    <3> QED  BY <1>3, <2>1, <3>1 DEF Retry
  <2>2. CASE ~(retries[j] < MaxRetries)
    BY <1>3, <2>2 DEF Retry
  <2> QED  BY <2>1, <2>2
<1>4. ASSUME NEW l \in Running \cup JobEnded, l # "trim_ltrim", JobReply(j, l)
      PROVE  /\ job' \in [Jobs -> {"queued"} \cup Running \cup JobEnded]
             /\ retries' \in [Jobs -> 0..MaxRetries]
             /\ \A k \in Jobs : job'[k] = "trim_ltrim" => job[k] = "trim_ltrim" /\ k # j
  BY <1>3, <1>4 DEF JobReply
<1>5. CASE SaveSummary(j)
  <2>1. Older(loaded[j]) \in SUBSET Message
    BY SummaryAssumption DEF Older
  <2> QED  BY <1>4, <1>5, <2>1 DEF SaveSummary
<1>6. CASE JobCheckTrim(j)
  BY <1>6 DEF JobCheckTrim
<1>7. CASE JobReadLength(j)
  BY <1>7 DEF JobReadLength
<1>8. CASE JobTrim(j)
  BY <1>4, <1>8 DEF JobTrim
<1>9. CASE JobRaises(j)
  BY <1>3, <1>9 DEF JobRaises
<1>10. CASE WorkerDies(j)
  BY <1>10 DEF WorkerDies
<1> QED
  BY <1>1, <1>2, <1>5, <1>6, <1>7, <1>8, <1>9, <1>10 DEF Summarise

\* SET summary and LTRIM keep the types of the keys.
LEMMA JobTypeOK ==
    ASSUME TypeOK, WorkerTypeOK, NEW j \in Jobs, UNCHANGED localVars, JobStores(j)
    PROVE  TypeOK'
<1>0. /\ JobSession[j] \in Sessions /\ MaxMessages \in Nat /\ seen[j] \in Nat
      /\ job[j] = "trim_ltrim" => seen[j] > MaxMessages
  BY SummaryAssumption, ExecutionAssumption DEF WorkerTypeOK
<1>1. StoreTypeOK'
  <2>1. CASE UNCHANGED storeVars
    BY <2>1 DEF storeVars, TypeOK, StoreTypeOK
  <2>2. CASE SetSummary(JobSession[j])
    BY <1>0, <2>2, StoreAssumption DEF SetSummary, ExpireAt, Keys, TypeOK, StoreTypeOK
  <2>3. CASE job[j] = "trim_ltrim" /\ TrimMessages(JobSession[j], seen[j], MaxMessages)
    BY <1>0, <2>3, TrimMessagesType DEF TypeOK
  <2> QED  BY <2>1, <2>2, <2>3 DEF JobStores
<1>2. LocalTypeOK' /\ Locals'
  BY DEF localVars, TypeOK, LocalTypeOK, Locals
<1> QED  BY <1>1, <1>2 DEF TypeOK

LEMMA JobOwnership ==
    ASSUME TypeOK, Ownership, WorkerTypeOK, NEW j \in Jobs, UNCHANGED localVars, JobStores(j)
    PROVE  Ownership'
<1> DEFINE s == JobSession[j]
<1>0. /\ s \in Sessions /\ MaxMessages \in Nat /\ seen[j] \in Nat
      /\ \A x \in Sessions : messages[x] \in Seq(Message)
      /\ job[j] = "trim_ltrim" => seen[j] - MaxMessages \in Nat
  BY SummaryAssumption, ExecutionAssumption DEF WorkerTypeOK, TypeOK, StoreTypeOK
<1>1. UNCHANGED <<owner, lapsed, pc, prompt>>
  BY DEF JobStores, storeVars, SetSummary, TrimMessages, localVars
<1>2. \A x \in Sessions : \A u : WrittenBy(messages[x], u) => WrittenBy(messages'[x], u)
  <2>1. CASE messages' = messages
    BY <2>1
  <2>2. CASE job[j] = "trim_ltrim" /\ TrimMessages(s, seen[j], MaxMessages)
    <3>1. /\ \A x \in Sessions \ {s} : messages'[x] = messages[x]
          /\ messages'[s] = SubSeq(messages[s], seen[j] - MaxMessages + 1, Len(messages[s]))
      BY <1>0, <2>2 DEF TrimMessages, TypeOK, StoreTypeOK
    <3>2. \A u : WrittenBy(messages[s], u) => WrittenBy(messages'[s], u)
      BY <1>0, <2>2, <3>1, WrittenSuffix
    <3> QED  BY <3>1, <3>2
  <2> QED  BY <2>1, <2>2 DEF JobStores, storeVars, SetSummary
<1>3. SessionIsolation'
  BY <1>1, <1>2 DEF Ownership, SessionIsolation
<1> QED
  BY <1>1, <1>3 DEF Ownership, RefusedOnlyStrangers, VerifyFindsOwner

WorkerInv == TypeOK /\ Ownership /\ WorkerTypeOK

LEMMA InitWorker == WInit => WorkerInv
<1>1. WInit => TypeOK /\ Ownership
  BY InitType, InitOwnership DEF WInit
<1>2. WInit => WorkerTypeOK
  BY SummaryAssumption DEF WInit, WorkerTypeOK
<1> QED  BY <1>1, <1>2 DEF WorkerInv

\* A step of the worker's system is one of a job, of a request or of the clock.
LEMMA WorkerSteps ==
    ASSUME [WNext]_workerVars
    PROVE  \/ \E j \in Jobs : Summarise(j) \/ WorkerDies(j)
           \/ [Next]_vars /\ UNCHANGED jobVars
           \/ /\ Pass
              /\ covers' = [s \in Sessions |-> IF summary'[s] THEN covers[s] ELSE {}]
              /\ UNCHANGED <<job, retries, loaded, seen>>
  BY DEF WNext, workerVars, Next

LEMMA NextWorker == WorkerInv /\ [WNext]_workerVars => WorkerInv'
<1> SUFFICES ASSUME WorkerInv, [WNext]_workerVars
             PROVE  WorkerInv'
  OBVIOUS
<1> USE DEF WorkerInv
<1>1. ASSUME NEW j \in Jobs, Summarise(j) \/ WorkerDies(j)
      PROVE  WorkerInv'
  BY <1>1, JobOnStore, JobTypes, JobTypeOK, JobOwnership
<1>2. CASE [Next]_vars /\ UNCHANGED jobVars
  BY <1>2, NextType, NextOwnership DEF jobVars, WorkerTypeOK
<1>3. CASE /\ Pass
           /\ covers' = [s \in Sessions |-> IF summary'[s] THEN covers[s] ELSE {}]
           /\ UNCHANGED <<job, retries, loaded, seen>>
  <2>1. TypeOK' /\ Ownership'
    BY <1>3, NextType, NextOwnership DEF Next
  <2> QED  BY <1>3, <2>1 DEF WorkerTypeOK
<1> QED  BY <1>1, <1>2, <1>3, WorkerSteps

\* The worker's variables keep their types, and a job that sends LTRIM has read a
\* length above the limit.
THEOREM WorkerTypes == WSpec => []WorkerTypeOK
<1>1. WorkerInv => WorkerTypeOK
  BY DEF WorkerInv
<1> QED  BY <1>1, InitWorker, NextWorker, PTL DEF WSpec

LEMMA NextWorkerRefines == WorkerInv /\ [WNext]_workerVars => [Log!Next]_(Log!logVars)
<1> SUFFICES ASSUME WorkerInv, [WNext]_workerVars
             PROVE  [Log!Next]_(Log!logVars)
  OBVIOUS
<1> USE DEF WorkerInv
<1>1. ASSUME NEW j \in Jobs, JobStores(j)
      PROVE  [Log!Next]_(Log!logVars)
  <2>0. /\ JobSession[j] \in Sessions /\ seen[j] \in Nat
        /\ job[j] = "trim_ltrim" => seen[j] > MaxMessages
    BY SummaryAssumption DEF WorkerTypeOK
  <2>1. CASE UNCHANGED storeVars \/ SetSummary(JobSession[j])
    BY <2>1, QuietRefines DEF storeVars, SetSummary
  <2>2. CASE job[j] = "trim_ltrim" /\ TrimMessages(JobSession[j], seen[j], MaxMessages)
    BY <2>0, <2>2, TrimMessagesRefines
  <2> QED  BY <1>1, <2>1, <2>2 DEF JobStores
<1>2. CASE Pass \/ [Next]_vars
  BY <1>2, NextRefines DEF Next
<1> QED  BY <1>1, <1>2, JobOnStore, WorkerSteps

\* Beside the worker too, the store behaves as the session log: a job adds nothing
\* to a session and takes only from the front.
THEOREM WorkerRefinement == WSpec => ImplementsSessionLog
<1>1. WInit => Log!Init
  BY InitRefines DEF WInit
<1> QED
  BY <1>1, InitWorker, NextWorker, NextWorkerRefines, PTL
     DEF WSpec, ImplementsSessionLog, Log!Spec

-----------------------------------------------------------------------------
(***************************************************************************)
(* A request stores each of its messages once: what it has stored, or has  *)
(* gone past storing, it does not store again.                             *)
(***************************************************************************)

Unasked   == {"idle", "bind", "verify", "load", "user_push"}
Undecided == Unasked \cup {"user_expire", "llm1", "decl_push"}

Said(m) ==
    LET r == m.by IN
    \/ pc[r] \in Ended
    \/ m.role = "user" /\ pc[r] \notin Unasked
    \/ m.role = "assistant" /\ m.n > 0 /\ pc[r] \notin Undecided
    \/ m.role = "assistant" /\ m.n = 0 /\ pc[r] \in ClosingPCs
    \/ m.role = "tool" /\ \/ m.n <= answered[r]
                          \/ pc[r] = "tool_expire" /\ m.n = answered[r] + 1

LEMMA SaidStays ==
    ASSUME TypeOK, NEW r \in Requests, Step(r), NEW m \in Message, Said(m)
    PROVE  Said(m)'
<1>0. /\ pc \in [Requests -> PCs] /\ answered \in [Requests -> Nat]
      /\ m.by \in Requests /\ m.n \in Nat
      /\ pc[r] \in {"decl_expire", "llm1", "load"} => answered[r] = 0
  BY ExecutionAssumption DEF TypeOK, LocalTypeOK, Locals, Message
<1> USE <1>0 DEF Said, Goto, Reply, Unasked, Undecided, ClosingPCs, TrimPCs, ReportPCs, Ended
<1>1. CASE Admit(r)
  BY <1>1 DEF Admit, Start, BindOwner, VerifyOwner, OwnerVerdict
<1>2. CASE Ask(r)
  BY <1>2 DEF Ask, LoadHistory, PushTask, Push, ExpireTask, Expire, FirstReply
<1>3. CASE PushDeclaration(r) \/ PushToolAnswer(r)
  BY <1>3 DEF PushDeclaration, PushToolAnswer, Push
<1>4. CASE ExpireToolAnswer(r)
  BY <1>4 DEF ExpireToolAnswer, Expire
<1>5. CASE \/ ExpireDeclaration(r) \/ RunTool(r) \/ RecordToolCall(r) \/ ExpireToolRecord(r)
           \/ SecondReply(r)
  BY <1>5 DEF ExpireDeclaration, RunTool, RecordToolCall, ExpireToolRecord, SecondReply, Expire
<1>6. CASE Finish(r)
  BY <1>6 DEF Finish, PushAnswer, Push, ExpireAnswer, Expire, CheckTrim, ReadLength, Trim,
     CountMessages, Complete
<1>7. CASE Break(r)
  BY <1>7 DEF Break, StoreFails, ModelFails, ToolRaises, Crash, Fail
<1> QED  BY <1>1, <1>2, <1>3, <1>4, <1>5, <1>6, <1>7 DEF Step, UseTools

\* What becomes of the list of s: nothing, or its oldest messages go, or a message
\* is added that had not been said.
Adds(s, m) ==
    /\ ~Said(m) /\ Said(m)'
    /\ messages'[s] = Append(messages[s], m)

Cuts(s, start) == messages'[s] = SubSeq(messages[s], start + 1, Len(messages[s]))

Moves(s) ==
    \/ messages'[s] = messages[s]
    \/ \E m \in Message : Adds(s, m)
    \/ \E start \in Nat : Cuts(s, start)

LEMMA PushAdds ==
    ASSUME TypeOK, NEW r \in Requests, NEW from, NEW to, NEW m \in Message, m.by = r,
           Push(r, from, m, to), ~Said(m), pc'[r] = to => Said(m)'
    PROVE  Moves(Session(r))
<1>1. /\ pc'[r] \in {to, "store_error"}
      /\ messages'[Session(r)] = Append(messages[Session(r)], m)
  BY ExecutionAssumption
  DEF Push, PushMessage, Reply, Goto, TypeOK, StoreTypeOK, LocalTypeOK
<1>2. Said(m)'
  BY <1>1 DEF Said, Ended
<1> QED  BY <1>1, <1>2 DEF Moves, Adds

LEMMA StepMoves ==
    ASSUME TypeOK, NEW r \in Requests, Step(r)
    PROVE  \A s \in Sessions : Moves(s)
<1> USE DEF Unasked, Undecided, Ended, ClosingPCs, TrimPCs, ReportPCs
<1>0. /\ \A s \in Sessions \ {Session(r)} : messages'[s] = messages[s]
      /\ Session(r) \in Sessions
  BY ExecutionAssumption, StepIsLocal DEF Local
<1> SUFFICES Moves(Session(r))
  BY <1>0 DEF Moves
<1>1. CASE PushTask(r)
  <2>1. PICK m \in Message : m = UserMessage(r) /\ m.by = r /\ m.role = "user"
    BY MessageTypes DEF UserMessage
  <2>2. pc[r] = "user_push" /\ Push(r, "user_push", m, "user_expire")
    BY <1>1, <2>1 DEF PushTask, Push
  <2>3. ~Said(m) /\ (pc'[r] = "user_expire" => Said(m)')
    BY <2>1, <2>2 DEF Said
  <2> QED  BY <2>1, <2>2, <2>3, PushAdds
<1>2. CASE PushDeclaration(r)
  <2>0. Declaration(r) \in Message
    BY MessageTypes DEF Declaration, TypeOK, LocalTypeOK
  <2>1. PICK m \in Message : /\ m = Declaration(r)
                             /\ m.by = r /\ m.role = "assistant" /\ m.n = calls[r]
    BY <2>0 DEF Declaration, ToolCallsMessage
  <2>2. pc[r] = "decl_push" /\ Push(r, "decl_push", m, "decl_expire")
    BY <1>2, <2>1 DEF PushDeclaration, Push
  <2>3. calls[r] > 0 /\ calls[r] \in Nat
    BY <2>2, ExecutionAssumption DEF TypeOK, LocalTypeOK, Locals
  <2>4. ~Said(m) /\ (pc'[r] = "decl_expire" => Said(m)')
    BY <2>1, <2>2, <2>3 DEF Said
  <2> QED  BY <2>1, <2>2, <2>4, PushAdds
<1>3. CASE PushToolAnswer(r)
  <2>1. /\ pc[r] = "tool_push" /\ answered' = answered
        /\ Push(r, "tool_push", ToolAnswer(r), "tool_expire")
    BY <1>3 DEF PushToolAnswer, Push
  <2>2. answered[r] \in Nat /\ answered[r] + 1 \in 0..MaxToolCalls
    BY <2>1, ExecutionAssumption DEF TypeOK, LocalTypeOK, Locals
  <2>3. PICK m \in Message : /\ m = ToolAnswer(r)
                             /\ m.by = r /\ m.role = "tool" /\ m.n = answered[r] + 1
    BY <2>2, MessageTypes DEF ToolAnswer, ToolMessage
  <2>4. ~Said(m) /\ (pc'[r] = "tool_expire" => Said(m)')
    BY <2>1, <2>2, <2>3 DEF Said
  <2> QED  BY <2>1, <2>3, <2>4, PushAdds
<1>4. CASE PushAnswer(r)
  <2>1. PICK m \in Message : /\ m = AssistantMessage(r)
                             /\ m.by = r /\ m.role = "assistant" /\ m.n = 0
    BY MessageTypes DEF AssistantMessage
  <2>2. pc[r] = "final_push" /\ Push(r, "final_push", m, "final_expire")
    BY <1>4, <2>1 DEF PushAnswer, Push
  <2>3. ~Said(m) /\ (pc'[r] = "final_expire" => Said(m)')
    BY <2>1, <2>2 DEF Said
  <2> QED  BY <2>1, <2>2, <2>3, PushAdds
<1>5. CASE Trim(r)
  <2>1. total[r] - MaxMessages \in Nat
    BY <1>5, ExecutionAssumption DEF Trim, TypeOK, LocalTypeOK, Locals
  <2>2. Cuts(Session(r), total[r] - MaxMessages)
    BY <1>5, ExecutionAssumption DEF Cuts, Trim, TrimMessages, TypeOK, StoreTypeOK
  <2> QED  BY <2>1, <2>2 DEF Moves
<1>6. CASE \/ ExpireTask(r) \/ ExpireDeclaration(r) \/ ExpireToolRecord(r)
           \/ ExpireToolAnswer(r) \/ ExpireAnswer(r) \/ RecordToolCall(r)
  BY <1>6 DEF Moves, ExpireTask, ExpireDeclaration, ExpireToolRecord, ExpireToolHistory,
     ExpireToolAnswer, ExpireAnswer, Expire, ExpireMessages, RecordToolCall, PushToolRecord
<1>7. CASE Admit(r)
  BY <1>7 DEF Moves, Admit, Start, BindOwner, SetOwner, VerifyOwner, storeVars
<1>8. CASE \/ LoadHistory(r) \/ FirstReply(r) \/ RunTool(r) \/ SecondReply(r) \/ CheckTrim(r)
           \/ ReadLength(r) \/ CountMessages(r) \/ Complete(r)
  BY <1>8 DEF Moves, LoadHistory, FirstReply, RunTool, SecondReply, CheckTrim, ReadLength,
     CountMessages, Complete, storeVars
<1>9. CASE Break(r)
  BY <1>9 DEF Moves, Break, StoreFails, ModelFails, ToolRaises, Crash, Fail, storeVars
<1> QED
  BY <1>1, <1>2, <1>3, <1>4, <1>5, <1>6, <1>7, <1>8, <1>9 DEF Step, Ask, UseTools, Finish


-----------------------------------------------------------------------------
(***************************************************************************)
(* The stored summary stays behind the list: of what is in the list, it    *)
(* was made of nothing that is among the KeepRecent newest.                *)
(***************************************************************************)

Once(list) == \A i, k \in 1..Len(list) : list[i] = list[k] => i = k

Behind(list, S) == \A i \in 1..Len(list) : list[i] \in S => i <= Len(list) - KeepRecent

ItemsOf(list) == {list[i] : i \in 1..Len(list)}

LEMMA AppendBehind ==
    ASSUME NEW list \in Seq(Message), NEW m \in Message, m \notin ItemsOf(list)
    PROVE  /\ Once(list) => Once(Append(list, m))
           /\ \A S : Behind(list, S) /\ m \notin S => Behind(Append(list, m), S)
           /\ ItemsOf(Append(list, m)) = ItemsOf(list) \cup {m}
<1> DEFINE new == Append(list, m)
<1>1. /\ Len(new) = Len(list) + 1 /\ Len(list) \in Nat /\ KeepRecent \in Nat
      /\ new[Len(list) + 1] = m
      /\ \A i \in 1..Len(list) : new[i] = list[i]
  BY SummaryAssumption
<1> HIDE DEF new
<1>2. \A i \in 1..Len(new) : i \in 1..Len(list) \/ i = Len(list) + 1
  BY <1>1
<1>3. \A i \in 1..Len(list) : list[i] # m
  BY DEF ItemsOf
<1>4. Once(list) => Once(new)
  BY <1>1, <1>2, <1>3 DEF Once
<1>5. ASSUME NEW S, Behind(list, S), m \notin S, NEW i \in 1..Len(new), new[i] \in S
      PROVE  i <= Len(new) - KeepRecent
  <2>1. i \in 1..Len(list) /\ list[i] \in S
    BY <1>1, <1>2, <1>5
  <2>2. i <= Len(list) - KeepRecent
    BY <1>5, <2>1 DEF Behind
  <2> QED  BY <1>1, <2>1, <2>2
<1>6. ItemsOf(new) = ItemsOf(list) \cup {m}
  <2>1. 1..Len(new) = 1..Len(list) \cup {Len(list) + 1}
    BY <1>1
  <2> QED  BY <1>1, <2>1 DEF ItemsOf
<1> QED  BY <1>4, <1>5, <1>6 DEF Behind, new

LEMMA SuffixBehind ==
    ASSUME NEW list \in Seq(Message), NEW start \in Nat
    PROVE  LET rest == SubSeq(list, start + 1, Len(list)) IN
           /\ Once(list) => Once(rest)
           /\ \A S : Behind(list, S) => Behind(rest, S)
           /\ ItemsOf(rest) \in SUBSET ItemsOf(list)
<1> DEFINE rest == SubSeq(list, start + 1, Len(list))
<1>1. /\ Len(list) \in Nat
      /\ Len(rest) = (IF start < Len(list) THEN Len(list) - start ELSE 0)
      /\ \A i \in 1..Len(rest) : rest[i] = list[i + start]
  OBVIOUS
<1> HIDE DEF rest
<1>2. \A i \in 1..Len(rest) : /\ i \in Nat /\ i + start \in 1..Len(list)
                              /\ Len(rest) = Len(list) - start
  BY <1>1
<1>3. \A i, k \in 1..Len(rest) : i + start = k + start => i = k
  BY <1>2
<1>4. Once(list) => Once(rest)
  BY <1>1, <1>2, <1>3 DEF Once
<1>5. ASSUME NEW S, Behind(list, S), NEW i \in 1..Len(rest), rest[i] \in S
      PROVE  i <= Len(rest) - KeepRecent
  <2>1. i + start <= Len(list) - KeepRecent
    BY <1>1, <1>2, <1>5 DEF Behind
  <2> QED  BY <1>1, <1>2, <2>1, SummaryAssumption
<1>6. ItemsOf(rest) \in SUBSET ItemsOf(list)
  BY <1>1, <1>2 DEF ItemsOf
<1> QED  BY <1>4, <1>5, <1>6 DEF Behind, rest

\* Of a list that holds nothing twice, all but the newest are behind it.
LEMMA OlderBehind ==
    ASSUME NEW list \in Seq(Message), Once(list)
    PROVE  /\ Behind(list, Older(list))
           /\ Older(list) \in SUBSET ItemsOf(list)
           /\ \A S : Behind(list, S) => S \cap ItemsOf(list) \subseteq Older(list)
<1>1. Len(list) \in Nat /\ KeepRecent \in Nat
  BY SummaryAssumption
<1>2. \A i \in 1..(Len(list) - KeepRecent) : i \in 1..Len(list) /\ i <= Len(list) - KeepRecent
  BY <1>1
<1>3. \A i \in 1..Len(list) : i <= Len(list) - KeepRecent => i \in 1..(Len(list) - KeepRecent)
  BY <1>1
<1>4. Behind(list, Older(list))
  BY <1>2 DEF Behind, Older, Once
<1>5. Older(list) \in SUBSET ItemsOf(list)
  BY <1>2 DEF Older, ItemsOf
<1>6. \A S : Behind(list, S) => S \cap ItemsOf(list) \subseteq Older(list)
  BY <1>3 DEF Behind, ItemsOf, Older
<1> QED  BY <1>4, <1>5, <1>6

\* What is in the list or in the summary has been said, and the summary is behind
\* the list; so is the summary a job is about to store, which leaves out nothing of
\* the stored one that is still in the list.
Summarised(s) ==
    /\ Once(messages[s])
    /\ Behind(messages[s], covers[s])
    /\ \A m \in ItemsOf(messages[s]) \cup covers[s] : Said(m)

Saves(j) ==
    LET s == JobSession[j] IN
    job[j] = "save" =>
        /\ Behind(messages[s], Older(loaded[j]))
        /\ covers[s] \cap ItemsOf(messages[s]) \subseteq Older(loaded[j])
        /\ \A m \in Older(loaded[j]) : Said(m)

Apart ==
    \A j, k \in Jobs :
        job[j] \in Running /\ job[k] \in Running /\ JobSession[j] = JobSession[k] => j = k

ForwardInv ==
    /\ WorkerInv
    /\ \A s \in Sessions : Summarised(s)
    /\ \A j \in Jobs : Saves(j)
    /\ Apart

\* It survives what becomes of the lists while the summaries stay or expire.
LEMMA MovesKeepBehind ==
    ASSUME WorkerInv, WorkerInv',
           \A s \in Sessions : Moves(s) /\ covers'[s] \in SUBSET covers[s],
           \A m \in Message : Said(m) => Said(m)'
    PROVE  /\ (\A s \in Sessions : Summarised(s)) => (\A s \in Sessions : Summarised(s))'
           /\ \A j \in Jobs :
                 /\ Summarised(JobSession[j]) /\ Saves(j)
                 /\ job'[j] = "save" => job[j] = "save" /\ loaded'[j] = loaded[j]
                 => Saves(j)'
<1>0. /\ \A s \in Sessions : messages[s] \in Seq(Message)
      /\ \A s \in Sessions : covers[s] \in SUBSET Message
      /\ \A j \in Jobs : Older(loaded[j]) \in SUBSET Message /\ JobSession[j] \in Sessions
  <2>1. \A list \in Seq(Message) : Older(list) \in SUBSET Message
    BY SummaryAssumption DEF Older
  <2> QED
    BY <2>1, SummaryAssumption DEF WorkerInv, TypeOK, StoreTypeOK, WorkerTypeOK
<1>1. ASSUME NEW s \in Sessions, Summarised(s)
      PROVE  /\ Once(messages'[s])
             /\ \A S : Behind(messages[s], S) /\ (\A m \in S : Said(m))
                         => Behind(messages'[s], S)
             /\ \A m \in ItemsOf(messages'[s]) : Said(m)'
             /\ \A S : (\A m \in S : Said(m))
                         => S \cap ItemsOf(messages'[s]) \subseteq ItemsOf(messages[s])
  <2> DEFINE list == messages[s]
  <2>0. /\ list \in Seq(Message) /\ Once(list)
        /\ ItemsOf(list) \in SUBSET Message /\ \A m \in ItemsOf(list) : Said(m)
    BY <1>0, <1>1 DEF Summarised, ItemsOf
  <2>1. CASE messages'[s] = list
    BY <2>0, <2>1
  <2>2. CASE \E m \in Message : Adds(s, m)
    <3>1. PICK m \in Message : Adds(s, m)
      BY <2>2
    <3>2. ~Said(m) /\ Said(m)' /\ messages'[s] = Append(list, m)
      BY <3>1 DEF Adds
    <3> HIDE DEF list
    <3>3. m \notin ItemsOf(list)
      BY <2>0, <3>2
    <3>4. /\ Once(messages'[s])
          /\ \A S : Behind(list, S) /\ m \notin S => Behind(messages'[s], S)
          /\ ItemsOf(messages'[s]) = ItemsOf(list) \cup {m}
      BY <2>0, <3>2, <3>3, AppendBehind
    <3>5. \A S : (\A x \in S : Said(x)) => m \notin S
      BY <3>2
    <3>6. \A x \in ItemsOf(list) : Said(x)'
      BY <2>0
    <3>7. \A x \in ItemsOf(messages'[s]) : Said(x)'
      BY <3>2, <3>4, <3>6
    <3> QED  BY <3>4, <3>5, <3>7 DEF list
  <2>3. CASE \E start \in Nat : Cuts(s, start)
    <3>1. PICK start \in Nat : messages'[s] = SubSeq(list, start + 1, Len(list))
      BY <2>3 DEF Cuts
    <3> HIDE DEF list
    <3>2. /\ Once(messages'[s])
          /\ \A S : Behind(list, S) => Behind(messages'[s], S)
          /\ ItemsOf(messages'[s]) \in SUBSET ItemsOf(list)
      BY <2>0, <3>1, SuffixBehind
    <3>3. \A x \in ItemsOf(messages'[s]) : Said(x)'
      BY <2>0, <3>2
    <3> QED  BY <3>2, <3>3 DEF list
  <2> QED  BY <2>1, <2>2, <2>3 DEF Moves
<1>2. ASSUME NEW s \in Sessions, Summarised(s)
      PROVE  Summarised(s)'
  <2>1. Behind(messages'[s], covers[s])
    BY <1>1, <1>2 DEF Summarised
  <2>2. Behind(messages'[s], covers'[s])
    BY <2>1 DEF Behind
  <2>3. \A m \in covers'[s] : Said(m)'
    BY <1>0, <1>2 DEF Summarised
  <2> QED  BY <1>1, <1>2, <2>2, <2>3 DEF Summarised, Once, Behind, ItemsOf
<1>3. ASSUME NEW j \in Jobs, Summarised(JobSession[j]), Saves(j),
             job'[j] = "save", job[j] = "save", loaded'[j] = loaded[j]
      PROVE  Saves(j)'
  <2> DEFINE s == JobSession[j]
             S == Older(loaded[j])
  <2>0. /\ s \in Sessions /\ S \in SUBSET Message
        /\ Behind(messages[s], S) /\ (\A m \in S : Said(m))
        /\ covers[s] \cap ItemsOf(messages[s]) \subseteq S
        /\ \A m \in covers[s] : Said(m)
    BY <1>0, <1>3 DEF Saves, Summarised
  <2>1. Behind(messages'[s], S)
    BY <1>1, <1>3, <2>0
  <2>2. covers'[s] \cap ItemsOf(messages'[s]) \subseteq S
    BY <1>1, <1>3, <2>0
  <2>3. \A m \in S : Said(m)'
    BY <2>0
  <2>4. Older(loaded[j])' = S
    BY <1>3 DEF Older
  <2> QED  BY <2>1, <2>2, <2>3, <2>4 DEF Saves, Behind, ItemsOf
<1> QED  BY <1>2, <1>3 DEF Saves


\* Of one session's jobs one is running at most, when they are run one at a time.
LEMMA JobApart ==
    ASSUME JobsApart, WorkerTypeOK, Apart, NEW j \in Jobs, Summarise(j) \/ WorkerDies(j)
    PROVE  Apart'
<1> USE DEF WorkerTypeOK, JobGoto, Running
<1>0. \A k \in Jobs \ {j} : job'[k] = job[k]
  BY DEF Summarise, Deliver, LoadForSummary, SaveSummary, JobCheckTrim, JobReadLength,
     JobTrim, JobRaises, WorkerDies, JobReply, Retry
<1>1. CASE Deliver(j)
  <2>1. \A k \in Jobs \ {j} : JobSession[j] = JobSession[k] => job'[k] \notin Running
    BY <1>0, <1>1 DEF Deliver
  <2> QED  BY <1>0, <2>1 DEF Apart
<1>2. CASE ~Deliver(j)
  <2>1. job[j] \in Running
    BY <1>2 DEF Summarise, LoadForSummary, SaveSummary, JobCheckTrim, JobReadLength, JobTrim,
       JobRaises, WorkerDies
  <2> QED  BY <1>0, <2>1 DEF Apart
<1> QED  BY <1>1, <1>2

\* Where a job neither loads nor saves, the lists move and nothing else does.
LEMMA JobMoves ==
    ASSUME WorkerInv, NEW j \in Jobs, Summarise(j) \/ WorkerDies(j)
    PROVE  \/ LoadForSummary(j)
           \/ SaveSummary(j)
           \/ /\ covers' = covers
              /\ \A s \in Sessions : Moves(s)
              /\ \A k \in Jobs : job'[k] = "save" => job[k] = "save" /\ loaded'[k] = loaded[k]
<1>0. WorkerTypeOK /\ messages \in [Sessions -> Seq(Message)] /\ JobSession[j] \in Sessions
  BY SummaryAssumption DEF WorkerInv, TypeOK, StoreTypeOK
<1> USE <1>0 DEF WorkerTypeOK, JobGoto
<1>1. CASE JobTrim(j)
  <2> DEFINE s == JobSession[j]
             start == seen[j] - MaxMessages
  <2>1. start \in Nat
    BY <1>1, ExecutionAssumption DEF JobTrim
  <2>2. Cuts(s, start) /\ \A x \in Sessions \ {s} : messages'[x] = messages[x]
    BY <1>1 DEF JobTrim, TrimMessages, Cuts
  <2>3. \A x \in Sessions : Moves(x)
    BY <2>1, <2>2 DEF Moves
  <2>4. covers' = covers /\ loaded' = loaded
    BY <1>1 DEF JobTrim
  <2>5. \A k \in Jobs : job'[k] = "save" => job[k] = "save"
    BY <1>1 DEF JobTrim, JobReply, Retry
  <2> QED  BY <2>3, <2>4, <2>5
<1>2. CASE Deliver(j) \/ JobCheckTrim(j) \/ JobReadLength(j) \/ JobRaises(j) \/ WorkerDies(j)
  <2>1. messages' = messages /\ covers' = covers /\ loaded' = loaded
    BY <1>2 DEF Deliver, JobCheckTrim, JobReadLength, JobRaises, WorkerDies, vars, storeVars
  <2>2. \A k \in Jobs : job'[k] = "save" => job[k] = "save"
    BY <1>2 DEF Deliver, JobCheckTrim, JobReadLength, JobRaises, WorkerDies, Retry
  <2> QED  BY <2>1, <2>2 DEF Moves
<1> QED  BY <1>1, <1>2 DEF Summarise

LEMMA LoadForward ==
    ASSUME ForwardInv, NEW j \in Jobs, LoadForSummary(j)
    PROVE  (\A s \in Sessions : Summarised(s))' /\ (\A k \in Jobs : Saves(k))'
<1> DEFINE s == JobSession[j]
           list == messages[s]
<1>1. /\ s \in Sessions /\ list \in Seq(Message) /\ Summarised(s)
      /\ UNCHANGED <<vars, covers>> /\ loaded'[j] = list
      /\ \A k \in Jobs \ {j} : job'[k] = job[k] /\ loaded'[k] = loaded[k]
  BY SummaryAssumption
  DEF ForwardInv, WorkerInv, TypeOK, StoreTypeOK, WorkerTypeOK, LoadForSummary, JobGoto
<1>2. UNCHANGED <<messages, pc, answered, covers>>
  BY <1>1 DEF vars, storeVars, localVars
<1>3. (\A x \in Sessions : Summarised(x))'
  BY <1>2 DEF ForwardInv, Summarised, Said, Once, Behind, ItemsOf
<1>4. ASSUME NEW k \in Jobs \ {j}
      PROVE  Saves(k)'
  <2>1. job'[k] = job[k] /\ Saves(k) /\ Older(loaded[k])' = Older(loaded[k])
    BY <1>1 DEF ForwardInv, Older
  <2>2. \A m : Said(m)' = Said(m)
    BY <1>2 DEF Said
  <2> QED  BY <1>2, <2>1, <2>2 DEF Saves, Behind, ItemsOf
<1>5. Saves(j)'
  <2>1. /\ Behind(list, Older(list)) /\ Older(list) \in SUBSET ItemsOf(list)
        /\ covers[s] \cap ItemsOf(list) \subseteq Older(list)
    BY <1>1, OlderBehind DEF Summarised
  <2>2. \A m \in Older(list) : Said(m)
    BY <1>1, <2>1 DEF Summarised
  <2>3. \A m \in Older(list) : Said(m)'
    BY <1>2, <2>2 DEF Said
  <2>4. Older(loaded[j])' = Older(list)
    BY <1>1 DEF Older
  <2> QED  BY <1>2, <2>1, <2>3, <2>4 DEF Saves, Behind, ItemsOf
<1> QED  BY <1>3, <1>4, <1>5

\* While a job saves, no other job of its session is about to.
LEMMA SaveForward ==
    ASSUME ForwardInv, NEW j \in Jobs, SaveSummary(j)
    PROVE  /\ (\A s \in Sessions : Summarised(s))' /\ (\A k \in Jobs : Saves(k))'
           /\ \A s \in Sessions : covers[s] \cap Stored(s) \subseteq covers'[s]
<1> DEFINE s == JobSession[j]
           S == Older(loaded[j])
<1>1. /\ s \in Sessions /\ job[j] = "save" /\ Saves(j) /\ Summarised(s)
      /\ UNCHANGED <<messages, pc, answered>>
      /\ covers'[s] = S /\ \A x \in Sessions \ {s} : covers'[x] = covers[x]
      /\ \A k \in Jobs \ {j} : job'[k] = job[k] /\ loaded'[k] = loaded[k]
      /\ job'[j] # "save"
  BY SummaryAssumption
  DEF ForwardInv, WorkerInv, WorkerTypeOK, SaveSummary, SetSummary, JobReply, JobGoto, Retry,
      localVars
<1>2. \A m : Said(m)' = Said(m)
  BY <1>1 DEF Said
<1>3. /\ Behind(messages[s], S) /\ covers[s] \cap ItemsOf(messages[s]) \subseteq S
      /\ \A m \in S : Said(m)
  BY <1>1 DEF Saves
<1>4. ASSUME NEW x \in Sessions
      PROVE  Summarised(x)'
  <2>1. CASE x = s
    BY <1>1, <1>2, <1>3, <2>1 DEF Summarised, Once, Behind, ItemsOf
  <2>2. CASE x # s
    BY <1>1, <1>2, <2>2 DEF ForwardInv, Summarised, Once, Behind, ItemsOf
  <2> QED  BY <2>1, <2>2
<1>5. ASSUME NEW k \in Jobs, job'[k] = "save"
      PROVE  Saves(k)'
  <2>1. k # j /\ job[k] = "save" /\ JobSession[k] # s /\ JobSession[k] \in Sessions
    BY <1>1, <1>5, SummaryAssumption DEF ForwardInv, Apart, Running
  <2>2. /\ Saves(k) /\ Older(loaded[k])' = Older(loaded[k])
        /\ covers'[JobSession[k]] = covers[JobSession[k]]
    BY <1>1, <2>1 DEF ForwardInv, Older
  <2> QED  BY <1>1, <1>2, <2>1, <2>2 DEF Saves, Behind, ItemsOf
<1>6. \A x \in Sessions : covers[x] \cap Stored(x) \subseteq covers'[x]
  BY <1>1, <1>3 DEF Stored, ItemsOf
<1> QED  BY <1>4, <1>5, <1>6 DEF Saves

LEMMA InitForward == WInit => ForwardInv
<1> SUFFICES ASSUME WInit
             PROVE  ForwardInv
  OBVIOUS
<1>1. /\ \A s \in Sessions : messages[s] = << >> /\ covers[s] = {}
      /\ \A j \in Jobs : job[j] = "queued"
  BY DEF WInit, Init, StoreInit
<1> QED
  BY <1>1, InitWorker DEF ForwardInv, Summarised, Once, Behind, ItemsOf, Saves, Apart, Running

\* A job and the clock do not change what has been said.
LEMMA StillSaid ==
    ASSUME UNCHANGED localVars
    PROVE  \A m \in Message : Said(m) => Said(m)'
  BY DEF localVars, Said

LEMMA TickMoves ==
    ASSUME TypeOK, Tick
    PROVE  \A s \in Sessions : Moves(s)
<1>1. ASSUME NEW s \in Sessions, messages'[s] = << >>
      PROVE  Cuts(s, Len(messages[s])) /\ Len(messages[s]) \in Nat
  <2>1. messages[s] \in Seq(Message)
    BY DEF TypeOK, StoreTypeOK
  <2>2. /\ Len(messages[s]) \in Nat
        /\ SubSeq(messages[s], Len(messages[s]) + 1, Len(messages[s])) = << >>
    BY <2>1
  <2> QED  BY <1>1, <2>2 DEF Cuts
<1> QED  BY <1>1 DEF Tick, Moves

LEMMA NextForward == JobsApart /\ ForwardInv /\ [WNext]_workerVars => ForwardInv'
<1> SUFFICES ASSUME JobsApart, ForwardInv, [WNext]_workerVars
             PROVE  ForwardInv'
  OBVIOUS
<1>0. WorkerInv /\ WorkerInv' /\ TypeOK /\ WorkerTypeOK
  BY NextWorker DEF ForwardInv, WorkerInv
<1>1. ASSUME \A s \in Sessions : Moves(s) /\ covers'[s] \in SUBSET covers[s],
             \A m \in Message : Said(m) => Said(m)',
             \A k \in Jobs : job'[k] = "save" => job[k] = "save" /\ loaded'[k] = loaded[k]
      PROVE  (\A s \in Sessions : Summarised(s))' /\ (\A k \in Jobs : Saves(k))'
  <2>1. /\ (\A s \in Sessions : Summarised(s))'
        /\ \A k \in Jobs : job'[k] = "save" => Saves(k)'
    BY <1>0, <1>1, MovesKeepBehind, SummaryAssumption DEF ForwardInv
  <2> QED  BY <2>1 DEF Saves
<1>2. ASSUME NEW j \in Jobs, Summarise(j) \/ WorkerDies(j)
      PROVE  ForwardInv'
  <2>1. Apart'
    BY <1>0, <1>2, JobApart DEF ForwardInv
  <2>2. (\A s \in Sessions : Summarised(s))' /\ (\A k \in Jobs : Saves(k))'
    <3>1. UNCHANGED localVars
      BY <1>2, JobOnStore
    <3> QED
      BY <1>0, <1>1, <1>2, <3>1, JobMoves, LoadForward, SaveForward, StillSaid
  <2> QED  BY <1>0, <2>1, <2>2 DEF ForwardInv
<1>3. CASE [Next]_vars /\ UNCHANGED jobVars
  <2>1. UNCHANGED <<job, loaded, covers>>
    BY <1>3 DEF jobVars
  <2>2. \A s \in Sessions : Moves(s)
    <3>1. CASE UNCHANGED vars
      BY <3>1 DEF vars, storeVars, Moves
    <3> QED  BY <1>0, <1>3, <3>1, StepMoves, TickMoves DEF Next, Pass, AllEnded
  <2>3. \A m \in Message : Said(m) => Said(m)'
    <3>1. CASE UNCHANGED vars \/ Pass
      BY <3>1, StillSaid DEF vars, Pass
    <3> QED  BY <1>0, <1>3, <3>1, SaidStays DEF Next, AllEnded
  <2>4. (\A s \in Sessions : Summarised(s))' /\ (\A k \in Jobs : Saves(k))'
    BY <1>1, <2>1, <2>2, <2>3
  <2>5. Apart'
    BY <2>1 DEF ForwardInv, Apart
  <2> QED  BY <1>0, <2>4, <2>5 DEF ForwardInv
<1>4. CASE /\ Pass
           /\ covers' = [s \in Sessions |-> IF summary'[s] THEN covers[s] ELSE {}]
           /\ UNCHANGED <<job, retries, loaded, seen>>
  <2>1. /\ \A s \in Sessions : Moves(s) /\ covers'[s] \in SUBSET covers[s]
        /\ \A m \in Message : Said(m) => Said(m)'
    BY <1>0, <1>4, TickMoves, StillSaid DEF Pass
  <2>2. (\A s \in Sessions : Summarised(s))' /\ (\A k \in Jobs : Saves(k))'
    BY <1>1, <1>4, <2>1
  <2>3. Apart'
    BY <1>4 DEF ForwardInv, Apart
  <2> QED  BY <1>0, <2>2, <2>3 DEF ForwardInv
<1> QED  BY <1>2, <1>3, <1>4, WorkerSteps

\* Where a session's jobs are run one at a time, a summary is never replaced by an
\* older one, wherever they raise, are retried or die.
THEOREM MovesForward ==
    ASSUME JobsApart
    PROVE  WSpec => SummaryMovesForward
<1>1. JobsApart /\ ForwardInv /\ [WNext]_workerVars =>
        [\A s \in Sessions :
            summary[s] /\ summary'[s] => covers[s] \cap Stored(s) \subseteq covers'[s]]_workerVars
  <2> SUFFICES ASSUME JobsApart, ForwardInv, [WNext]_workerVars,
                      NEW s \in Sessions, summary[s], summary'[s]
               PROVE  covers[s] \cap Stored(s) \subseteq covers'[s]
    OBVIOUS
  <2>1. ASSUME NEW j \in Jobs, Summarise(j) \/ WorkerDies(j)
        PROVE  covers[s] \cap Stored(s) \subseteq covers'[s]
    <3>1. CASE LoadForSummary(j)
      BY <3>1 DEF LoadForSummary
    <3> QED  BY <2>1, <3>1, JobMoves, SaveForward DEF ForwardInv
  <2>2. CASE UNCHANGED jobVars
    BY <2>2 DEF jobVars
  <2>3. CASE covers' = [x \in Sessions |-> IF summary'[x] THEN covers[x] ELSE {}]
    BY <2>3
  <2> QED  BY <2>1, <2>2, <2>3, WorkerSteps
<1> QED  BY <1>1, InitForward, NextForward, PTL DEF WSpec, SummaryMovesForward

=============================================================================
