---------------------------- MODULE Prompt_proofs ----------------------------
(***************************************************************************)
(* What the model is sent, whatever requests overlap on a session, wherever *)
(* they stop and whatever trims and the clock have taken from the list.    *)
(***************************************************************************)
EXTENDS Memory_proofs, WellFoundedInduction

USE DEF Session

-----------------------------------------------------------------------------
(***************************************************************************)
(* A turn's task and its declaration of tool calls are each stored once,   *)
(* and come into a prompt once: with the history the prompt was made of,   *)
(* or from the turn itself, which reads the history before it stores them. *)
(***************************************************************************)

Kinds == {"task", "declaration"}

\* Is m what request a stores once of kind k?
Marks(k, a, m) ==
    /\ m.by = a
    /\ k = "task" => m.role = "user"
    /\ k = "declaration" => m.role = "assistant" /\ m.n > 0

\* Not yet stored.
Before(k) ==
    {"idle", "bind", "verify", "load", "user_push"}
      \cup IF k = "declaration" THEN {"user_expire", "llm1", "decl_push"} ELSE {}

\* There is a prompt, but no declaration in it.
Undeclared == {"user_push", "user_expire", "llm1", "decl_push", "decl_expire"}

Lacks(k, a, list) == \A i \in 1..Len(list) : ~Marks(k, a, list[i])

AtMostOnce(k, a, list) ==
    \A i, j \in 1..Len(list) : Marks(k, a, list[i]) /\ Marks(k, a, list[j]) => i = j

OnceStored ==
    \A k \in Kinds, a \in Requests :
        /\ \A s \in Sessions : AtMostOnce(k, a, messages[s])
        /\ pc[a] \in Before(k) => Lacks(k, a, messages[Session(a)])

OncePrompted ==
    \A k \in Kinds, a \in Requests :
        /\ \A r \in Requests : AtMostOnce(k, a, prompt[r])
        /\ pc[a] \in Undeclared => Lacks("declaration", a, prompt[a])

LEMMA AppendOnce ==
    ASSUME NEW k, NEW a, NEW list \in Seq(Message), NEW m \in Message
    PROVE  /\ AtMostOnce(k, a, list) /\ (Marks(k, a, m) => Lacks(k, a, list))
                => AtMostOnce(k, a, Append(list, m))
           /\ Lacks(k, a, list) /\ ~Marks(k, a, m) => Lacks(k, a, Append(list, m))
<1>1. /\ Len(Append(list, m)) = Len(list) + 1 /\ Len(list) \in Nat
      /\ Append(list, m)[Len(list) + 1] = m
      /\ \A i \in 1..Len(list) : Append(list, m)[i] = list[i]
  OBVIOUS
<1>2. \A i \in 1..Len(list) + 1 : i \in 1..Len(list) \/ i = Len(list) + 1
  BY <1>1
<1> QED  BY <1>1, <1>2 DEF AtMostOnce, Lacks

LEMMA SuffixOnce ==
    ASSUME NEW k, NEW a, NEW list \in Seq(Message), NEW start \in Nat
    PROVE  LET rest == SubSeq(list, start + 1, Len(list)) IN
           /\ AtMostOnce(k, a, list) => AtMostOnce(k, a, rest)
           /\ Lacks(k, a, list) => Lacks(k, a, rest)
<1> DEFINE rest == SubSeq(list, start + 1, Len(list))
<1>1. /\ Len(list) \in Nat
      /\ Len(rest) = (IF start < Len(list) THEN Len(list) - start ELSE 0)
      /\ \A i \in 1..Len(rest) : rest[i] = list[i + start]
  OBVIOUS
<1> HIDE DEF rest
<1>2. \A i \in 1..Len(rest) : i \in Nat /\ i + start \in 1..Len(list)
  BY <1>1
<1>3. \A i, j \in 1..Len(rest) : i + start = j + start => i = j
  BY <1>2
<1>4. AtMostOnce(k, a, list) => AtMostOnce(k, a, rest)
  BY <1>1, <1>2, <1>3 DEF AtMostOnce
<1>5. Lacks(k, a, list) => Lacks(k, a, rest)
  BY <1>1, <1>2 DEF Lacks
<1> QED  BY <1>4, <1>5 DEF rest

\* The system message is of neither kind, the task that ends the prompt of its own.
LEMMA AssembledOnce ==
    ASSUME NEW k \in Kinds, NEW a \in Requests, NEW r \in Requests,
           NEW list \in Seq(Message)
    PROVE  LET new == AssembleMessages(list, r) IN
           /\ new \in Seq(Message) /\ Len(new) \in Nat \ {0}
           /\ new[Len(new)] = UserMessage(r)
           /\ AtMostOnce(k, a, list) /\ (a = r /\ k = "task" => Lacks(k, a, list))
                => AtMostOnce(k, a, new)
           /\ Lacks("declaration", a, list) => Lacks("declaration", a, new)
<1> DEFINE new == AssembleMessages(list, r)
<1>1. /\ Len(new) = Len(list) + 2 /\ Len(list) \in Nat
      /\ new[1] = SystemMessage(r) /\ new[Len(list) + 2] = UserMessage(r)
      /\ \A i \in 2..Len(list) + 1 : new[i] = list[i - 1]
      /\ new \in Seq(Message)
  BY MessageTypes DEF AssembleMessages
<1>2. /\ ~Marks(k, a, SystemMessage(r)) /\ ~Marks("declaration", a, SystemMessage(r))
      /\ ~Marks("declaration", a, UserMessage(r))
      /\ Marks(k, a, UserMessage(r)) => a = r /\ k = "task"
  BY DEF Marks, Kinds, SystemMessage, UserMessage
<1> HIDE DEF new
<1>3. \A i \in 1..Len(new) : i = 1 \/ (i \in 2..Len(list) + 1 /\ i - 1 \in 1..Len(list))
                               \/ i = Len(list) + 2
  BY <1>1
<1>4. AtMostOnce(k, a, list) /\ (a = r /\ k = "task" => Lacks(k, a, list))
        => AtMostOnce(k, a, new)
  <2> SUFFICES ASSUME AtMostOnce(k, a, list), a = r /\ k = "task" => Lacks(k, a, list),
                      NEW i \in 1..Len(new), NEW j \in 1..Len(new),
                      Marks(k, a, new[i]), Marks(k, a, new[j])
               PROVE  i = j
    BY DEF AtMostOnce
  <2>1. i \in Nat /\ j \in Nat
    OBVIOUS
  <2>2. i # 1 /\ j # 1
    BY <1>1, <1>2
  <2>3. CASE i \in 2..Len(list) + 1 /\ j \in 2..Len(list) + 1
    <3>1. /\ i - 1 \in 1..Len(list) /\ j - 1 \in 1..Len(list)
          /\ new[i] = list[i - 1] /\ new[j] = list[j - 1]
      BY <1>1, <2>3
    <3>2. i - 1 = j - 1
      BY <3>1 DEF AtMostOnce
    <3> QED  BY <2>1, <3>2
  <2>4. CASE a = r /\ k = "task"
    <3>1. ASSUME NEW x \in 2..Len(list) + 1
          PROVE  ~Marks(k, a, new[x])
      BY <1>1, <2>4 DEF Lacks
    <3> QED  BY <1>3, <2>2, <3>1
  <2>5. CASE ~(a = r /\ k = "task")
    BY <1>1, <1>2, <1>3, <2>2, <2>3, <2>5
  <2> QED  BY <2>4, <2>5
<1>5. Lacks("declaration", a, list) => Lacks("declaration", a, new)
  BY <1>1, <1>2, <1>3 DEF Lacks
<1> QED  BY <1>1, <1>4, <1>5 DEF new

\* Nothing that is Before, or Undeclared, comes back to that.
LEMMA StepMovesOn ==
    ASSUME TypeOK, NEW r \in Requests, Step(r), NEW k \in Kinds
    PROVE  /\ pc'[r] \in Before(k) => pc[r] \in Before(k)
           /\ pc'[r] \in Undeclared => pc[r] \in Undeclared \/ LoadHistory(r)
<1> USE DEF TypeOK, LocalTypeOK, Goto, Reply, Before, Undeclared
<1>1. CASE Admit(r)
  BY <1>1 DEF Admit, Start, BindOwner, VerifyOwner, OwnerVerdict
<1>2. CASE Ask(r)
  BY <1>2 DEF Ask, LoadHistory, PushTask, Push, ExpireTask, Expire, FirstReply
<1>3. CASE UseTools(r)
  BY <1>3 DEF UseTools, PushDeclaration, ExpireDeclaration, RunTool, RecordToolCall,
     ExpireToolRecord, PushToolAnswer, ExpireToolAnswer, SecondReply, Push, Expire
<1>4. CASE Finish(r)
  BY <1>4 DEF Finish, PushAnswer, Push, ExpireAnswer, Expire, CheckTrim, ReadLength, Trim,
     CountMessages, Complete
<1>5. CASE Break(r)
  BY <1>5 DEF Break, StoreFails, ModelFails, ToolRaises, Crash, Fail
<1> QED  BY <1>1, <1>2, <1>3, <1>4, <1>5 DEF Step

\* What a push stores once it stores while it is Before, and no more after.
Stores(r, m) ==
    /\ m \in Message /\ m.by = r
    /\ messages'[Session(r)] = Append(messages[Session(r)], m)
    /\ \A k \in Kinds : Marks(k, r, m) => pc[r] \in Before(k) /\ pc'[r] \notin Before(k)

LEMMA PushStores ==
    ASSUME TypeOK, NEW r \in Requests, NEW from, NEW to, NEW m \in Message, m.by = r,
           Push(r, from, m, to),
           \A k \in Kinds : Marks(k, r, m) => from \in Before(k) /\ to \notin Before(k)
    PROVE  Stores(r, m)
<1>1. /\ pc[r] = from /\ pc'[r] \in {to, "store_error"}
      /\ messages'[Session(r)] = Append(messages[Session(r)], m)
  BY ExecutionAssumption
  DEF Push, PushMessage, Reply, Goto, TypeOK, StoreTypeOK, LocalTypeOK
<1> QED  BY <1>1 DEF Stores, Before

\* What a step does to the messages of its session: nothing, a push, or a trim.
LEMMA StepOnMessages ==
    ASSUME TypeOK, NEW r \in Requests, Step(r)
    PROVE  \/ messages'[Session(r)] = messages[Session(r)]
           \/ \E m \in Message : Stores(r, m)
           \/ \E start \in Nat : messages'[Session(r)]
                = SubSeq(messages[Session(r)], start + 1, Len(messages[Session(r)]))
<1> USE DEF Kinds, Before, Marks
<1>1. CASE PushTask(r)
  BY <1>1, MessageTypes, PushStores DEF PushTask, UserMessage
<1>2. CASE PushDeclaration(r)
  <2>1. /\ Declaration(r) \in Message /\ Declaration(r).by = r
        /\ Declaration(r).role = "assistant"
    BY MessageTypes DEF Declaration, ToolCallsMessage, TypeOK, LocalTypeOK
  <2> QED  BY <1>2, <2>1, PushStores DEF PushDeclaration
<1>3. CASE PushToolAnswer(r)
  <2>1. answered[r] + 1 \in 0..MaxToolCalls
    BY <1>3, ExecutionAssumption DEF PushToolAnswer, Push, TypeOK, LocalTypeOK, Locals
  <2>2. ToolAnswer(r) \in Message /\ ToolAnswer(r).by = r /\ ToolAnswer(r).role = "tool"
    BY <2>1, MessageTypes DEF ToolAnswer, ToolMessage
  <2> QED  BY <1>3, <2>2, PushStores DEF PushToolAnswer
<1>4. CASE PushAnswer(r)
  BY <1>4, MessageTypes, PushStores DEF PushAnswer, AssistantMessage
<1>5. CASE Trim(r)
  <2>1. total[r] - MaxMessages \in Nat
    BY <1>5, ExecutionAssumption DEF Trim, TypeOK, LocalTypeOK, Locals
  <2>2. messages'[Session(r)]
          = SubSeq(messages[Session(r)], total[r] - MaxMessages + 1, Len(messages[Session(r)]))
    BY <1>5, ExecutionAssumption DEF Trim, TrimMessages, TypeOK, StoreTypeOK
  <2> QED  BY <2>1, <2>2
<1>6. CASE \/ ExpireTask(r) \/ ExpireDeclaration(r) \/ ExpireToolRecord(r)
           \/ ExpireToolAnswer(r) \/ ExpireAnswer(r) \/ RecordToolCall(r)
  BY <1>6 DEF ExpireTask, ExpireDeclaration, ExpireToolRecord, ExpireToolHistory,
     ExpireToolAnswer, ExpireAnswer, Expire, ExpireMessages, RecordToolCall, PushToolRecord
<1>7. CASE Admit(r)
  BY <1>7 DEF Admit, Start, BindOwner, SetOwner, VerifyOwner, storeVars
<1>8. CASE \/ LoadHistory(r) \/ FirstReply(r) \/ RunTool(r) \/ SecondReply(r) \/ CheckTrim(r)
           \/ ReadLength(r) \/ CountMessages(r) \/ Complete(r)
  BY <1>8 DEF LoadHistory, FirstReply, RunTool, SecondReply, CheckTrim, ReadLength,
     CountMessages, Complete, storeVars
<1>9. CASE Break(r)
  BY <1>9 DEF Break, StoreFails, ModelFails, ToolRaises, Crash, Fail, storeVars
<1> QED
  BY <1>1, <1>2, <1>3, <1>4, <1>5, <1>6, <1>7, <1>8, <1>9 DEF Step, Ask, UseTools, Finish

\* Where a step adds to the prompt of its request.
LEMMA StepOnPrompt ==
    ASSUME TypeOK, NEW r \in Requests, Step(r)
    PROVE  \/ LoadHistory(r) \/ ExpireDeclaration(r) \/ ExpireToolAnswer(r)
           \/ prompt' = prompt
<1>1. CASE Admit(r)
  BY <1>1 DEF Admit, Start, BindOwner, VerifyOwner
<1>2. CASE Ask(r)
  BY <1>2 DEF Ask, PushTask, Push, ExpireTask, FirstReply
<1>3. CASE UseTools(r)
  BY <1>3 DEF UseTools, PushDeclaration, RunTool, RecordToolCall, ExpireToolRecord,
     PushToolAnswer, SecondReply, Push
<1>4. CASE Finish(r)
  BY <1>4 DEF Finish, PushAnswer, Push, ExpireAnswer, CheckTrim, ReadLength, Trim,
     CountMessages, Complete
<1>5. CASE Break(r)
  BY <1>5 DEF Break, StoreFails, ModelFails, ToolRaises, Crash, Fail
<1> QED  BY <1>1, <1>2, <1>3, <1>4, <1>5 DEF Step

LEMMA StepOnceStored ==
    ASSUME TypeOK, OnceStored, NEW r \in Requests, Step(r)
    PROVE  OnceStored'
<1>0. /\ \A s \in Sessions \ {Session(r)} : messages'[s] = messages[s]
      /\ \A q \in Requests \ {r} : pc'[q] = pc[q]
      /\ \A q \in Requests : Session(q) \in Sessions
      /\ \A s \in Sessions : messages[s] \in Seq(Message)
  BY ExecutionAssumption, StepIsLocal DEF Local, TypeOK, StoreTypeOK
<1>1. ASSUME NEW k \in Kinds, NEW a \in Requests
      PROVE  /\ AtMostOnce(k, a, messages'[Session(r)])
             /\ pc'[a] \in Before(k) /\ Session(a) = Session(r)
                  => Lacks(k, a, messages'[Session(r)])
  <2> DEFINE list == messages[Session(r)]
  <2>0. /\ list \in Seq(Message) /\ AtMostOnce(k, a, list)
        /\ pc[a] \in Before(k) /\ Session(a) = Session(r) => Lacks(k, a, list)
        /\ pc'[a] \in Before(k) => pc[a] \in Before(k)
    BY <1>0, StepMovesOn DEF OnceStored
  <2>1. CASE messages'[Session(r)] = list
    BY <2>0, <2>1
  <2>2. CASE \E m \in Message : Stores(r, m)
    <3>1. PICK m \in Message : Stores(r, m)
      BY <2>2
    <3>2. /\ Marks(k, a, m) => a = r
          /\ Marks(k, r, m) => pc[r] \in Before(k) /\ pc'[r] \notin Before(k)
          /\ messages'[Session(r)] = Append(list, m)
      BY <3>1 DEF Stores, Marks
    <3>3. Marks(k, a, m) => Lacks(k, a, list)
      BY <2>0, <3>2
    <3>4. pc'[a] \in Before(k) => ~Marks(k, a, m)
      BY <3>2
    <3> HIDE DEF list
    <3> QED  BY <2>0, <3>2, <3>3, <3>4, AppendOnce
  <2>3. CASE \E start \in Nat : messages'[Session(r)] = SubSeq(list, start + 1, Len(list))
    BY <2>0, <2>3, SuffixOnce
  <2> QED  BY <2>1, <2>2, <2>3, StepOnMessages
<1>2. ASSUME NEW k \in Kinds, NEW a \in Requests
      PROVE  /\ \A s \in Sessions : AtMostOnce(k, a, messages'[s])
             /\ pc'[a] \in Before(k) => Lacks(k, a, messages'[Session(a)])
  <2>1. \A s \in Sessions : AtMostOnce(k, a, messages'[s])
    BY <1>0, <1>1 DEF OnceStored
  <2>2. ASSUME pc'[a] \in Before(k)
        PROVE  Lacks(k, a, messages'[Session(a)])
    <3>1. CASE Session(a) = Session(r)
      BY <1>1, <2>2, <3>1
    <3>2. CASE Session(a) # Session(r)
      BY <1>0, <2>2, <3>2 DEF OnceStored
    <3> QED  BY <3>1, <3>2
  <2> QED  BY <2>1, <2>2
<1>3. \A k : Before(k)' = Before(k)
  BY DEF Before
<1> QED  BY <1>2, <1>3 DEF OnceStored, AtMostOnce, Lacks, Marks

-----------------------------------------------------------------------------
(***************************************************************************)
(* The prompt of a turn: what was read, the task, then the declaration and *)
(* the answers so far.                                                     *)
(***************************************************************************)

LoopPCs == {"tool", "record_push", "record_expire", "tool_push", "tool_expire"}

Asked(r) ==
    /\ pc[r] \in Undeclared \cup LoopPCs \cup {"llm2"}
         => \E i \in 1..Len(prompt[r]) : prompt[r][i] = UserMessage(r)
    /\ pc[r] \in {"user_push", "user_expire", "llm1"}
         => prompt[r][Len(prompt[r])] = UserMessage(r)

\* list ends with a declaration of n calls of r and the answers to the first a.
Answered(list, r, n, a) ==
    /\ Len(list) > a
    /\ list[Len(list) - a] = ToolCallsMessage(r, n)
    /\ \A i \in 1..a : list[Len(list) - a + i] = ToolMessage(r, i)

Answering(r) ==
    /\ pc[r] \in LoopPCs \cup {"llm2"} => Answered(prompt[r], r, calls[r], answered[r])
    /\ pc[r] = "llm2" => calls[r] > 0 /\ answered[r] = calls[r]

PromptInv ==
    /\ TypeOK /\ OnceStored /\ OncePrompted
    /\ \A r \in Requests : Asked(r) /\ Answering(r)

LEMMA LoadPrompts ==
    ASSUME TypeOK, OnceStored, NEW r \in Requests, LoadHistory(r)
    PROVE  /\ \A k \in Kinds, a \in Requests : AtMostOnce(k, a, prompt'[r])
           /\ Lacks("declaration", r, prompt'[r])
           /\ Asked(r)' /\ Answering(r)'
<1> DEFINE list == messages[Session(r)]
<1>1. /\ pc[r] = "load" /\ pc'[r] = "user_push"
      /\ prompt'[r] = AssembleMessages(list, r)
      /\ list \in Seq(Message) /\ Session(r) \in Sessions
  BY ExecutionAssumption DEF LoadHistory, Goto, TypeOK, LocalTypeOK, StoreTypeOK
<1>2. \A k \in Kinds : Lacks(k, r, list)
  BY <1>1 DEF OnceStored, Before
<1>3. \A k \in Kinds, a \in Requests : AtMostOnce(k, a, list)
  BY <1>1 DEF OnceStored
<1> HIDE DEF list
<1>4. /\ \A k \in Kinds, a \in Requests : AtMostOnce(k, a, prompt'[r])
      /\ Lacks("declaration", r, prompt'[r])
      /\ Len(prompt'[r]) \in Nat \ {0}
      /\ prompt'[r][Len(prompt'[r])] = UserMessage(r)
  BY <1>1, <1>2, <1>3, AssembledOnce DEF Kinds
<1>5. Asked(r)'
  BY <1>4 DEF Asked
<1> QED  BY <1>1, <1>4, <1>5 DEF Answering, LoopPCs

\* The declaration comes to a prompt that has none.
LEMMA DeclarePrompts ==
    ASSUME TypeOK, OncePrompted, NEW r \in Requests, Asked(r), ExpireDeclaration(r)
    PROVE  /\ \A k \in Kinds, a \in Requests : AtMostOnce(k, a, prompt'[r])
           /\ pc'[r] \notin Undeclared
           /\ Asked(r)' /\ Answering(r)'
<1> DEFINE list == prompt[r]
           m == Declaration(r)
<1>1. /\ pc[r] = "decl_expire" /\ pc'[r] \in {"tool", "store_error"}
      /\ prompt'[r] = Append(list, m)
      /\ list \in Seq(Message) /\ answered' = answered /\ calls' = calls
  BY DEF ExpireDeclaration, Expire, Goto, Reply, TypeOK, LocalTypeOK
<1>2. m \in Message /\ m.by = r /\ m.role = "assistant"
  BY MessageTypes DEF Declaration, ToolCallsMessage, TypeOK, LocalTypeOK
<1>3. /\ Len(Append(list, m)) = Len(list) + 1 /\ Len(list) \in Nat
      /\ Append(list, m)[Len(list) + 1] = m
      /\ \A i \in 1..Len(list) : Append(list, m)[i] = list[i]
  BY <1>1
<1>4. ASSUME NEW k \in Kinds, NEW a \in Requests
      PROVE  AtMostOnce(k, a, prompt'[r])
  <2>1. Marks(k, a, m) => a = r /\ k = "declaration"
    BY <1>2 DEF Marks, Kinds
  <2>2. AtMostOnce(k, a, list) /\ Lacks("declaration", r, list)
    BY <1>1 DEF OncePrompted, Undeclared
  <2> HIDE DEF m, list
  <2> QED  BY <1>1, <1>2, <2>1, <2>2, AppendOnce
<1>5. Asked(r)'
  <2>1. PICK i \in 1..Len(list) : list[i] = UserMessage(r)
    BY <1>1 DEF Asked, Undeclared
  <2>2. i \in 1..Len(prompt'[r]) /\ prompt'[r][i] = UserMessage(r)
    BY <1>1, <1>3, <2>1
  <2> QED  BY <1>1, <2>2 DEF Asked
<1>6. Answering(r)'
  <2>1. answered[r] = 0
    BY <1>1 DEF TypeOK, Locals
  <2>2. Answered(prompt'[r], r, calls[r], 0)
    BY <1>1, <1>3 DEF Answered, Declaration
  <2> QED  BY <1>1, <2>1, <2>2 DEF Answering
<1> QED  BY <1>1, <1>4, <1>5, <1>6 DEF Undeclared

\* Each answer comes right after those before it.
LEMMA AnswerPrompts ==
    ASSUME TypeOK, OncePrompted, NEW r \in Requests, Asked(r), Answering(r), ExpireToolAnswer(r)
    PROVE  /\ \A k \in Kinds, a \in Requests : AtMostOnce(k, a, prompt'[r])
           /\ pc'[r] \notin Undeclared
           /\ Asked(r)' /\ Answering(r)'
<1> DEFINE list == prompt[r]
           m == ToolAnswer(r)
           n == answered[r]
<1>1. /\ pc[r] = "tool_expire"
      /\ pc'[r] \in {IF n + 1 < calls[r] THEN "tool" ELSE "llm2", "store_error"}
      /\ prompt'[r] = Append(list, m)
      /\ list \in Seq(Message) /\ answered'[r] = n + 1 /\ calls' = calls
  BY DEF ExpireToolAnswer, Expire, Goto, Reply, TypeOK, LocalTypeOK
<1>2. n \in Nat /\ n < calls[r] /\ calls[r] \in 0..MaxToolCalls /\ MaxToolCalls \in Nat
  BY <1>1, ExecutionAssumption DEF TypeOK, LocalTypeOK, Locals
<1>3. m \in Message /\ m.role = "tool" /\ m = ToolMessage(r, n + 1)
  <2>1. n + 1 \in 0..MaxToolCalls
    BY <1>2
  <2> QED  BY <2>1, MessageTypes DEF ToolAnswer, ToolMessage
<1>4. /\ Len(Append(list, m)) = Len(list) + 1 /\ Len(list) \in Nat
      /\ Append(list, m)[Len(list) + 1] = m
      /\ \A i \in 1..Len(list) : Append(list, m)[i] = list[i]
  BY <1>1
<1>5. ASSUME NEW k \in Kinds, NEW a \in Requests
      PROVE  AtMostOnce(k, a, prompt'[r])
  <2>1. ~Marks(k, a, m)
    BY <1>3 DEF Marks, Kinds
  <2>2. AtMostOnce(k, a, list)
    BY DEF OncePrompted
  <2> HIDE DEF m, list
  <2> QED  BY <1>1, <1>3, <2>1, <2>2, AppendOnce
<1>6. Asked(r)'
  <2>1. PICK i \in 1..Len(list) : list[i] = UserMessage(r)
    BY <1>1 DEF Asked, LoopPCs
  <2>2. i \in 1..Len(prompt'[r]) /\ prompt'[r][i] = UserMessage(r)
    BY <1>1, <1>4, <2>1
  <2> QED  BY <1>1, <2>2 DEF Asked
<1>7. Answering(r)'
  <2>1. /\ Len(list) > n
        /\ list[Len(list) - n] = ToolCallsMessage(r, calls[r])
        /\ \A i \in 1..n : list[Len(list) - n + i] = ToolMessage(r, i)
    BY <1>1 DEF Answering, Answered, LoopPCs
  <2> HIDE DEF list, m, n
  <2>2. Answered(Append(list, m), r, calls[r], n + 1)
    <3>1. Len(list) + 1 - (n + 1) = Len(list) - n /\ Len(list) - n \in 1..Len(list)
      BY <1>2, <1>4, <2>1
    <3>2. ASSUME NEW i \in 1..n + 1
          PROVE  Append(list, m)[Len(list) - n + i] = ToolMessage(r, i)
      <4>1. CASE i = n + 1
        <5>1. Len(list) - n + i = Len(list) + 1
          BY <1>2, <1>4, <4>1
        <5> QED  BY <1>3, <1>4, <4>1, <5>1
      <4>2. CASE i # n + 1
        <5>1. i \in 1..n
          BY <1>2, <3>2, <4>2
        <5>2. Len(list) - n + i \in 1..Len(list)
          BY <1>2, <1>4, <2>1, <5>1
        <5> QED  BY <1>4, <2>1, <5>1, <5>2
      <4> QED  BY <4>1, <4>2
    <3>3. Len(list) + 1 > n + 1
      BY <1>2, <1>4, <2>1
    <3> DEFINE new == Append(list, m)
    <3>4. Len(new) = Len(list) + 1 /\ new[Len(list) - n] = ToolCallsMessage(r, calls[r])
      BY <1>4, <2>1, <3>1
    <3> HIDE DEF new
    <3>5. Len(new) - (n + 1) = Len(list) - n
      BY <1>2, <1>4, <3>4
    <3>6. \A i \in 1..n + 1 : new[Len(list) - n + i] = ToolMessage(r, i)
      BY <3>2 DEF new
    <3>7. Answered(new, r, calls[r], n + 1)
      BY <3>3, <3>4, <3>5, <3>6 DEF Answered
    <3> QED  BY <3>7 DEF new
  <2>3. pc'[r] = "llm2" => calls[r] > 0 /\ n + 1 = calls[r]
    BY <1>1, <1>2
  <2> QED  BY <1>1, <2>2, <2>3 DEF Answering
<1> QED  BY <1>1, <1>5, <1>6, <1>7 DEF Undeclared

\* Elsewhere in the turn a prompt in use is only read.
LEMMA PromptInUse ==
    ASSUME TypeOK, NEW r \in Requests, Step(r),
           ~LoadHistory(r), ~ExpireDeclaration(r), ~ExpireToolAnswer(r)
    PROVE  /\ pc'[r] \in Undeclared \cup LoopPCs \cup {"llm2"}
                => pc[r] \in Undeclared \cup LoopPCs \cup {"llm2"}
           /\ pc'[r] \in {"user_push", "user_expire", "llm1"}
                => pc[r] \in {"user_push", "user_expire", "llm1"}
           /\ pc'[r] \in LoopPCs => pc[r] \in LoopPCs /\ calls' = calls /\ answered' = answered
           /\ pc'[r] # "llm2"
<1> USE DEF TypeOK, LocalTypeOK, Goto, Reply, Undeclared, LoopPCs
<1>1. CASE Admit(r)
  BY <1>1 DEF Admit, Start, BindOwner, VerifyOwner, OwnerVerdict
<1>2. CASE Ask(r)
  BY <1>2 DEF Ask, PushTask, Push, ExpireTask, Expire, FirstReply
<1>3. CASE UseTools(r)
  BY <1>3 DEF UseTools, PushDeclaration, RunTool, RecordToolCall, ExpireToolRecord,
     PushToolAnswer, SecondReply, Push
<1>4. CASE Finish(r)
  BY <1>4 DEF Finish, PushAnswer, Push, ExpireAnswer, Expire, CheckTrim, ReadLength, Trim,
     CountMessages, Complete
<1>5. CASE Break(r)
  BY <1>5 DEF Break, StoreFails, ModelFails, ToolRaises, Crash, Fail
<1> QED  BY <1>1, <1>2, <1>3, <1>4, <1>5 DEF Step

LEMMA StillPrompts ==
    ASSUME TypeOK, NEW r \in Requests, Step(r), prompt' = prompt,
           Asked(r), Answering(r), ~LoadHistory(r), ~ExpireDeclaration(r), ~ExpireToolAnswer(r)
    PROVE  Asked(r)' /\ Answering(r)'
  BY PromptInUse DEF Asked, Answering

LEMMA StepPrompts ==
    ASSUME PromptInv, NEW r \in Requests, Step(r)
    PROVE  OncePrompted' /\ \A q \in Requests : Asked(q)' /\ Answering(q)'
<1> USE DEF PromptInv
<1>1. \A q \in Requests \ {r} :
          /\ pc'[q] = pc[q] /\ prompt'[q] = prompt[q]
          /\ calls'[q] = calls[q] /\ answered'[q] = answered[q]
  BY StepIsLocal DEF Local
<1>2. /\ \A k \in Kinds, a \in Requests : AtMostOnce(k, a, prompt'[r])
      /\ pc'[r] \in Undeclared => Lacks("declaration", r, prompt'[r])
      /\ Asked(r)' /\ Answering(r)'
  <2>1. CASE LoadHistory(r)
    BY <2>1, LoadPrompts
  <2>2. CASE ExpireDeclaration(r)
    BY <2>2, DeclarePrompts
  <2>3. CASE ExpireToolAnswer(r)
    BY <2>3, AnswerPrompts
  <2>4. CASE /\ prompt' = prompt
             /\ ~LoadHistory(r) /\ ~ExpireDeclaration(r) /\ ~ExpireToolAnswer(r)
    <3>1. pc'[r] \in Undeclared => pc[r] \in Undeclared
      BY <2>4, StepMovesOn DEF Kinds
    <3> QED  BY <2>4, <3>1, StillPrompts DEF OncePrompted, Kinds
  <2> QED  BY <2>1, <2>2, <2>3, <2>4, StepOnPrompt
<1>3. ASSUME NEW q \in Requests, q # r
      PROVE  Asked(q)' /\ Answering(q)'
  BY <1>1, <1>3 DEF Asked, Answering
<1>4. ASSUME NEW k \in Kinds, NEW a \in Requests
      PROVE  /\ \A q \in Requests : AtMostOnce(k, a, prompt'[q])
             /\ pc'[a] \in Undeclared => Lacks("declaration", a, prompt'[a])
  BY <1>1, <1>2 DEF OncePrompted
<1>5. OncePrompted'
  BY <1>4 DEF OncePrompted, AtMostOnce, Lacks, Marks
<1> QED  BY <1>2, <1>3, <1>5

LEMMA InitPrompts == Init => PromptInv
<1> SUFFICES ASSUME Init
             PROVE  OnceStored /\ OncePrompted /\ \A r \in Requests : Asked(r) /\ Answering(r)
  BY InitType DEF PromptInv
<1>1. /\ \A s \in Sessions : Len(messages[s]) = 0
      /\ \A r \in Requests : Len(prompt[r]) = 0 /\ pc[r] = "idle"
  BY DEF Init, StoreInit
<1>2. OnceStored
  BY <1>1, ExecutionAssumption DEF OnceStored, AtMostOnce, Lacks
<1>3. OncePrompted
  BY <1>1 DEF OncePrompted, AtMostOnce, Undeclared
<1> QED  BY <1>1, <1>2, <1>3 DEF Asked, Answering, Undeclared, LoopPCs

LEMMA NextPrompts == PromptInv /\ [Next]_vars => PromptInv'
<1> SUFFICES ASSUME PromptInv, [Next]_vars
             PROVE  PromptInv'
  OBVIOUS
<1>1. TypeOK'
  BY NextType DEF PromptInv
<1>2. ASSUME NEW r \in Requests, Step(r)
      PROVE  PromptInv'
  BY <1>1, <1>2, StepOnceStored, StepPrompts DEF PromptInv
<1>3. ASSUME UNCHANGED localVars, \A s \in Sessions : messages'[s] \in {messages[s], << >>}
      PROVE  PromptInv'
  <2>1. /\ pc' = pc /\ prompt' = prompt /\ calls' = calls /\ answered' = answered
        /\ \A q \in Requests : Session(q) \in Sessions
    BY <1>3, ExecutionAssumption DEF localVars
  <2>2. ASSUME NEW k \in Kinds, NEW a \in Requests
        PROVE  /\ \A s \in Sessions : AtMostOnce(k, a, messages'[s])
               /\ pc[a] \in Before(k) => Lacks(k, a, messages'[Session(a)])
    <3>1. AtMostOnce(k, a, << >>) /\ Lacks(k, a, << >>)
      BY DEF AtMostOnce, Lacks
    <3> QED  BY <1>3, <2>1, <3>1 DEF PromptInv, OnceStored
  <2>3. OnceStored'
    <3> SUFFICES ASSUME NEW k \in Kinds, NEW a \in Requests
                 PROVE  /\ \A s \in Sessions : AtMostOnce(k, a, messages'[s])
                        /\ pc'[a] \in Before(k) => Lacks(k, a, messages'[Session(a)])
      BY DEF OnceStored, AtMostOnce, Lacks, Marks, Before
    <3> QED  BY <2>1, <2>2
  <2>4. OncePrompted' /\ \A q \in Requests : Asked(q)' /\ Answering(q)'
    BY <2>1 DEF PromptInv, OncePrompted, AtMostOnce, Lacks, Marks, Asked, Answering
  <2> QED  BY <1>1, <2>3, <2>4 DEF PromptInv
<1>4. CASE Pass
  BY <1>3, <1>4 DEF Pass, Tick
<1>5. CASE UNCHANGED vars
  BY <1>3, <1>5 DEF vars, storeVars
<1> QED  BY <1>2, <1>4, <1>5 DEF Next, AllEnded

\* The task is in every prompt that is sent, and once: it does not come back with the
\* history, which is read before the task is stored, however requests overlap.
THEOREM TaskOnce == Spec => []TaskAskedOnce
<1>1. PromptInv => TaskAskedOnce
  <2> SUFFICES ASSUME PromptInv, NEW r \in Requests, pc[r] \in ModelPCs
               PROVE  /\ Positions(prompt[r], UserMessage(r)) \in {{i} : i \in 1..Len(prompt[r])}
                      /\ pc[r] = "llm1" => prompt[r][Len(prompt[r])] = UserMessage(r)
    BY DEF TaskAskedOnce
  <2>1. PICK i \in 1..Len(prompt[r]) : prompt[r][i] = UserMessage(r)
    BY DEF PromptInv, Asked, ModelPCs, Undeclared
  <2>2. Marks("task", r, UserMessage(r))
    BY DEF Marks, UserMessage
  <2>3. AtMostOnce("task", r, prompt[r])
    BY DEF PromptInv, OncePrompted, Kinds
  <2>4. Positions(prompt[r], UserMessage(r)) = {i}
    BY <2>1, <2>2, <2>3 DEF Positions, AtMostOnce
  <2> QED  BY <2>4 DEF PromptInv, Asked
<1> QED  BY <1>1, InitPrompts, NextPrompts, PTL DEF Spec

-----------------------------------------------------------------------------
(***************************************************************************)
(* Places.  Counting the elements of a finite set of numbers from the left *)
(* is one-to-one, so that every place up to its cardinality is taken.      *)
(***************************************************************************)

UpTo(S, i) == {j \in S : j <= i}
Rank(S, i) == Cardinality(UpTo(S, i))

LEMMA RankGrows ==
    ASSUME NEW S \in SUBSET Nat, IsFiniteSet(S), NEW i \in S
    PROVE  /\ Rank(S, i) \in 1..Cardinality(S)
           /\ \A j \in S : i < j => Rank(S, i) < Rank(S, j)
<1>1. ASSUME NEW j \in S
      PROVE  IsFiniteSet(UpTo(S, j)) /\ Rank(S, j) \in Nat /\ Rank(S, j) <= Cardinality(S)
  <2>1. UpTo(S, j) \in SUBSET S
    BY DEF UpTo
  <2> QED  BY <2>1, FS_Subset, FS_CardinalityType DEF Rank
<1>2. Rank(S, i) # 0
  <2>1. i \in UpTo(S, i)
    BY DEF UpTo
  <2> QED  BY <1>1, <2>1, FS_EmptySet DEF Rank
<1>3. ASSUME NEW j \in S, i < j
      PROVE  Rank(S, i) < Rank(S, j)
  <2>0. i \in Nat /\ j \in Nat /\ \A k \in S : k \in Nat
    OBVIOUS
  <2>1. UpTo(S, i) \in SUBSET UpTo(S, j)
    <3>1. \A k \in S : k <= i => k <= j
      BY <1>3, <2>0
    <3> QED  BY <3>1 DEF UpTo
  <2>2. j \in UpTo(S, j) /\ j \notin UpTo(S, i)
    BY <1>3 DEF UpTo
  <2>3. /\ Cardinality(UpTo(S, i)) <= Cardinality(UpTo(S, j))
        /\ Cardinality(UpTo(S, j)) = Cardinality(UpTo(S, i)) => UpTo(S, j) = UpTo(S, i)
    BY <1>1, <2>1, FS_Subset
  <2>4. Rank(S, i) <= Rank(S, j) /\ Rank(S, i) # Rank(S, j)
    BY <2>2, <2>3 DEF Rank
  <2> QED  BY <1>1, <2>4
<1> QED  BY <1>1, <1>2, <1>3, FS_CardinalityType

LEMMA RankOnto ==
    ASSUME NEW S \in SUBSET Nat, IsFiniteSet(S), NEW k \in 1..Cardinality(S)
    PROVE  \E i \in S : Rank(S, i) = k
<1> DEFINE rank == [i \in S |-> Rank(S, i)]
           T == 1..Cardinality(S)
<1>1. Cardinality(S) \in Nat
  BY FS_CardinalityType
<1>2. IsFiniteSet(T) /\ Cardinality(T) = Cardinality(S)
  BY <1>1, FS_Interval
<1>3. rank \in Injection(S, T)
  <2>1. rank \in [S -> T]
    BY RankGrows
  <2>2. ASSUME NEW i \in S, NEW j \in S, rank[i] = rank[j]
        PROVE  i = j
    <3>1. Rank(S, i) \in Nat /\ Rank(S, j) \in Nat /\ Rank(S, i) = Rank(S, j)
      BY <2>2, RankGrows
    <3>2. ~(i < j) /\ ~(j < i)
      BY <3>1, RankGrows
    <3> QED  BY <3>2
  <2> QED  BY <2>1, <2>2 DEF Injection, IsInjective
<1>4. rank \in Surjection(S, T)
  <2> HIDE DEF rank, T
  <2> QED  BY <1>2, <1>3, FS_Injection
<1> QED  BY <1>4 DEF Surjection

LEMMA PlaceOfRank ==
    ASSUME NEW S \in SUBSET Nat, IsFiniteSet(S)
    PROVE  /\ \A k \in 1..Cardinality(S) : Place(S, k) \in S /\ Rank(S, Place(S, k)) = k
           /\ \A i \in S : Place(S, Rank(S, i)) = i
<1>1. \A k \in 1..Cardinality(S) : Place(S, k) \in S /\ Rank(S, Place(S, k)) = k
  BY RankOnto DEF Place, Rank, UpTo
<1>2. ASSUME NEW i \in S
      PROVE  Place(S, Rank(S, i)) = i
  <2> DEFINE p == Place(S, Rank(S, i))
  <2>1. Rank(S, i) \in 1..Cardinality(S)
    BY RankGrows
  <2>2. p \in S /\ Rank(S, p) = Rank(S, i)
    BY <1>1, <2>1
  <2> HIDE DEF p
  <2>3. ~(i < p) /\ ~(p < i)
    BY <2>1, <2>2, RankGrows
  <2>4. p = i
    BY <2>2, <2>3
  <2> QED  BY <2>4 DEF p
<1> QED  BY <1>1, <1>2

-----------------------------------------------------------------------------
(***************************************************************************)
(* What _format_messages lets through of a list in which no request's      *)
(* declaration stands twice.                                               *)
(***************************************************************************)

Sent(msgs) == {i \in 1..Len(msgs) : ~Skipped(msgs, i)}

LEMMA SentMessages ==
    ASSUME NEW msgs \in Seq(Message)
    PROVE  /\ Sent(msgs) \in SUBSET Nat /\ IsFiniteSet(Sent(msgs))
           /\ Cardinality(Sent(msgs)) \in Nat
           /\ FormatMessages(msgs) \in Seq(Message)
           /\ Len(FormatMessages(msgs)) = Cardinality(Sent(msgs))
           /\ \A k \in 1..Cardinality(Sent(msgs)) :
                 FormatMessages(msgs)[k] = msgs[Place(Sent(msgs), k)]
<1>1. Len(msgs) \in Nat
  OBVIOUS
<1>2. Sent(msgs) \in SUBSET (1..Len(msgs))
  BY DEF Sent
<1>3. IsFiniteSet(Sent(msgs))
  <2>1. IsFiniteSet(1..Len(msgs))
    BY <1>1, FS_Interval
  <2> QED  BY <1>2, <2>1, FS_Subset
<1>4. Sent(msgs) \in SUBSET Nat /\ Cardinality(Sent(msgs)) \in Nat
  BY <1>1, <1>2, <1>3, FS_CardinalityType
<1>5. FormatMessages(msgs)
        = [k \in 1..Cardinality(Sent(msgs)) |-> msgs[Place(Sent(msgs), k)]]
  BY DEF FormatMessages, Sent
<1>6. \A k \in 1..Cardinality(Sent(msgs)) : msgs[Place(Sent(msgs), k)] \in Message
  BY <1>2, <1>3, <1>4, PlaceOfRank
<1> QED  BY <1>3, <1>4, <1>5, <1>6

\* An answer that is sent has its declaration before it, and no other answer to the
\* same call in between.
LEMMA SentAnswer ==
    ASSUME NEW msgs \in Seq(Message), NEW p \in Sent(msgs), msgs[p].role = "tool"
    PROVE  \E q \in Sent(msgs) :
               /\ q < p /\ msgs[q].role = "assistant" /\ msgs[q].n > 0
               /\ msgs[q].by = msgs[p].by
               /\ ToolCallId(msgs[p]) \in DeclaredIds(msgs[q])
               /\ \A k \in q+1 .. p-1 : msgs[k].role = "tool" => ToolCallId(msgs[k]) # ToolCallId(msgs[p])
<1>1. p \in 1..Len(msgs) /\ ToolCallId(msgs[p]) \in Pending(msgs, p)
  BY DEF Sent, Skipped
<1>2. PICK q \in 1..(p - 1) :
          /\ ToolCallId(msgs[p]) \in DeclaredIds(msgs[q])
          /\ \A k \in q+1 .. p-1 : msgs[k].role = "tool" => ToolCallId(msgs[k]) # ToolCallId(msgs[p])
  BY <1>1 DEF Pending
<1>3. q \in 1..Len(msgs) /\ q < p
  BY <1>1, <1>2
<1>4. msgs[q] \in Message
  BY <1>3
<1>5. /\ msgs[q].role = "assistant" /\ msgs[q].by = msgs[p].by
      /\ msgs[p].n \in 1..msgs[q].n
  BY <1>2 DEF DeclaredIds, ToolCallId
<1>6. msgs[q].n > 0
  BY <1>4, <1>5, ExecutionAssumption DEF Message
<1>7. q \in Sent(msgs)
  BY <1>3, <1>5 DEF Sent, Skipped
<1> QED  BY <1>2, <1>3, <1>5, <1>6, <1>7

\* No answer is sent twice.
LEMMA SentOnce ==
    ASSUME NEW msgs \in Seq(Message),
           \A a \in Requests : AtMostOnce("declaration", a, msgs),
           NEW p \in Sent(msgs), NEW t \in Sent(msgs), msgs[p].role = "tool", msgs[t] = msgs[p]
    PROVE  ~(p < t)
<1> SUFFICES ASSUME p < t
             PROVE  FALSE
  OBVIOUS
<1>1. PICK q \in Sent(msgs) :
          /\ q < p /\ msgs[q].role = "assistant" /\ msgs[q].n > 0 /\ msgs[q].by = msgs[p].by
  BY SentAnswer
<1>2. PICK u \in Sent(msgs) :
          /\ u < t /\ msgs[u].role = "assistant" /\ msgs[u].n > 0 /\ msgs[u].by = msgs[p].by
          /\ \A k \in u+1 .. t-1 : msgs[k].role = "tool" => ToolCallId(msgs[k]) # ToolCallId(msgs[t])
  BY SentAnswer
<1>3. /\ p \in 1..Len(msgs) /\ q \in 1..Len(msgs) /\ u \in 1..Len(msgs) /\ t \in 1..Len(msgs)
      /\ msgs[p].by \in Requests
  <2>1. p \in 1..Len(msgs) /\ q \in 1..Len(msgs) /\ u \in 1..Len(msgs) /\ t \in 1..Len(msgs)
    BY DEF Sent
  <2>2. msgs[p] \in Message
    BY <2>1
  <2> QED  BY <2>1, <2>2 DEF Message
<1>4. p \notin u+1 .. t-1
  BY <1>2
<1>5. u # p
  BY <1>2
<1>6. q < u
  BY <1>1, <1>3, <1>4, <1>5
<1>7. Marks("declaration", msgs[p].by, msgs[q]) /\ Marks("declaration", msgs[p].by, msgs[u])
  BY <1>1, <1>2 DEF Marks
<1>8. q = u
  BY <1>3, <1>7 DEF AtMostOnce
<1> QED  BY <1>3, <1>6, <1>8

LEMMA SentInOrder ==
    ASSUME NEW msgs \in Seq(Message),
           \A a \in Requests : AtMostOnce("declaration", a, msgs)
    PROVE  LET sent == FormatMessages(msgs)
           IN  \A j \in 1..Len(sent) : sent[j].role = "tool" =>
                   /\ \E i \in 1..(j - 1) : ToolCallId(sent[j]) \in DeclaredIds(sent[i])
                   /\ Positions(sent, sent[j]) = {j}
<1> DEFINE sent == FormatMessages(msgs)
           S == Sent(msgs)
<1>1. /\ S \in SUBSET Nat /\ IsFiniteSet(S) /\ Cardinality(S) \in Nat
      /\ Len(sent) = Cardinality(S)
      /\ \A k \in 1..Cardinality(S) : sent[k] = msgs[Place(S, k)]
  BY SentMessages
<1> HIDE DEF sent
<1>2. ASSUME NEW j \in 1..Len(sent), sent[j].role = "tool"
      PROVE  /\ \E i \in 1..(j - 1) : ToolCallId(sent[j]) \in DeclaredIds(sent[i])
             /\ Positions(sent, sent[j]) = {j}
  <2> DEFINE p == Place(S, j)
  <2>1. p \in S /\ Rank(S, p) = j /\ sent[j] = msgs[p] /\ j \in 1..Cardinality(S)
    BY <1>1, PlaceOfRank
  <2> HIDE DEF p
  <2>2. \E i \in 1..(j - 1) : ToolCallId(sent[j]) \in DeclaredIds(sent[i])
    <3>1. PICK q \in S : q < p /\ ToolCallId(msgs[p]) \in DeclaredIds(msgs[q])
      BY <1>2, <2>1, SentAnswer
    <3>2. /\ Rank(S, q) \in 1..Cardinality(S) /\ Rank(S, q) < j
          /\ Place(S, Rank(S, q)) = q
      BY <1>1, <2>1, <3>1, PlaceOfRank, RankGrows
    <3>3. Rank(S, q) \in 1..(j - 1) /\ sent[Rank(S, q)] = msgs[q]
      BY <1>1, <2>1, <3>2
    <3> QED  BY <2>1, <3>1, <3>3
  <2>3. ASSUME NEW k \in 1..Len(sent), sent[k] = sent[j]
        PROVE  k = j
    <3> DEFINE t == Place(S, k)
    <3>1. t \in S /\ Rank(S, t) = k /\ msgs[t] = msgs[p]
      BY <1>1, <2>1, <2>3, PlaceOfRank
    <3> HIDE DEF t
    <3>2. msgs[p].role = "tool" /\ msgs[t].role = "tool"
      BY <1>2, <2>1, <3>1
    <3>3. ~(p < t) /\ ~(t < p)
      BY <2>1, <3>1, <3>2, SentOnce
    <3>4. p = t
      BY <1>1, <2>1, <3>1, <3>3
    <3> QED  BY <2>1, <3>1, <3>4
  <2>4. Positions(sent, sent[j]) = {j}
    BY <1>2, <2>3 DEF Positions
  <2> QED  BY <2>2, <2>4
<1> QED  BY <1>2 DEF sent

\* Also where overlapping requests, failed turns, trims and expired lists have torn
\* declarations and answers apart, no answer is sent to the model but after the
\* declaration of its call, and none twice.
THEOREM DeclaredFirst == Spec => []AnswersFollowDeclarations
<1>1. PromptInv => AnswersFollowDeclarations
  <2> SUFFICES ASSUME PromptInv, NEW r \in Requests
               PROVE  LET sent == FormatMessages(prompt[r])
                      IN  \A j \in 1..Len(sent) : sent[j].role = "tool" =>
                              /\ \E i \in 1..(j - 1) : ToolCallId(sent[j]) \in DeclaredIds(sent[i])
                              /\ Positions(sent, sent[j]) = {j}
    BY DEF AnswersFollowDeclarations
  <2>1. prompt[r] \in Seq(Message)
    BY DEF PromptInv, TypeOK, LocalTypeOK
  <2>2. \A a \in Requests : AtMostOnce("declaration", a, prompt[r])
    BY DEF PromptInv, OncePrompted, Kinds
  <2> QED  BY <2>1, <2>2, SentInOrder
<1> QED  BY <1>1, InitPrompts, NextPrompts, PTL DEF Spec

-----------------------------------------------------------------------------
(***************************************************************************)
(* The follow-up call: a declaration and its answers at the end of a list  *)
(* all come through, and stay at the end.                                  *)
(***************************************************************************)

\* The last elements of 1..n, where S has them all, are the last of S.
LEMMA LastPlaces ==
    ASSUME NEW n \in Nat, NEW S \in SUBSET (1..n), NEW c \in Nat, c < n, (n - c)..n \subseteq S,
           NEW t \in 0..c
    PROVE  /\ IsFiniteSet(S) /\ Cardinality(S) \in Nat /\ Cardinality(S) > c
           /\ Place(S, Cardinality(S) - t) = n - t
<1> DEFINE last == (n - t + 1)..n
<1>0. S \in SUBSET Nat
  OBVIOUS
<1>1. IsFiniteSet(S)
  <2>1. IsFiniteSet(1..n)
    BY FS_Interval
  <2> QED  BY <2>1, FS_Subset
<1>2. Cardinality(S) \in Nat
  BY <1>1, FS_CardinalityType
<1>3. IsFiniteSet(last) /\ Cardinality(last) = t
  <2>1. n - t + 1 \in Int /\ n \in Int
    OBVIOUS
  <2>2. IsFiniteSet(last) /\ Cardinality(last) = IF n - t + 1 > n THEN 0 ELSE n - (n - t + 1) + 1
    BY <2>1, FS_Interval
  <2> QED  BY <2>2
<1>4. last \in SUBSET S
  <2>1. \A i \in last : i \in (n - c)..n
    OBVIOUS
  <2> QED  BY <2>1
<1>5. UpTo(S, n - t) = S \ last
  <2>1. \A i \in 1..n : i <= n - t <=> i \notin last
    OBVIOUS
  <2> QED  BY <2>1 DEF UpTo
<1>6. Cardinality(S \ last) = Cardinality(S) - t
  <2>1. Cardinality(S \ last) = Cardinality(S) - Cardinality(S \cap last)
    BY <1>1, <1>3, FS_Difference
  <2>2. S \cap last = last
    BY <1>4
  <2> HIDE DEF last
  <2> QED  BY <1>3, <2>1, <2>2
<1>7. n - t \in S
  <2>1. n - t \in (n - c)..n
    OBVIOUS
  <2> QED  BY <2>1
<1>8. Place(S, Cardinality(S) - t) = n - t
  BY <1>0, <1>1, <1>5, <1>6, <1>7, PlaceOfRank DEF Rank
<1>9. Cardinality(S) > c
  <2>1. (n - c)..n \in SUBSET S /\ n - c \in Int /\ n \in Int
    OBVIOUS
  <2>2. Cardinality((n - c)..n) = c + 1
    <3>1. Cardinality((n - c)..n) = IF n - c > n THEN 0 ELSE n - (n - c) + 1
      BY <2>1, FS_Interval
    <3> QED  BY <3>1
  <2>3. c + 1 <= Cardinality(S)
    BY <1>1, <2>1, <2>2, FS_Subset
  <2> QED  BY <1>2, <2>3
<1> QED  BY <1>1, <1>2, <1>8, <1>9

\* The declaration is a message of the assistant, and each answer finds its call
\* pending: the answers before it are to other calls.
LEMMA TailIsSent ==
    ASSUME NEW msgs \in Seq(Message), NEW r \in Requests, NEW c \in 1..MaxToolCalls,
           Answered(msgs, r, c, c)
    PROVE  (Len(msgs) - c)..Len(msgs) \subseteq Sent(msgs)
<1> DEFINE n == Len(msgs)
           d == n - c
<1>0. c \in Nat /\ n \in Nat /\ d \in 1..n
  BY ExecutionAssumption DEF Answered
<1>1. msgs[d].role = "assistant" /\ DeclaredIds(msgs[d]) = {<<r, x>> : x \in 1..c}
  BY DEF Answered, ToolCallsMessage, DeclaredIds
<1>2. \A i \in 1..c : msgs[d + i].role = "tool" /\ ToolCallId(msgs[d + i]) = <<r, i>>
  <2>1. \A i \in 1..c : msgs[d + i] = ToolMessage(r, i)
    BY DEF Answered
  <2>2. \A i : ToolMessage(r, i).role = "tool" /\ ToolCallId(ToolMessage(r, i)) = <<r, i>>
    BY DEF ToolMessage, ToolCallId
  <2> HIDE DEF d
  <2> QED  BY <2>1, <2>2
<1>3. d \in Sent(msgs)
  BY <1>0, <1>1 DEF Sent, Skipped
<1> HIDE DEF d
<1>4. ASSUME NEW i \in 1..c
      PROVE  d + i \in Sent(msgs)
  <2>1. d \in 1..(d + i - 1)
    BY <1>0
  <2>2. ASSUME NEW k \in d+1 .. d+i-1
        PROVE  ToolCallId(msgs[k]) # <<r, i>>
    <3>1. k - d \in 1..c /\ k - d # i /\ d + (k - d) = k
      BY <1>0
    <3>2. ToolCallId(msgs[k]) = <<r, k - d>>
      BY <1>2, <3>1
    <3> QED  BY <3>1, <3>2
  <2>3. <<r, i>> \in Pending(msgs, d + i)
    BY <1>1, <2>1, <2>2 DEF Pending
  <2>4. d + i \in 1..n
    <3>1. d + c = n
      BY <1>0 DEF d
    <3> QED  BY <1>0, <3>1
  <2> QED  BY <1>2, <2>3, <2>4 DEF Sent, Skipped
<1>5. ASSUME NEW j \in d..n
      PROVE  j \in Sent(msgs)
  <2>1. CASE j = d
    BY <1>3, <2>1
  <2>2. CASE j # d
    <3>1. j - d \in 1..c /\ d + (j - d) = j
      <4>1. d + c = n
        BY <1>0 DEF d
      <4> QED  BY <1>0, <2>2, <4>1
    <3> QED  BY <1>4, <3>1
  <2> QED  BY <2>1, <2>2
<1> QED  BY <1>5 DEF d

LEMMA TailStays ==
    ASSUME NEW msgs \in Seq(Message), NEW r \in Requests, NEW c \in 1..MaxToolCalls,
           Answered(msgs, r, c, c)
    PROVE  LastN(FormatMessages(msgs), c + 1)
             = <<ToolCallsMessage(r, c)>> \o [i \in 1..c |-> ToolMessage(r, i)]
<1> DEFINE sent == FormatMessages(msgs)
           n == Len(msgs)
           S == Sent(msgs)
           max == Cardinality(S)
           tail == [i \in 1..c |-> ToolMessage(r, i)]
<1>0. c \in Nat /\ n \in Nat /\ c < n /\ c \in 0..MaxToolCalls /\ MaxToolCalls \in Nat
  BY ExecutionAssumption DEF Answered
<1>1. /\ sent \in Seq(Message) /\ Len(sent) = max
      /\ \A k \in 1..max : sent[k] = msgs[Place(S, k)]
  BY SentMessages
<1>2. S \in SUBSET (1..n) /\ (n - c)..n \subseteq S
  BY TailIsSent DEF Sent
<1>3. /\ max \in Nat /\ max > c
      /\ \A t \in 0..c : Place(S, max - t) = n - t
  <2> HIDE DEF S, n
  <2>1. ASSUME NEW t \in 0..c
        PROVE  max \in Nat /\ max > c /\ Place(S, max - t) = n - t
    BY <1>0, <1>2, LastPlaces
  <2>2. 0 \in 0..c
    BY <1>0
  <2> QED  BY <2>1, <2>2
<1> HIDE DEF sent, max, S
<1>4. ASSUME NEW i \in 1..c + 1
      PROVE  SubSeq(sent, max - c, max)[i] = IF i = 1 THEN ToolCallsMessage(r, c)
                                                      ELSE ToolMessage(r, i - 1)
  <2>1. SubSeq(sent, max - c, max)[i] = sent[max - (c + 1 - i)]
    <3>1. /\ max - c \in 1..max /\ i \in 1..max - (max - c) + 1
          /\ max - c + i - 1 = max - (c + 1 - i)
      BY <1>0, <1>3
    <3> QED  BY <1>1, <1>3, <3>1
  <2>2. c + 1 - i \in 0..c /\ max - (c + 1 - i) \in 1..max
    BY <1>0, <1>3
  <2>3. sent[max - (c + 1 - i)] = msgs[n - (c + 1 - i)]
    BY <1>1, <1>3, <2>2
  <2>4. CASE i = 1
    <3>1. n - (c + 1 - i) = n - c
      BY <1>0, <2>4
    <3> QED  BY <2>1, <2>3, <2>4, <3>1 DEF Answered
  <2>5. CASE i # 1
    <3>1. i - 1 \in 1..c /\ n - (c + 1 - i) = n - c + (i - 1)
      BY <1>0, <2>5
    <3> QED  BY <2>1, <2>3, <2>5, <3>1 DEF Answered
  <2> QED  BY <2>4, <2>5
<1>5. /\ SubSeq(sent, max - c, max) \in Seq(Message)
      /\ Len(SubSeq(sent, max - c, max)) = c + 1
  <2>1. max - c \in 1..max /\ max - (max - c) + 1 = c + 1
    BY <1>0, <1>3
  <2> QED  BY <1>1, <1>3, <2>1
<1>6. /\ <<ToolCallsMessage(r, c)>> \o tail \in Seq(Message)
      /\ Len(<<ToolCallsMessage(r, c)>> \o tail) = c + 1
      /\ \A i \in 1..c + 1 : (<<ToolCallsMessage(r, c)>> \o tail)[i]
                                = IF i = 1 THEN ToolCallsMessage(r, c) ELSE ToolMessage(r, i - 1)
  <2>1. tail \in Seq(Message) /\ Len(tail) = c
    BY <1>0, MessageTypes
  <2>2. \A i \in 1..c : tail[i] = ToolMessage(r, i)
    OBVIOUS
  <2> HIDE DEF tail
  <2>3. ToolCallsMessage(r, c) \in Message
    BY <1>0, MessageTypes
  <2>4. \A i \in 1..c + 1 : i = 1 \/ i - 1 \in 1..c
    BY <1>0
  <2> QED  BY <1>0, <2>1, <2>2, <2>3, <2>4
<1>7. LastN(sent, c + 1) = SubSeq(sent, max - c, max)
  <2>1. max - (c + 1) + 1 = max - c
    BY <1>0, <1>3
  <2> QED  BY <1>1, <2>1 DEF LastN
<1>8. SubSeq(sent, max - c, max) = <<ToolCallsMessage(r, c)>> \o tail
  <2> DEFINE a == SubSeq(sent, max - c, max)
             b == <<ToolCallsMessage(r, c)>> \o tail
  <2> HIDE DEF tail, a, b
  <2>1. /\ a \in Seq(Message) /\ b \in Seq(Message) /\ Len(a) = c + 1 /\ Len(b) = c + 1
        /\ \A i \in 1..c + 1 : a[i] = b[i]
    BY <1>4, <1>5, <1>6 DEF a, b
  <2>2. a \in [1..c + 1 -> Message] /\ b \in [1..c + 1 -> Message]
    BY <2>1
  <2>3. a = b
    BY <2>1, <2>2
  <2> QED  BY <2>3 DEF a, b
<1> QED  BY <1>7, <1>8 DEF sent

\* The follow-up call shows the model what it asked for and the answer to each of its
\* calls, in order, as the last thing it reads: formatting skips none of them.
THEOREM FollowUpComplete == Spec => []FollowUpAnswersEveryCall
<1>1. PromptInv => FollowUpAnswersEveryCall
  <2> SUFFICES ASSUME PromptInv, NEW r \in Requests, pc[r] = "llm2"
               PROVE  LastN(FormatMessages(prompt[r]), calls[r] + 1)
                        = <<Declaration(r)>> \o [i \in 1..calls[r] |-> ToolMessage(r, i)]
    BY DEF FollowUpAnswersEveryCall
  <2>1. prompt[r] \in Seq(Message) /\ Answered(prompt[r], r, calls[r], calls[r])
    BY DEF PromptInv, TypeOK, LocalTypeOK, Answering
  <2>2. calls[r] \in 1..MaxToolCalls
    <3>1. calls[r] \in 0..MaxToolCalls /\ calls[r] > 0
      BY DEF PromptInv, TypeOK, LocalTypeOK, Answering
    <3> QED  BY <3>1, ExecutionAssumption
  <2> QED  BY <2>1, <2>2, TailStays DEF Declaration
<1> QED  BY <1>1, InitPrompts, NextPrompts, PTL DEF Spec

-----------------------------------------------------------------------------
(***************************************************************************)
(* Lists in which calls are answered at once.  Such a list is chained: each *)
(* message says which one may follow it, so that appending to a list and   *)
(* cutting its front off are local matters.  C counts the calls of each    *)
(* request, S are the requests whose number of calls is known.             *)
(***************************************************************************)

\* How many answers are still to come after m in a list in which calls are answered
\* at once; C[q] is the number of calls q declares.
Left(m, C) ==
    IF m.role = "tool" THEN C[m.by] - m.n ELSE IF m.role = "assistant" THEN m.n ELSE 0

Index(m) == IF m.role = "tool" THEN m.n ELSE 0

\* x may stand right after m.
Links(m, x, C) ==
    IF Left(m, C) > 0 THEN x = ToolMessage(m.by, Index(m) + 1) ELSE x.role # "tool"

\* The declaration of one of the requests S, one of their answers, or neither.
Proper(m, C, S) ==
    /\ m.role = "tool" => m.by \in S /\ m.n \in 1..C[m.by]
    /\ m.role = "assistant" /\ m.n > 0 => m.by \in S /\ m.n = C[m.by]

Chained(list, from, C, S) ==
    /\ \A i \in 1..Len(list) : Proper(list[i], C, S)
    /\ \A i \in from..(Len(list) - 1) : Links(list[i], list[i + 1], C)

Closed(list, C) == Len(list) > 0 => Left(list[Len(list)], C) = 0

Counts == [Requests -> 0..MaxToolCalls]

\* A turn's messages are numbered: what a message is and what it leaves add up.
LEMMA LeftType ==
    ASSUME NEW C \in Counts, NEW S \in SUBSET Requests, NEW m \in Message, Proper(m, C, S)
    PROVE  /\ Left(m, C) \in Nat /\ Index(m) \in Nat
           /\ m.role = "tool" => Index(m) + Left(m, C) = C[m.by]
           /\ Left(m, C) > 0
                 => Index(m) + Left(m, C) = C[m.by] /\ m.role \in {"assistant", "tool"}
<1>1. /\ m.role \in Roles /\ m.by \in Requests /\ m.n \in 0..MaxToolCalls
      /\ MaxToolCalls \in Nat /\ C[m.by] \in 0..MaxToolCalls
  BY ExecutionAssumption DEF Message, Counts
<1> QED  BY <1>1 DEF Left, Index, Proper

\* What may follow the last message may be appended.
LEMMA AppendChained ==
    ASSUME NEW C, NEW S, NEW from \in Nat \ {0}, NEW list \in Seq(Message), NEW m \in Message,
           Chained(list, from, C, S), Proper(m, C, S),
           Len(list) >= from => Links(list[Len(list)], m, C)
    PROVE  Chained(Append(list, m), from, C, S)
<1>1. /\ Len(Append(list, m)) = Len(list) + 1 /\ Len(list) \in Nat
      /\ Append(list, m)[Len(list) + 1] = m
      /\ \A i \in 1..Len(list) : Append(list, m)[i] = list[i]
  OBVIOUS
<1> DEFINE new == Append(list, m)
<1> HIDE DEF new
<1>2. ASSUME NEW i \in 1..Len(new)
      PROVE  Proper(new[i], C, S)
  BY <1>1 DEF Chained, new
<1>3. ASSUME NEW i \in from..(Len(new) - 1)
      PROVE  Links(new[i], new[i + 1], C)
  <2>1. CASE i = Len(list)
    BY <1>1, <1>3, <2>1 DEF new
  <2>2. CASE i # Len(list)
    <3>1. i \in from..(Len(list) - 1) /\ i \in 1..Len(list) /\ i + 1 \in 1..Len(list)
      BY <1>1, <1>3, <2>2 DEF new
    <3> QED  BY <1>1, <3>1 DEF new, Chained
  <2> QED  BY <2>1, <2>2
<1> QED  BY <1>2, <1>3 DEF Chained, new

\* A trim leaves a chained list, which may begin among answers, with the same end.
LEMMA SuffixChained ==
    ASSUME NEW C, NEW S, NEW list \in Seq(Message), NEW start \in Nat, Chained(list, 1, C, S)
    PROVE  LET rest == SubSeq(list, start + 1, Len(list)) IN
           /\ Chained(rest, 1, C, S)
           /\ Len(rest) > 0 => Len(list) > 0 /\ rest[Len(rest)] = list[Len(list)]
<1> DEFINE rest == SubSeq(list, start + 1, Len(list))
<1>1. /\ Len(list) \in Nat
      /\ Len(rest) = (IF start < Len(list) THEN Len(list) - start ELSE 0)
      /\ \A i \in 1..Len(rest) : rest[i] = list[i + start]
  OBVIOUS
<1> HIDE DEF rest
<1>2. \A i \in 1..Len(rest) : i \in Nat /\ i + start \in 1..Len(list)
  BY <1>1
<1>3. ASSUME NEW i \in 1..(Len(rest) - 1)
      PROVE  Links(rest[i], rest[i + 1], C)
  <2>1. /\ i + start \in 1..(Len(list) - 1) /\ i \in 1..Len(rest) /\ i + 1 \in 1..Len(rest)
        /\ (i + 1) + start = (i + start) + 1
    BY <1>1
  <2> QED  BY <1>1, <2>1 DEF Chained
<1>4. Chained(rest, 1, C, S)
  BY <1>1, <1>2, <1>3 DEF Chained
<1>5. Len(rest) > 0 => Len(list) > 0 /\ rest[Len(rest)] = list[Len(list)]
  <2>1. Len(rest) > 0 => Len(rest) \in 1..Len(rest) /\ Len(rest) + start = Len(list)
    BY <1>1
  <2> QED  BY <1>1, <2>1
<1> QED  BY <1>4, <1>5 DEF rest

-----------------------------------------------------------------------------
(***************************************************************************)
(* Every answer that is declared comes, and every answer was declared.     *)
(* Both are inductions along the list, by the smallest counterexample.     *)
(***************************************************************************)

\* A smallest element: induction, by the smallest counterexample.
LEMMA Smallest ==
    ASSUME NEW T \in SUBSET Nat, T # {}
    PROVE  \E x \in T : \A y \in T : x <= y
<1> DEFINE less == {p \in Nat \X Nat : p[1] < p[2]}
<1>1. IsWellFoundedOn(less, Nat)
  BY NatLessThanWellFounded DEF OpToRel
<1> HIDE DEF less
<1>2. PICK x \in T : \A y \in T : <<y, x>> \notin less
  BY <1>1, WFMin
<1>3. \A y \in T : ~(y < x)
  BY <1>2 DEF less
<1> QED  BY <1>2, <1>3

\* The answers that are to come after a message come, at once and in order.
LEMMA AnswersCome ==
    ASSUME NEW C \in Counts, NEW S \in SUBSET Requests, NEW list \in Seq(Message),
           NEW from \in Nat \ {0}, Chained(list, from, C, S), Closed(list, C),
           NEW i \in from..Len(list), NEW d \in 1..Left(list[i], C)
    PROVE  /\ i + d <= Len(list)
           /\ list[i + d] = ToolMessage(list[i].by, Index(list[i]) + d)
<1> DEFINE m == list[i]
           Comes(x) == i + x <= Len(list) /\ list[i + x] = ToolMessage(m.by, Index(m) + x)
           late == {x \in Nat : x \in 1..Left(m, C) /\ ~Comes(x)}
<1>0. /\ Len(list) \in Nat /\ i \in 1..Len(list) /\ m \in Message /\ Proper(m, C, S)
      /\ from \in Nat /\ i \in Nat
  BY DEF Chained
<1>1. /\ Left(m, C) \in Nat /\ Index(m) \in Nat
      /\ Left(m, C) > 0 => Index(m) + Left(m, C) = C[m.by]
  BY <1>0, LeftType
<1> HIDE DEF m
<1>2. ASSUME late # {}
      PROVE  FALSE
  <2>1. PICK x \in late : \A y \in late : x <= y
    BY <1>2, Smallest
  <2>2. /\ x \in Nat /\ x \in 1..Left(m, C) /\ ~Comes(x)
    BY <2>1
  <2> DEFINE p == list[i + (x - 1)]
  <2>3. /\ i + (x - 1) \in from..Len(list) /\ i + (x - 1) \in 1..Len(list)
        /\ p.by = m.by /\ Index(p) = Index(m) + (x - 1) /\ Left(p, C) > 0
    <3>1. CASE x = 1
      BY <1>0, <1>1, <2>2, <3>1 DEF m
    <3>2. CASE x # 1
      <4>1. x - 1 \in Nat /\ x - 1 \in 1..Left(m, C) /\ x - 1 < x
        BY <1>1, <2>2, <3>2
      <4>2. Comes(x - 1)
        <5>1. x - 1 \notin late
          BY <2>1, <2>2, <4>1
        <5> QED  BY <4>1, <5>1
      <4>3. p = ToolMessage(m.by, Index(m) + (x - 1))
        BY <4>2
      <4>4. p.by = m.by /\ p.role = "tool" /\ p.n = Index(m) + (x - 1)
        BY <4>3 DEF ToolMessage
      <4>5. Left(p, C) = C[m.by] - (Index(m) + (x - 1)) /\ Index(p) = Index(m) + (x - 1)
        BY <4>4 DEF Left, Index
      <4>6. Left(p, C) > 0
        BY <1>1, <2>2, <4>5
      <4>7. i + (x - 1) \in from..Len(list) /\ i + (x - 1) \in 1..Len(list)
        BY <1>0, <4>1, <4>2
      <4> QED  BY <4>4, <4>5, <4>6, <4>7
    <3> QED  BY <3>1, <3>2
  <2> HIDE DEF p
  <2>4. i + (x - 1) # Len(list)
    BY <1>0, <2>3 DEF Closed, p
  <2>5. i + (x - 1) \in from..(Len(list) - 1) /\ (i + (x - 1)) + 1 = i + x
    BY <1>0, <2>2, <2>3, <2>4
  <2>6. Links(p, list[i + x], C)
    BY <2>5 DEF Chained, p
  <2>7. list[i + x] = ToolMessage(m.by, Index(m) + (x - 1) + 1)
    BY <2>3, <2>6 DEF Links
  <2>8. Index(m) + (x - 1) + 1 = Index(m) + x
    BY <1>1, <2>2
  <2>9. i + x <= Len(list)
    BY <1>0, <2>2, <2>5
  <2> QED  BY <2>2, <2>7, <2>8, <2>9
<1>3. Comes(d)
  <2>1. d \in Nat
    BY <1>1 DEF m
  <2> QED  BY <1>2, <2>1 DEF m
<1> QED  BY <1>3 DEF m

\* An answer stands behind those before it and the declaration, unless the list
\* begins among them.
LEMMA AnswersComeFrom ==
    ASSUME NEW C \in Counts, NEW S \in SUBSET Requests, NEW list \in Seq(Message),
           NEW from \in Nat \ {0}, Chained(list, from, C, S),
           NEW j \in from..Len(list), list[j].role = "tool"
    PROVE  LET q == list[j].by
               k == list[j].n IN
           /\ q \in Requests /\ k \in 1..C[q]
           /\ \/ \A i \in from..j : list[i].role = "tool"
              \/ /\ j - k >= from /\ list[j - k] = ToolCallsMessage(q, C[q])
                 /\ \A d \in 1..k : list[(j - k) + d] = ToolMessage(q, d)
<1> DEFINE Origin(x) ==
             \/ \A i \in from..x : list[i].role = "tool"
             \/ /\ x - list[x].n >= from
                /\ list[x - list[x].n] = ToolCallsMessage(list[x].by, C[list[x].by])
                /\ \A d \in 1..list[x].n : list[(x - list[x].n) + d] = ToolMessage(list[x].by, d)
           stray == {x \in Nat : x \in from..Len(list) /\ list[x].role = "tool" /\ ~Origin(x)}
<1>0. /\ Len(list) \in Nat
      /\ \A x \in from..Len(list) : x \in Nat /\ x \in 1..Len(list) /\ list[x] \in Message
  OBVIOUS
<1>1. \A x \in from..Len(list) :
          /\ Proper(list[x], C, S)
          /\ list[x].role = "tool" => list[x].by \in Requests /\ list[x].n \in 1..C[list[x].by]
  BY <1>0 DEF Chained, Proper
<1>2. ASSUME stray # {}
      PROVE  FALSE
  <2>1. PICK x \in stray : \A y \in stray : x <= y
    BY <1>2, Smallest
  <2>2. x \in Nat /\ x \in from..Len(list) /\ list[x].role = "tool" /\ ~Origin(x)
    BY <2>1
  <2>3. x # from
    BY <2>2
  <2> DEFINE m == list[x]
             p == list[x - 1]
  <2>4. /\ x - 1 \in from..Len(list) /\ x - 1 \in from..(Len(list) - 1) /\ (x - 1) + 1 = x
        /\ x - 1 < x /\ x - 1 \in Nat
    BY <1>0, <2>2, <2>3
  <2>5. Links(p, m, C) /\ p \in Message /\ Proper(p, C, S)
    BY <1>0, <1>1, <2>4 DEF Chained
  <2>6. Left(p, C) > 0 /\ m = ToolMessage(p.by, Index(p) + 1)
    BY <2>2, <2>5 DEF Links
  <2>7. m.by = p.by /\ m.n = Index(p) + 1
    BY <2>6 DEF ToolMessage
  <2>8. p.role \in {"assistant", "tool"}
    BY <2>5, <2>6, LeftType
  <2>9. CASE p.role = "assistant"
    <3>1. m.n = 1 /\ p.n > 0 /\ p.n = C[p.by] /\ p.by \in Requests
      BY <2>5, <2>6, <2>7, <2>9 DEF Left, Index, Proper
    <3>2. p = ToolCallsMessage(m.by, C[m.by])
      BY <2>5, <2>7, <2>9, <3>1 DEF Message, ToolCallsMessage
    <3>3. m = ToolMessage(m.by, 1)
      BY <2>6, <2>7, <3>1
    <3>4. Origin(x)
      <4>1. x - list[x].n = x - 1 /\ x - 1 >= from
        BY <2>4, <3>1
      <4>2. \A d \in 1..list[x].n : list[(x - 1) + d] = ToolMessage(list[x].by, d)
        BY <2>4, <3>1, <3>3
      <4> QED  BY <3>2, <4>1, <4>2
    <3> QED  BY <2>2, <3>4
  <2>10. CASE p.role = "tool"
    <3>1. /\ Index(p) = p.n /\ p.n \in Nat /\ m.n = p.n + 1 /\ m.by = p.by
          /\ m = ToolMessage(m.by, m.n) /\ m.role = "tool"
      <4>1. Index(p) = p.n /\ p.n \in Nat
        BY <2>5, <2>10, ExecutionAssumption DEF Index, Message
      <4> QED  BY <2>2, <2>6, <2>7, <4>1
    <3>2. Origin(x - 1)
      <4>1. x - 1 \notin stray
        BY <2>1, <2>2, <2>4
      <4> QED  BY <2>4, <2>10, <4>1
    <3>3. CASE \A i \in from..(x - 1) : list[i].role = "tool"
      <4>1. \A i \in from..x : i \in from..(x - 1) \/ i = x
        BY <2>2, <2>4
      <4> QED  BY <2>2, <3>3, <4>1
    <3>4. CASE /\ (x - 1) - p.n >= from
               /\ list[(x - 1) - p.n] = ToolCallsMessage(p.by, C[p.by])
               /\ \A d \in 1..p.n : list[((x - 1) - p.n) + d] = ToolMessage(p.by, d)
      <4> HIDE DEF p
      <4>1. (x - 1) - p.n = x - m.n /\ (x - m.n) + m.n = x
        <5> HIDE DEF m
        <5> QED  BY <2>2, <3>1
      <4>2. ASSUME NEW d \in 1..m.n
            PROVE  list[(x - m.n) + d] = ToolMessage(m.by, d)
        <5>1. CASE d = m.n
          BY <3>1, <4>1, <5>1
        <5>2. CASE d # m.n
          <6>1. d \in 1..p.n
            <7> HIDE DEF m
            <7> QED  BY <3>1, <5>2
          <6> QED  BY <3>1, <3>4, <4>1, <6>1
        <5> QED  BY <5>1, <5>2
      <4>3. Origin(x)
        BY <3>1, <3>4, <4>1, <4>2
      <4> QED  BY <2>2, <4>3
    <3> QED  BY <3>2, <3>3, <3>4
  <2> QED  BY <2>8, <2>9, <2>10
<1>3. Origin(j)
  <2>1. j \in Nat /\ j \notin stray
    BY <1>0, <1>2
  <2> QED  BY <2>1
<1> QED  BY <1>1, <1>3

\* So a list that does not begin among them has the declaration before the answer,
\* and other answers to the same message only in between.
LEMMA AnswersAreDeclared ==
    ASSUME NEW C \in Counts, NEW S \in SUBSET Requests, NEW list \in Seq(Message),
           NEW from \in Nat \ {0}, Chained(list, from, C, S),
           NEW j \in from..Len(list), list[j].role = "tool",
           NEW i \in from..j, list[i].role # "tool"
    PROVE  \E d \in from..(j - 1) :
               /\ ToolCallId(list[j]) \in DeclaredIds(list[d])
               /\ \A x \in d + 1 .. j - 1 :
                     list[x].role = "tool" /\ ToolCallId(list[x]) # ToolCallId(list[j])
<1> DEFINE q == list[j].by
           k == list[j].n
<1>1. /\ q \in Requests /\ k \in 1..C[q]
      /\ \/ \A x \in from..j : list[x].role = "tool"
         \/ /\ j - k >= from /\ list[j - k] = ToolCallsMessage(q, C[q])
            /\ \A d \in 1..k : list[(j - k) + d] = ToolMessage(q, d)
  BY AnswersComeFrom
<1>2. ToolCallId(list[j]) = <<q, k>>
  BY DEF ToolCallId
<1> HIDE DEF q, k
<1>3. /\ j - k >= from /\ list[j - k] = ToolCallsMessage(q, C[q])
      /\ \A d \in 1..k : list[(j - k) + d] = ToolMessage(q, d)
  BY <1>1
<1>4. k \in Nat /\ k > 0 /\ j \in Nat /\ from \in Nat /\ j - k \in from..(j - 1)
  BY <1>1, <1>3 DEF Counts
<1>5. <<q, k>> \in DeclaredIds(list[j - k])
  <2>1. DeclaredIds(list[j - k]) = {<<q, d>> : d \in 1..C[q]}
    BY <1>3 DEF DeclaredIds, ToolCallsMessage
  <2> QED  BY <1>1, <2>1
<1>6. ASSUME NEW x \in (j - k) + 1 .. j - 1
      PROVE  list[x].role = "tool" /\ ToolCallId(list[x]) # <<q, k>>
  <2>1. /\ x - (j - k) \in 1..k /\ (j - k) + (x - (j - k)) = x
        /\ x - (j - k) # k
    BY <1>4
  <2>2. list[x] = ToolMessage(q, x - (j - k))
    BY <1>3, <2>1
  <2> QED  BY <2>1, <2>2 DEF ToolMessage, ToolCallId
<1> QED  BY <1>2, <1>4, <1>5, <1>6

\* A list that is chained throughout and closed is one the API accepts.
LEMMA ChainedAccepted ==
    ASSUME NEW C \in Counts, NEW S \in SUBSET Requests, NEW list \in Seq(Message),
           Chained(list, 1, C, S), Closed(list, C), Len(list) > 0, list[1].role # "tool"
    PROVE  Accepted(list)
<1>0. /\ Len(list) \in Nat
      /\ \A i \in 1..Len(list) : i \in Nat /\ list[i] \in Message /\ Proper(list[i], C, S)
  BY DEF Chained
<1>1. ASSUME NEW i \in 1..Len(list), list[i].role = "assistant"
      PROVE  AnswersFollow(list, i)
  <2> DEFINE m == list[i]
  <2>1. /\ m.n \in Nat /\ Left(m, C) = m.n /\ Index(m) = 0
    BY <1>0, <1>1, ExecutionAssumption DEF Message, Left, Index
  <2>2. \A d \in 1..m.n : i + d <= Len(list) /\ list[i + d] = ToolMessage(m.by, d)
    <3>1. ASSUME NEW d \in 1..m.n
          PROVE  i + d <= Len(list) /\ list[i + d] = ToolMessage(m.by, Index(m) + d)
      <4>1. d \in 1..Left(m, C) /\ 1 \in Nat \ {0}
        BY <2>1
      <4> QED  BY <4>1, AnswersCome
    <3>2. \A d \in 1..m.n : Index(m) + d = d
      BY <2>1
    <3> QED  BY <3>1, <3>2
  <2> HIDE DEF m
  <2>3. i + m.n <= Len(list)
    <3>1. CASE m.n = 0
      BY <1>0, <3>1
    <3>2. CASE m.n # 0
      <4>1. m.n \in 1..m.n
        BY <2>1, <3>2
      <4> QED  BY <2>2, <4>1
    <3> QED  BY <3>1, <3>2
  <2>4. ASSUME NEW x \in (i + 1)..(i + m.n)
        PROVE  /\ list[x].role = "tool" /\ ToolCallId(list[x]) = <<m.by, x - i>>
               /\ x - i \in 1..m.n
    <3>1. x - i \in 1..m.n /\ i + (x - i) = x
      BY <1>0, <2>1
    <3>2. list[x] = ToolMessage(m.by, x - i)
      BY <2>2, <3>1
    <3> QED  BY <3>1, <3>2 DEF ToolMessage, ToolCallId
  <2>5. \A d \in 1..m.n : i + d \in (i + 1)..(i + m.n) /\ (i + d) - i = d
    BY <1>0, <2>1
  <2>6. DeclaredIds(m) = {<<m.by, d>> : d \in 1..m.n}
    BY <1>1 DEF DeclaredIds, m
  <2>7. {ToolCallId(list[x]) : x \in {k \in (i + 1)..(i + m.n) : list[k].role = "tool"}}
          = {<<m.by, d>> : d \in 1..m.n}
    BY <2>4, <2>5
  <2> QED  BY <2>3, <2>6, <2>7 DEF AnswersFollow, m
<1>2. ASSUME NEW j \in 1..Len(list), list[j].role = "tool"
      PROVE  FollowsItsCall(list, j)
  <2>1. PICK one \in Nat \ {0} : one = 1
    BY <1>0
  <2>2. /\ Chained(list, one, C, S) /\ one \in one..j /\ j \in one..Len(list)
        /\ list[one].role # "tool"
    BY <1>0, <2>1
  <2>3. PICK d \in one..(j - 1) :
            /\ ToolCallId(list[j]) \in DeclaredIds(list[d])
            /\ \A x \in d + 1 .. j - 1 : list[x].role = "tool"
    BY <1>2, <2>2, AnswersAreDeclared
  <2>4. d \in 1..(j - 1)
    BY <2>1
  <2> QED  BY <2>3, <2>4 DEF FollowsItsCall
<1> QED  BY <1>1, <1>2 DEF Accepted

-----------------------------------------------------------------------------
(***************************************************************************)
(* Formatting a chained prompt skips the answers it begins with and        *)
(* nothing else.                                                           *)
(***************************************************************************)

\* What _format_messages skips of a chained prompt are the answers it begins with,
\* after the system message: those whose declaration a trim has cut off.
LEMMA FrontIsSkipped ==
    ASSUME NEW C \in Counts, NEW S \in SUBSET Requests, NEW msgs \in Seq(Message),
           msgs[1].role = "system", Chained(msgs, 2, C, S),
           NEW f \in 2..Len(msgs), msgs[f].role # "tool",
           \A i \in 2..(f - 1) : msgs[i].role = "tool"
    PROVE  Sent(msgs) = {1} \cup f..Len(msgs)
<1>0. Len(msgs) \in Nat /\ f \in Nat /\ 1 \in 1..Len(msgs) /\ 2 \in Nat \ {0}
  OBVIOUS
<1>1. 1 \in Sent(msgs)
  BY <1>0 DEF Sent, Skipped
<1>2. ASSUME NEW i \in 2..(f - 1)
      PROVE  i \notin Sent(msgs)
  <2>1. ASSUME NEW j \in 1..(i - 1)
        PROVE  DeclaredIds(msgs[j]) = {}
    <3>1. j = 1 \/ j \in 2..(f - 1)
      BY <1>0
    <3>2. msgs[j].role # "assistant"
      BY <3>1
    <3> QED  BY <3>2 DEF DeclaredIds
  <2>2. Pending(msgs, i) = {}
    BY <2>1 DEF Pending
  <2> QED  BY <2>2 DEF Sent, Skipped
<1>3. ASSUME NEW i \in f..Len(msgs)
      PROVE  i \in Sent(msgs)
  <2>1. i \in 2..Len(msgs) /\ i \in 1..Len(msgs) /\ f \in 2..i /\ i \in Nat
    BY <1>0
  <2>2. CASE msgs[i].role # "tool"
    BY <2>1, <2>2 DEF Sent, Skipped
  <2>3. CASE msgs[i].role = "tool"
    <3>1. PICK two \in Nat \ {0} : two = 2
      BY <1>0
    <3>2. Chained(msgs, two, C, S) /\ f \in two..i /\ i \in two..Len(msgs)
      BY <2>1, <3>1
    <3>3. PICK d \in two..(i - 1) :
              /\ ToolCallId(msgs[i]) \in DeclaredIds(msgs[d])
              /\ \A x \in d + 1 .. i - 1 : ToolCallId(msgs[x]) # ToolCallId(msgs[i])
      BY <2>3, <3>2, AnswersAreDeclared
    <3>4. d \in 1..(i - 1)
      BY <3>1
    <3>5. ToolCallId(msgs[i]) \in Pending(msgs, i)
      BY <3>3, <3>4 DEF Pending
    <3> QED  BY <2>1, <3>5 DEF Sent, Skipped
  <2> QED  BY <2>2, <2>3
<1>4. \A i \in 1..Len(msgs) : i = 1 \/ i \in 2..(f - 1) \/ i \in f..Len(msgs)
  BY <1>0
<1>5. Sent(msgs) \in SUBSET (1..Len(msgs))
  BY DEF Sent
<1> QED  BY <1>1, <1>2, <1>3, <1>4, <1>5

\* The places of such a set.
LEMMA PlacesOfRest ==
    ASSUME NEW n \in Nat, NEW f \in 2..n
    PROVE  LET S == {1} \cup f..n IN
           /\ S \in SUBSET Nat /\ IsFiniteSet(S)
           /\ Cardinality(S) = n - f + 2
           /\ Place(S, 1) = 1
           /\ \A k \in 2..(n - f + 2) : Place(S, k) = k + f - 2
<1> DEFINE S == {1} \cup f..n
           c == n - f
<1>0. f \in Nat /\ c \in Nat /\ c < n /\ S \in SUBSET (1..n) /\ S \in SUBSET Nat
  OBVIOUS
<1>1. IsFiniteSet(f..n) /\ Cardinality(f..n) = n - f + 1
  <2>1. f \in Int /\ n \in Int
    OBVIOUS
  <2>2. IsFiniteSet(f..n) /\ Cardinality(f..n) = IF f > n THEN 0 ELSE n - f + 1
    BY <2>1, FS_Interval
  <2> QED  BY <2>2
<1>2. IsFiniteSet(S) /\ Cardinality(S) = n - f + 2
  <2>1. 1 \notin f..n /\ S = f..n \cup {1}
    OBVIOUS
  <2>2. IsFiniteSet(f..n \cup {1}) /\ Cardinality(f..n \cup {1}) = Cardinality(f..n) + 1
    BY <1>1, <2>1, FS_AddElement
  <2> HIDE DEF S
  <2> QED  BY <1>0, <1>1, <2>1, <2>2
<1>3. Place(S, 1) = 1
  <2>1. UpTo(S, 1) = {1} /\ 1 \in S
    BY <1>0 DEF UpTo
  <2>2. Rank(S, 1) = 1
    BY <2>1, FS_Singleton DEF Rank
  <2> HIDE DEF S
  <2> QED  BY <1>0, <1>2, <2>1, <2>2, PlaceOfRank
<1>4. ASSUME NEW k \in 2..(n - f + 2)
      PROVE  Place(S, k) = k + f - 2
  <2>1. /\ n - f + 2 - k \in 0..c /\ (n - c)..n \subseteq S
        /\ (n - f + 2) - (n - f + 2 - k) = k /\ n - (n - f + 2 - k) = k + f - 2
    <3>1. n - c = f
      OBVIOUS
    <3> QED  BY <1>0, <3>1
  <2> HIDE DEF S, c
  <2>2. Place(S, Cardinality(S) - (n - f + 2 - k)) = n - (n - f + 2 - k)
    BY <1>0, <2>1, LastPlaces
  <2> QED  BY <1>2, <2>1, <2>2
<1> QED  BY <1>0, <1>2, <1>3, <1>4

\* Formatted, a chained and closed prompt with a task in it is chained throughout.
LEMMA FormatChained ==
    ASSUME NEW C \in Counts, NEW S \in SUBSET Requests, NEW msgs \in Seq(Message),
           msgs[1].role = "system", Chained(msgs, 2, C, S), Closed(msgs, C),
           NEW u \in 1..Len(msgs), msgs[u].role = "user"
    PROVE  LET sent == FormatMessages(msgs) IN
           /\ sent \in Seq(Message) /\ Len(sent) > 0 /\ sent[1].role = "system"
           /\ Chained(sent, 1, C, S) /\ Closed(sent, C)
<1> DEFINE sent == FormatMessages(msgs)
           n == Len(msgs)
           heads == {i \in Nat : i \in 2..n /\ msgs[i].role # "tool"}
<1>1. PICK f \in heads : \A i \in heads : f <= i
  <2>1. u \in heads
    OBVIOUS
  <2>2. heads # {} /\ heads \in SUBSET Nat
    BY <2>1
  <2> HIDE DEF heads
  <2> QED  BY <2>2, Smallest
<1>2. /\ n \in Nat /\ f \in 2..n /\ f \in Nat /\ msgs[f].role # "tool"
      /\ \A i \in 2..(f - 1) : msgs[i].role = "tool"
  <2>1. n \in Nat /\ f \in 2..n /\ f \in Nat /\ msgs[f].role # "tool"
    BY <1>1
  <2>2. ASSUME NEW i \in 2..(f - 1), msgs[i].role # "tool"
        PROVE  FALSE
    <3>1. i \in heads /\ ~(f <= i)
      BY <2>1, <2>2
    <3> QED  BY <1>1, <3>1
  <2> QED  BY <2>1, <2>2
<1> HIDE DEF heads
<1>3. Sent(msgs) = {1} \cup f..n
  BY <1>2, FrontIsSkipped
<1>4. /\ sent \in Seq(Message) /\ Len(sent) = n - f + 2
      /\ sent[1] = msgs[1]
      /\ \A k \in 2..(n - f + 2) : sent[k] = msgs[k + f - 2]
  <2>1. /\ sent \in Seq(Message) /\ Len(sent) = Cardinality(Sent(msgs))
        /\ \A k \in 1..Cardinality(Sent(msgs)) : sent[k] = msgs[Place(Sent(msgs), k)]
    BY SentMessages
  <2>2. /\ Cardinality(Sent(msgs)) = n - f + 2
        /\ Place(Sent(msgs), 1) = 1
        /\ \A k \in 2..(n - f + 2) : Place(Sent(msgs), k) = k + f - 2
    <3> DEFINE T == {1} \cup f..n
    <3>1. /\ Cardinality(T) = n - f + 2 /\ Place(T, 1) = 1
          /\ \A k \in 2..(n - f + 2) : Place(T, k) = k + f - 2
      <4> HIDE DEF n
      <4> QED  BY <1>2, PlacesOfRest
    <3> HIDE DEF n
    <3> QED  BY <1>3, <3>1
  <2> HIDE DEF sent, n
  <2>3. 1 \in 1..(n - f + 2) /\ \A k \in 2..(n - f + 2) : k \in 1..(n - f + 2)
    BY <1>2
  <2> QED  BY <2>1, <2>2, <2>3
<1> HIDE DEF sent
<1>5. \A k \in 2..(n - f + 2) : k \in Nat /\ k + f - 2 \in 2..n /\ k + f - 2 \in 1..n
  BY <1>2
<1>6. ASSUME NEW k \in 1..Len(sent)
      PROVE  Proper(sent[k], C, S)
  <2>1. k = 1 \/ k \in 2..(n - f + 2)
    BY <1>2, <1>4
  <2>2. 1 \in 1..n
    BY <1>2
  <2> QED  BY <1>4, <1>5, <2>1, <2>2 DEF Chained
<1>7. ASSUME NEW k \in 1..(Len(sent) - 1)
      PROVE  Links(sent[k], sent[k + 1], C)
  <2>1. CASE k = 1
    <3>1. sent[1] = msgs[1] /\ sent[2] = msgs[f]
      <4>1. 2 \in 2..(n - f + 2) /\ 2 + f - 2 = f
        BY <1>2
      <4> QED  BY <1>4, <4>1
    <3> QED  BY <1>2, <2>1, <3>1 DEF Links, Left
  <2>2. CASE k # 1
    <3>1. /\ k \in 2..(n - f + 2) /\ k + 1 \in 2..(n - f + 2)
          /\ k + f - 2 \in 2..(n - 1) /\ (k + 1) + f - 2 = (k + f - 2) + 1
      <4>1. k \in Nat /\ k >= 2 /\ k < n - f + 2 /\ n \in Nat /\ f \in Nat /\ f >= 2 /\ f <= n
        BY <1>2, <1>4, <2>2
      <4> HIDE DEF n
      <4>2. k \in 2..(n - f + 2) /\ k + 1 \in 2..(n - f + 2)
        BY <4>1
      <4>3. k + f - 2 \in 2..(n - 1)
        BY <4>1
      <4>4. (k + 1) + f - 2 = (k + f - 2) + 1
        BY <4>1
      <4> QED  BY <4>2, <4>3, <4>4
    <3>2. sent[k] = msgs[k + f - 2] /\ sent[k + 1] = msgs[(k + f - 2) + 1]
      BY <1>4, <3>1
    <3> QED  BY <3>1, <3>2 DEF Chained
  <2> QED  BY <2>1, <2>2
<1>8. Closed(sent, C) /\ Len(sent) > 0
  <2>1. Len(sent) \in 2..(n - f + 2) /\ Len(sent) + f - 2 = n /\ n > 0
    BY <1>2, <1>4
  <2>2. sent[Len(sent)] = msgs[n]
    BY <1>4, <2>1
  <2> QED  BY <2>1, <2>2 DEF Closed
<1> QED  BY <1>4, <1>6, <1>7, <1>8 DEF Chained, sent

\* So _format_messages makes a prompt the API accepts of it.
LEMMA ChainedPromptAccepted ==
    ASSUME NEW C \in Counts, NEW S \in SUBSET Requests, NEW msgs \in Seq(Message),
           msgs[1].role = "system", Chained(msgs, 2, C, S), Closed(msgs, C),
           NEW u \in 1..Len(msgs), msgs[u].role = "user"
    PROVE  Accepted(FormatMessages(msgs))
<1> DEFINE sent == FormatMessages(msgs)
<1>1. /\ sent \in Seq(Message) /\ Len(sent) > 0 /\ sent[1].role = "system"
      /\ Chained(sent, 1, C, S) /\ Closed(sent, C)
  BY FormatChained
<1> HIDE DEF sent
<1>2. Accepted(sent)
  BY <1>1, ChainedAccepted
<1> QED  BY <1>2 DEF sent

-----------------------------------------------------------------------------
(***************************************************************************)
(* With clients that wait for each answer and no store command or process  *)
(* lost, a session's list is chained until a tool raises in one of its     *)
(* turns: open only while a turn's answers are being stored, and closed    *)
(* whenever a history is read.                                             *)
(***************************************************************************)

\* Between the declaration and the last answer.
TurnPCs == {"decl_expire"} \cup LoopPCs

\* The requests whose number of calls is fixed.
Settled == {q \in Requests : pc[q] \notin Before("declaration")}

Unspoilt(s) == \A q \in Requests : Session(q) = s => pc[q] # "tool_error"

\* What the turn of r has stored last, when a answers are stored.
Latest(r, a) == IF a = 0 THEN Declaration(r) ELSE ToolMessage(r, a)

Told(r) == IF pc[r] = "tool_expire" THEN answered[r] + 1 ELSE answered[r]

Standing(s) ==
    /\ Chained(messages[s], 1, calls, Settled)
    /\ (\A r \in Requests : Session(r) = s => pc[r] \notin TurnPCs)
         => Closed(messages[s], calls)
    /\ \A r \in Requests :
          Session(r) = s /\ pc[r] \in TurnPCs /\ Len(messages[s]) > 0
            => messages[s][Len(messages[s])] = Latest(r, Told(r))

Fit(r) ==
    pc[r] \in Undeclared \cup LoopPCs \cup {"llm2"} =>
        /\ Len(prompt[r]) > 0 /\ prompt[r][1] = SystemMessage(r)
        /\ Chained(prompt[r], 2, calls, Settled)
        /\ pc[r] \in Undeclared => Closed(prompt[r], calls)

Sound ==
    \A s \in Sessions : Unspoilt(s) =>
        Standing(s) /\ \A r \in Requests : Session(r) = s => Fit(r)

SoundInv == SerialInv /\ PromptInv /\ Sound

\* Neither a request that settles nor the number of its calls matters to a list that
\* has nothing of its turn.
LEMMA ChainStays ==
    ASSUME NEW C, NEW S, NEW D, NEW T, NEW from \in Nat \ {0}, NEW list \in Seq(Message),
           Chained(list, from, C, S), S \subseteq T, \A q \in S : D[q] = C[q]
    PROVE  /\ Chained(list, from, D, T)
           /\ Closed(list, C) => Closed(list, D)
<1>0. Len(list) \in Nat
  OBVIOUS
<1>1. ASSUME NEW i \in 1..Len(list)
      PROVE  Proper(list[i], D, T) /\ Left(list[i], D) = Left(list[i], C)
  BY DEF Chained, Proper, Left
<1>2. ASSUME NEW i \in from..(Len(list) - 1)
      PROVE  Links(list[i], list[i + 1], D)
  <2>1. i \in 1..Len(list)
    BY <1>0
  <2>2. Left(list[i], D) = Left(list[i], C) /\ Links(list[i], list[i + 1], C)
    BY <1>1, <2>1 DEF Chained
  <2> QED  BY <2>2 DEF Links
<1>3. Closed(list, C) => Closed(list, D)
  <2>1. Len(list) > 0 => Len(list) \in 1..Len(list)
    BY <1>0
  <2> QED  BY <1>1, <2>1 DEF Closed
<1> QED  BY <1>1, <1>2, <1>3 DEF Chained

\* The prompt made of a chained and closed history is one, past the system message.
LEMMA AssembledChained ==
    ASSUME NEW C, NEW S, NEW r \in Requests, NEW list \in Seq(Message),
           Chained(list, 1, C, S), Closed(list, C)
    PROVE  LET new == AssembleMessages(list, r) IN
           /\ new \in Seq(Message) /\ Len(new) > 0 /\ new[1] = SystemMessage(r)
           /\ Chained(new, 2, C, S) /\ Closed(new, C)
<1> DEFINE new == AssembleMessages(list, r)
<1>1. /\ Len(new) = Len(list) + 2 /\ Len(list) \in Nat
      /\ new[1] = SystemMessage(r) /\ new[Len(list) + 2] = UserMessage(r)
      /\ \A i \in 2..Len(list) + 1 : new[i] = list[i - 1]
      /\ new \in Seq(Message)
  BY MessageTypes DEF AssembleMessages
<1>2. /\ Proper(SystemMessage(r), C, S) /\ Proper(UserMessage(r), C, S)
      /\ Left(UserMessage(r), C) = 0 /\ UserMessage(r).role # "tool"
  BY DEF Proper, Left, SystemMessage, UserMessage
<1> HIDE DEF new
<1>3. ASSUME NEW i \in 1..Len(new)
      PROVE  Proper(new[i], C, S)
  <2>1. i = 1 \/ (i \in 2..Len(list) + 1 /\ i - 1 \in 1..Len(list)) \/ i = Len(list) + 2
    BY <1>1
  <2> QED  BY <1>1, <1>2, <2>1 DEF Chained
<1>4. ASSUME NEW i \in 2..(Len(new) - 1)
      PROVE  Links(new[i], new[i + 1], C)
  <2>1. i \in 2..Len(list) + 1 /\ i - 1 \in 1..Len(list) /\ i \in Nat
    BY <1>1
  <2>2. CASE i = Len(list) + 1
    <3>1. i - 1 = Len(list) /\ Len(list) > 0 /\ i + 1 = Len(list) + 2
      BY <1>1, <2>1, <2>2
    <3>2. new[i] = list[Len(list)] /\ new[i + 1] = UserMessage(r)
      BY <1>1, <2>1, <3>1
    <3> QED  BY <1>2, <3>1, <3>2 DEF Links, Closed
  <2>3. CASE i # Len(list) + 1
    <3>1. /\ i - 1 \in 1..(Len(list) - 1) /\ i + 1 \in 2..Len(list) + 1
          /\ (i + 1) - 1 = (i - 1) + 1
      BY <1>1, <2>1, <2>3
    <3> QED  BY <1>1, <2>1, <3>1 DEF Chained
  <2> QED  BY <2>2, <2>3
<1>5. Closed(new, C)
  BY <1>1, <1>2 DEF Closed
<1> QED  BY <1>1, <1>3, <1>4, <1>5 DEF Chained, new

\* What Latest owes, and what may follow it.
LEMMA LatestLinks ==
    ASSUME TypeOK, NEW r \in Requests, r \in Settled, calls[r] > 0, NEW a \in 0..calls[r]
    PROVE  /\ Left(Latest(r, a), calls) = calls[r] - a
           /\ a > 0 => Proper(ToolMessage(r, a), calls, Settled)
           /\ Proper(Declaration(r), calls, Settled)
           /\ a < calls[r] => Links(Latest(r, a), ToolMessage(r, a + 1), calls)
<1>1. calls[r] \in Nat
  BY ExecutionAssumption DEF TypeOK, LocalTypeOK
<1>2. /\ ToolMessage(r, a).role = "tool" /\ ToolMessage(r, a).by = r /\ ToolMessage(r, a).n = a
      /\ Declaration(r).role = "assistant" /\ Declaration(r).by = r /\ Declaration(r).n = calls[r]
  BY DEF ToolMessage, Declaration, ToolCallsMessage
<1>3. Left(Latest(r, a), calls) = calls[r] - a /\ Index(Latest(r, a)) = a /\ Latest(r, a).by = r
  BY <1>1, <1>2 DEF Left, Index, Latest
<1>4. /\ a > 0 => Proper(ToolMessage(r, a), calls, Settled)
      /\ Proper(Declaration(r), calls, Settled)
  BY <1>1, <1>2 DEF Proper
<1>5. a < calls[r] => Links(Latest(r, a), ToolMessage(r, a + 1), calls)
  BY <1>1, <1>3 DEF Links
<1> QED  BY <1>3, <1>4, <1>5

-----------------------------------------------------------------------------
(***************************************************************************)
(* A step is seen from its own session: the list its request works on and  *)
(* its prompt.                                                             *)
(***************************************************************************)

\* The list and the prompt of r, which is alone with its session.
Stands(r) ==
    LET list == messages[Session(r)] IN
    /\ Chained(list, 1, calls, Settled)
    /\ pc[r] \notin TurnPCs => Closed(list, calls)
    /\ pc[r] \in TurnPCs /\ Len(list) > 0 => list[Len(list)] = Latest(r, Told(r))

\* No other request of the session is in flight, and what a list may hold of the
\* others' calls is what it held.
Apart(r) ==
    /\ Local(r)
    /\ \A q \in Requests \ {r} : pc[q] \in InFlight => Session(q) # Session(r)
    /\ Settled \subseteq Settled'
    /\ \A q \in Settled : calls'[q] = calls[q]

\* A request with a prompt in use or an open list is in flight.
LEMMA WorkIsFlight ==
    /\ Undeclared \cup LoopPCs \cup {"llm2"} \cup TurnPCs \subseteq InFlight
    /\ TurnPCs \cap Before("declaration") = {}
    /\ TurnPCs = {"decl_expire", "tool", "record_push", "record_expire", "tool_push",
                  "tool_expire"}
  BY DEF Undeclared, LoopPCs, TurnPCs, Before, InFlight, Admitted, StorePCs, OwnerPCs,
       RecordPCs,
     ModelPCs

\* With one request at a time a step of r is the only thing that moves in its session.
LEMMA StepApart ==
    ASSUME Serial, TypeOK, Alone, NEW r \in Requests, Step(r)
    PROVE  Apart(r)
<1>1. Local(r) /\ \A q \in Requests \ {r} : pc[q] \in InFlight => Session(q) # Session(r)
  BY StepIsLocal, StepAlone
<1>2. ASSUME NEW q \in Settled
      PROVE  q \in Settled' /\ calls'[q] = calls[q]
  <2>1. q \in Requests /\ pc[q] \notin Before("declaration")
    BY DEF Settled
  <2>2. CASE q # r
    BY <1>1, <2>1, <2>2 DEF Local, Settled, Before
  <2>3. CASE q = r
    <3>1. pc'[r] \notin Before("declaration")
      BY <2>1, <2>3, StepMovesOn DEF Kinds
    <3>2. calls' = calls
      <4>1. ~FirstReply(r)
        BY <2>1, <2>3 DEF FirstReply, Before
      <4> QED  BY <4>1, StepInLoop
    <3> QED  BY <2>1, <2>3, <3>1, <3>2 DEF Settled, Before
  <2> QED  BY <2>2, <2>3
<1> QED  BY <1>1, <1>2 DEF Apart

\* So an unspoilt session is what its request in flight sees of it.
LEMMA SessionStands ==
    ASSUME Sound, NEW r \in Requests, Apart(r), Unspoilt(Session(r))
    PROVE  Stands(r) /\ Fit(r)
<1>1. Session(r) \in Sessions
  BY ExecutionAssumption
<1>2. Standing(Session(r)) /\ Fit(r)
  BY <1>1 DEF Sound
<1>3. pc[r] \notin TurnPCs
        => \A q \in Requests : Session(q) = Session(r) => pc[q] \notin TurnPCs
  BY WorkIsFlight DEF Apart
<1> QED  BY <1>2, <1>3 DEF Standing, Stands

\* Other sessions do not notice.
LEMMA OtherSessionsSound ==
    ASSUME TypeOK, Sound, NEW r \in Requests, Apart(r), NEW s \in Sessions, s # Session(r),
           Unspoilt(s)'
    PROVE  Standing(s)' /\ \A q \in Requests : Session(q) = s => Fit(q)'
<1>1. /\ messages'[s] = messages[s] /\ messages[s] \in Seq(Message)
      /\ \A q \in Requests : Session(q) = s =>
             /\ q # r /\ pc'[q] = pc[q] /\ prompt'[q] = prompt[q] /\ calls'[q] = calls[q]
             /\ answered'[q] = answered[q] /\ prompt[q] \in Seq(Message)
  BY DEF Apart, Local, TypeOK, StoreTypeOK, LocalTypeOK
<1>2. Standing(s) /\ \A q \in Requests : Session(q) = s => Fit(q)
  BY <1>1 DEF Sound, Unspoilt
<1> DEFINE C == calls
           D == calls'
           S == Settled
           T == Settled'
<1>3. S \subseteq T /\ \A q \in S : D[q] = C[q]
  BY DEF Apart
<1>4. PICK one \in Nat \ {0}, two \in Nat \ {0} : one = 1 /\ two = 2
  OBVIOUS
<1> HIDE DEF C, D, S, T
<1>5. /\ Chained(messages[s], one, D, T)
      /\ Closed(messages[s], C) => Closed(messages[s], D)
  <2>1. Chained(messages[s], one, C, S)
    BY <1>2, <1>4 DEF Standing, C, S
  <2> QED  BY <1>1, <1>3, <2>1, ChainStays
<1>6. Standing(s)'
  <2>1. Chained(messages'[s], 1, D, T)
    BY <1>1, <1>4, <1>5
  <2>2. ASSUME \A q \in Requests : Session(q) = s => pc'[q] \notin TurnPCs
        PROVE  Closed(messages'[s], D)
    <3>1. \A q \in Requests : Session(q) = s => pc[q] \notin TurnPCs
      BY <1>1, <2>2
    <3> QED  BY <1>1, <1>2, <1>5, <3>1 DEF Standing, C
  <2>3. ASSUME NEW q \in Requests, Session(q) = s, pc'[q] \in TurnPCs, Len(messages'[s]) > 0
        PROVE  messages'[s][Len(messages'[s])] = Latest(q, Told(q))'
    <3>1. messages[s][Len(messages[s])] = Latest(q, Told(q))
      BY <1>1, <1>2, <2>3 DEF Standing
    <3> QED  BY <1>1, <2>3, <3>1 DEF Latest, Told, Declaration
  <2> QED  BY <2>1, <2>2, <2>3 DEF Standing, C, D, S, T, Chained, Closed, TurnPCs, LoopPCs,
       Proper, Links, Left, Index
<1>7. ASSUME NEW q \in Requests, Session(q) = s
      PROVE  Fit(q)'
  <2> SUFFICES ASSUME pc'[q] \in Undeclared \cup LoopPCs \cup {"llm2"}
               PROVE  /\ Len(prompt'[q]) > 0 /\ prompt'[q][1] = SystemMessage(q)
                      /\ Chained(prompt'[q], 2, D, T)
                      /\ pc'[q] \in Undeclared => Closed(prompt'[q], D)
    BY <1>7 DEF Fit, C, D, S, T, Chained, Closed, Undeclared, LoopPCs, Proper, Links, Left,
         Index
  <2>1. /\ Len(prompt[q]) > 0 /\ prompt[q][1] = SystemMessage(q)
        /\ Chained(prompt[q], two, C, S)
        /\ pc[q] \in Undeclared => Closed(prompt[q], C)
    BY <1>1, <1>2, <1>4, <1>7 DEF Fit, C, S
  <2> DEFINE list == prompt[q]
  <2>3. list \in Seq(Message)
    BY <1>1, <1>7
  <2> HIDE DEF list
  <2>4. /\ Chained(list, two, D, T)
        /\ Closed(list, C) => Closed(list, D)
    <3>1. Chained(list, two, C, S)
      BY <2>1 DEF list
    <3> QED  BY <1>3, <2>3, <3>1, ChainStays
  <2>2. /\ Chained(prompt[q], two, D, T)
        /\ Closed(prompt[q], C) => Closed(prompt[q], D)
    BY <2>4 DEF list
  <2> QED  BY <1>1, <1>4, <1>7, <2>1, <2>2
<1> QED  BY <1>6, <1>7

\* It is enough to show of a step what it does to its own list and prompt.
LEMMA SessionSound ==
    ASSUME TypeOK, Sound, NEW r \in Requests, Apart(r),
           Unspoilt(Session(r))' => Stands(r)' /\ Fit(r)'
    PROVE  Sound'
<1>1. ASSUME NEW s \in Sessions, Unspoilt(s)', s = Session(r)
      PROVE  Standing(s)' /\ \A q \in Requests : Session(q) = s => Fit(q)'
  <2>1. Stands(r)' /\ Fit(r)'
    BY <1>1
  <2>2. \A q \in Requests \ {r} : Session(q) = s => pc'[q] \notin InFlight
    BY <1>1 DEF Apart, Local
  <2>3. \A q \in Requests \ {r} : Session(q) = s =>
            pc'[q] \notin Undeclared \cup LoopPCs \cup {"llm2"} /\ pc'[q] \notin TurnPCs
    BY <2>2, WorkIsFlight
  <2>4. \A q \in Requests : Session(q) = s => Fit(q)'
    BY <2>1, <2>3 DEF Fit, Undeclared, LoopPCs
  <2>5. Standing(s)'
    BY <1>1, <2>1, <2>3 DEF Standing, Stands, TurnPCs, LoopPCs
  <2> QED  BY <2>4, <2>5
<1> QED  BY <1>1, OtherSessionsSound DEF Sound

\* What the list of r is to be like after a step.
LEMMA StandsAfter ==
    ASSUME NEW r \in Requests, NEW D, NEW T, D = calls', T = Settled',
           Chained(messages'[Session(r)], 1, D, T),
           pc'[r] \notin TurnPCs => Closed(messages'[Session(r)], D),
           pc'[r] \in TurnPCs /\ Len(messages'[Session(r)]) > 0
             => messages'[Session(r)][Len(messages'[Session(r)])] = Latest(r, Told(r))'
    PROVE  Stands(r)'
  BY DEF Stands, Chained, Closed, TurnPCs, LoopPCs, Proper, Links, Left, Index

LEMMA FitAfter ==
    ASSUME NEW r \in Requests, NEW D, NEW T, D = calls', T = Settled',
           pc'[r] \in Undeclared \cup LoopPCs \cup {"llm2"} =>
               /\ Len(prompt'[r]) > 0 /\ prompt'[r][1] = SystemMessage(r)
               /\ Chained(prompt'[r], 2, D, T)
               /\ pc'[r] \in Undeclared => Closed(prompt'[r], D)
    PROVE  Fit(r)'
  BY DEF Fit, Chained, Closed, Undeclared, LoopPCs, Proper, Links, Left, Index

\* A list that stays as it is is closed when the turn leaves the loop: its last message
\* is then the last answer.
LEMMA ListKept ==
    ASSUME TypeOK, NEW r \in Requests, Apart(r), Stands(r),
           messages'[Session(r)] = messages[Session(r)],
           \/ pc[r] \notin TurnPCs /\ pc'[r] \notin TurnPCs
           \/ pc[r] \in TurnPCs /\ pc'[r] \in TurnPCs /\ Told(r)' = Told(r)
           \/ pc[r] \in TurnPCs /\ Told(r) = calls[r] /\ calls[r] > 0 /\ pc'[r] \notin TurnPCs
    PROVE  Stands(r)'
<1> DEFINE C == calls
           S == Settled
           D == calls'
           T == Settled'
           list == messages[Session(r)]
<1>1. S \subseteq T /\ \A q \in S : D[q] = C[q]
  BY DEF Apart
<1>2. list \in Seq(Message) /\ Session(r) \in Sessions
  BY ExecutionAssumption DEF TypeOK, StoreTypeOK
<1>3. PICK one \in Nat \ {0} : one = 1
  OBVIOUS
<1>4. Chained(list, one, C, S)
  BY <1>3 DEF Stands
<1>5. pc[r] \in TurnPCs => r \in S
  BY WorkIsFlight DEF Settled
<1>6. pc[r] \notin TurnPCs \/ pc'[r] \notin TurnPCs => Closed(list, C)
  <2>1. CASE pc[r] \notin TurnPCs
    BY <2>1 DEF Stands
  <2>2. CASE pc[r] \in TurnPCs /\ Told(r) = calls[r] /\ calls[r] > 0
    <3>1. Len(list) > 0 => list[Len(list)] = Latest(r, calls[r])
      BY <2>2 DEF Stands
    <3>2. calls[r] \in Nat
      BY ExecutionAssumption DEF TypeOK, LocalTypeOK
    <3>3. Left(Latest(r, calls[r]), calls) = 0
      <4>1. calls[r] \in 0..calls[r] /\ calls[r] - calls[r] = 0
        BY <3>2
      <4> QED  BY <1>5, <2>2, <4>1, LatestLinks
    <3> QED  BY <3>1, <3>3 DEF Closed
  <2> QED  BY <2>1, <2>2
<1> HIDE DEF C, S, D, T, list
<1>7. Chained(list, one, D, T) /\ (Closed(list, C) => Closed(list, D))
  BY <1>1, <1>2, <1>4, ChainStays
<1>8. ASSUME pc'[r] \in TurnPCs, Len(messages'[Session(r)]) > 0
      PROVE  messages'[Session(r)][Len(messages'[Session(r)])] = Latest(r, Told(r))'
  <2>1. pc[r] \in TurnPCs /\ Told(r)' = Told(r)
    BY <1>8
  <2>2. list[Len(list)] = Latest(r, Told(r))
    BY <1>8, <2>1 DEF Stands, list
  <2>3. calls'[r] = calls[r]
    BY <1>1, <1>5, <2>1 DEF C, D
  <2> QED  BY <2>1, <2>2, <2>3 DEF Latest, Declaration, list
<1>9. /\ Chained(messages'[Session(r)], 1, D, T)
      /\ pc'[r] \notin TurnPCs => Closed(messages'[Session(r)], D)
  BY <1>3, <1>6, <1>7 DEF list
<1>10. D = calls' /\ T = Settled'
  BY DEF D, T
<1> QED  BY <1>8, <1>9, <1>10, StandsAfter

\* A list that grows by a message which may follow the last one.
LEMMA ListGrows ==
    ASSUME TypeOK, NEW r \in Requests, Apart(r), Stands(r), NEW m \in Message,
           messages'[Session(r)] = Append(messages[Session(r)], m),
           NEW D, NEW T, D = calls', T = Settled', Proper(m, D, T),
           Len(messages[Session(r)]) > 0
             => Links(messages[Session(r)][Len(messages[Session(r)])], m, D),
           pc'[r] \notin TurnPCs => Left(m, D) = 0,
           pc'[r] \in TurnPCs => m = Latest(r, Told(r))'
    PROVE  Stands(r)'
<1> DEFINE C == calls
           S == Settled
           list == messages[Session(r)]
           new == Append(list, m)
<1>1. S \subseteq T /\ \A q \in S : D[q] = C[q]
  BY DEF Apart
<1>2. list \in Seq(Message) /\ Session(r) \in Sessions
  BY ExecutionAssumption DEF TypeOK, StoreTypeOK
<1>3. PICK one \in Nat \ {0} : one = 1
  OBVIOUS
<1>4. Chained(list, one, C, S) /\ (Len(list) >= one => Links(list[Len(list)], m, D))
  BY <1>2, <1>3 DEF Stands
<1>5. /\ new \in Seq(Message) /\ Len(new) > 0 /\ new[Len(new)] = m /\ messages'[Session(r)] = new
  BY <1>2
<1> HIDE DEF C, S, list
<1>6. Chained(list, one, D, T)
  BY <1>1, <1>2, <1>4, ChainStays
<1>7. Chained(new, one, D, T)
  BY <1>2, <1>4, <1>6, AppendChained
<1> HIDE DEF new
<1>8. /\ Chained(messages'[Session(r)], 1, D, T)
      /\ pc'[r] \notin TurnPCs => Closed(messages'[Session(r)], D)
  BY <1>3, <1>5, <1>7 DEF Closed
<1>9. pc'[r] \in TurnPCs
        => messages'[Session(r)][Len(messages'[Session(r)])] = Latest(r, Told(r))'
  BY <1>5
<1> QED  BY <1>8, <1>9, StandsAfter

\* A list that a trim cuts.
LEMMA ListCut ==
    ASSUME TypeOK, NEW r \in Requests, Apart(r), Stands(r), NEW start \in Nat,
           pc[r] \notin TurnPCs, pc'[r] \notin TurnPCs,
           messages'[Session(r)]
             = SubSeq(messages[Session(r)], start + 1, Len(messages[Session(r)]))
    PROVE  Stands(r)'
<1> DEFINE C == calls
           S == Settled
           D == calls'
           T == Settled'
           list == messages[Session(r)]
           rest == SubSeq(list, start + 1, Len(list))
<1>1. S \subseteq T /\ \A q \in S : D[q] = C[q]
  BY DEF Apart
<1>2. list \in Seq(Message) /\ Session(r) \in Sessions
  BY ExecutionAssumption DEF TypeOK, StoreTypeOK
<1>3. PICK one \in Nat \ {0} : one = 1
  OBVIOUS
<1>4. Chained(list, 1, C, S) /\ Closed(list, C)
  BY DEF Stands
<1>5. messages'[Session(r)] = rest /\ rest \in Seq(Message)
  BY <1>2
<1>6. D = calls' /\ T = Settled'
  OBVIOUS
<1> HIDE DEF C, S, D, T, list
<1>7. /\ Chained(rest, 1, C, S)
      /\ Len(rest) > 0 => Len(list) > 0 /\ rest[Len(rest)] = list[Len(list)]
  BY <1>2, <1>4, SuffixChained
<1> HIDE DEF rest
<1>8. Chained(rest, one, C, S) /\ Closed(rest, C)
  BY <1>3, <1>4, <1>7 DEF Closed
<1>9. Chained(rest, one, D, T) /\ Closed(rest, D)
  BY <1>1, <1>5, <1>8, ChainStays
<1>10. Chained(messages'[Session(r)], 1, D, T) /\ Closed(messages'[Session(r)], D)
  BY <1>3, <1>5, <1>9
<1> QED  BY <1>6, <1>10, StandsAfter

\* The history is read while the list is closed.
LEMMA LoadFits ==
    ASSUME TypeOK, NEW r \in Requests, Apart(r), Stands(r), LoadHistory(r)
    PROVE  Fit(r)'
<1> DEFINE C == calls
           S == Settled
           D == calls'
           T == Settled'
           list == messages[Session(r)]
           new == AssembleMessages(list, r)
<1>1. S \subseteq T /\ \A q \in S : D[q] = C[q]
  BY DEF Apart
<1>2. list \in Seq(Message) /\ Session(r) \in Sessions
  BY ExecutionAssumption DEF TypeOK, StoreTypeOK
<1>3. PICK two \in Nat \ {0} : two = 2
  OBVIOUS
<1>4. Chained(list, 1, C, S) /\ Closed(list, C)
  BY WorkIsFlight DEF Stands, LoadHistory
<1>5. prompt'[r] = new
  BY DEF LoadHistory, TypeOK, LocalTypeOK
<1>6. D = calls' /\ T = Settled'
  OBVIOUS
<1> HIDE DEF C, S, D, T, list
<1>7. /\ new \in Seq(Message) /\ Len(new) > 0 /\ new[1] = SystemMessage(r)
      /\ Chained(new, 2, C, S) /\ Closed(new, C)
  BY <1>2, <1>4, AssembledChained
<1> HIDE DEF new
<1>8. Chained(new, two, D, T) /\ Closed(new, D)
  BY <1>1, <1>3, <1>7, ChainStays
<1>9. /\ Len(prompt'[r]) > 0 /\ prompt'[r][1] = SystemMessage(r)
      /\ Chained(prompt'[r], 2, D, T) /\ Closed(prompt'[r], D)
  BY <1>3, <1>5, <1>7, <1>8
<1> QED  BY <1>6, <1>9, FitAfter

\* A message of the turn comes to its prompt.
LEMMA PromptGrows ==
    ASSUME TypeOK, NEW r \in Requests, Apart(r), Fit(r), NEW m \in Message,
           pc[r] \in Undeclared \cup LoopPCs \cup {"llm2"}, pc'[r] \notin Undeclared,
           prompt'[r] = Append(prompt[r], m), Proper(m, calls, Settled),
           Links(prompt[r][Len(prompt[r])], m, calls)
    PROVE  Fit(r)'
<1> DEFINE C == calls
           S == Settled
           D == calls'
           T == Settled'
           list == prompt[r]
           new == Append(list, m)
<1>1. S \subseteq T /\ \A q \in S : D[q] = C[q]
  BY DEF Apart
<1>2. list \in Seq(Message)
  BY DEF TypeOK, LocalTypeOK
<1>3. PICK two \in Nat \ {0} : two = 2
  OBVIOUS
<1>4. /\ Chained(list, two, C, S) /\ Proper(m, C, S) /\ Links(list[Len(list)], m, C)
      /\ Len(list) > 0 /\ list[1] = SystemMessage(r)
  BY <1>3 DEF Fit
<1>5. /\ new \in Seq(Message) /\ Len(new) > 0 /\ new[1] = SystemMessage(r) /\ prompt'[r] = new
  BY <1>2, <1>4
<1>6. D = calls' /\ T = Settled'
  OBVIOUS
<1> HIDE DEF C, S, D, T, list
<1>7. Chained(new, two, C, S)
  BY <1>2, <1>4, AppendChained
<1> HIDE DEF new
<1>8. Chained(new, two, D, T)
  BY <1>1, <1>5, <1>7, ChainStays
<1>9. Len(prompt'[r]) > 0 /\ prompt'[r][1] = SystemMessage(r) /\ Chained(prompt'[r], 2, D, T)
  BY <1>3, <1>5, <1>8
<1> QED  BY <1>6, <1>9, FitAfter

\* A prompt that is only read.
LEMMA PromptKept ==
    ASSUME TypeOK, NEW r \in Requests, Apart(r), Fit(r), prompt'[r] = prompt[r],
           pc'[r] \in Undeclared \cup LoopPCs \cup {"llm2"}
             => pc[r] \in Undeclared \cup LoopPCs \cup {"llm2"},
           pc'[r] \in Undeclared => pc[r] \in Undeclared
    PROVE  Fit(r)'
<1> DEFINE C == calls
           S == Settled
           D == calls'
           T == Settled'
           list == prompt[r]
<1>1. S \subseteq T /\ \A q \in S : D[q] = C[q]
  BY DEF Apart
<1>2. list \in Seq(Message)
  BY DEF TypeOK, LocalTypeOK
<1>3. PICK two \in Nat \ {0} : two = 2
  OBVIOUS
<1>4. pc'[r] \in Undeclared \cup LoopPCs \cup {"llm2"} =>
         /\ Chained(list, two, C, S) /\ Len(list) > 0 /\ list[1] = SystemMessage(r)
         /\ pc'[r] \in Undeclared => Closed(list, C)
  BY <1>3 DEF Fit
<1>6. D = calls' /\ T = Settled'
  OBVIOUS
<1> HIDE DEF C, S, D, T, list
<1>7. Chained(list, two, C, S)
        => Chained(list, two, D, T) /\ (Closed(list, C) => Closed(list, D))
  BY <1>1, <1>2, ChainStays
<1>8. pc'[r] \in Undeclared \cup LoopPCs \cup {"llm2"} =>
         /\ Chained(prompt'[r], 2, D, T) /\ Len(prompt'[r]) > 0 /\ prompt'[r][1] = SystemMessage(r)
         /\ pc'[r] \in Undeclared => Closed(prompt'[r], D)
  BY <1>3, <1>4, <1>7 DEF list
<1> QED  BY <1>6, <1>8, FitAfter

\* The prompt of a turn ends with what the turn has stored last.
LEMMA PromptEnds ==
    ASSUME TypeOK, NEW r \in Requests, Answering(r), pc[r] \in LoopPCs \cup {"llm2"}
    PROVE  prompt[r][Len(prompt[r])] = Latest(r, answered[r])
<1> DEFINE list == prompt[r]
           a == answered[r]
<1>1. Answered(list, r, calls[r], a)
  BY DEF Answering
<1>2. list \in Seq(Message) /\ a \in Nat
  BY ExecutionAssumption DEF TypeOK, LocalTypeOK
<1> HIDE DEF list, a
<1>3. Len(list) \in Nat /\ Len(list) > a
  BY <1>1, <1>2 DEF Answered
<1>4. CASE a = 0
  <2>1. Len(list) - a = Len(list)
    BY <1>3, <1>4
  <2> QED  BY <1>1, <1>4, <2>1 DEF Answered, Latest, Declaration, list, a
<1>5. CASE a # 0
  <2>1. a \in 1..a /\ Len(list) - a + a = Len(list)
    BY <1>2, <1>3, <1>5
  <2>2. list[Len(list) - a + a] = ToolMessage(r, a)
    BY <1>1, <2>1 DEF Answered
  <2>3. list[Len(list)] = ToolMessage(r, a)
    BY <2>1, <2>2
  <2> QED  BY <1>5, <2>3 DEF Latest, list, a
<1> QED  BY <1>4, <1>5

\* In the loop a call is left to answer; before it, the number of calls is known.
LEMMA LoopCounts ==
    ASSUME TypeOK, NEW r \in Requests, pc[r] \in TurnPCs
    PROVE  /\ r \in Settled /\ calls[r] \in Nat /\ calls[r] > 0 /\ calls[r] \in 0..MaxToolCalls
           /\ answered[r] \in Nat /\ answered[r] < calls[r] /\ answered[r] \in 0..calls[r]
           /\ answered[r] + 1 \in 0..calls[r] /\ answered[r] + 1 \in 0..MaxToolCalls
           /\ pc[r] = "decl_expire" => answered[r] = 0
<1>1. r \in Settled
  BY WorkIsFlight DEF Settled
<1>2. /\ calls[r] \in 0..MaxToolCalls /\ answered[r] \in 0..MaxToolCalls /\ MaxToolCalls \in Nat
  BY ExecutionAssumption DEF TypeOK, LocalTypeOK
<1>3. /\ answered[r] < calls[r]
      /\ pc[r] = "decl_expire" => answered[r] = 0
  BY <1>2, WorkIsFlight DEF TypeOK, Locals
<1>4. calls[r] \in Nat /\ answered[r] \in Nat /\ calls[r] <= MaxToolCalls
  BY <1>2
<1>5. calls[r] > 0 /\ answered[r] + 1 <= calls[r] /\ answered[r] + 1 <= MaxToolCalls
  BY <1>2, <1>3, <1>4
<1> QED  BY <1>1, <1>2, <1>3, <1>4, <1>5

\* The declaration comes to a closed prompt, which ends with the task.
LEMMA DeclarationFits ==
    ASSUME TypeOK, NEW r \in Requests, Apart(r), Fit(r), ExpireDeclaration(r)
    PROVE  Fit(r)'
<1> DEFINE m == Declaration(r)
<1>1. /\ pc[r] = "decl_expire" /\ pc'[r] \in {"tool", "store_error"}
      /\ prompt'[r] = Append(prompt[r], m)
  BY DEF ExpireDeclaration, Expire, Goto, Reply, TypeOK, LocalTypeOK
<1>2. m \in Message /\ m.role # "tool"
  BY MessageTypes DEF Declaration, ToolCallsMessage, TypeOK, LocalTypeOK
<1>3. pc[r] \in TurnPCs /\ pc[r] \in Undeclared /\ pc'[r] \notin Undeclared
  BY <1>1 DEF TurnPCs, Undeclared
<1>4. Proper(m, calls, Settled)
  <2>1. 0 \in 0..calls[r]
    BY <1>3, LoopCounts
  <2> QED  BY <1>3, <2>1, LoopCounts, LatestLinks
<1>5. Links(prompt[r][Len(prompt[r])], m, calls)
  <2>1. Left(prompt[r][Len(prompt[r])], calls) = 0
    BY <1>3 DEF Fit, Closed
  <2> QED  BY <1>2, <2>1 DEF Links
<1> HIDE DEF m
<1> QED  BY <1>1, <1>2, <1>3, <1>4, <1>5, PromptGrows

\* An answer comes to the declaration or the answer before it.
LEMMA AnswerFits ==
    ASSUME TypeOK, NEW r \in Requests, Apart(r), Fit(r), Answering(r), ExpireToolAnswer(r)
    PROVE  Fit(r)'
<1> DEFINE m == ToolAnswer(r)
           n == answered[r]
<1>1. /\ pc[r] = "tool_expire" /\ pc'[r] \in {"tool", "llm2", "store_error"}
      /\ prompt'[r] = Append(prompt[r], m)
  BY DEF ExpireToolAnswer, Expire, Goto, Reply, TypeOK, LocalTypeOK
<1>2. pc[r] \in TurnPCs /\ pc[r] \in LoopPCs /\ pc'[r] \notin Undeclared
  BY <1>1 DEF TurnPCs, LoopPCs, Undeclared
<1>3. m \in Message /\ m = ToolMessage(r, n + 1)
  <2>1. n + 1 \in 0..MaxToolCalls
    BY <1>2, LoopCounts
  <2> QED  BY <2>1, MessageTypes DEF ToolAnswer, ToolMessage
<1>4. Proper(m, calls, Settled)
  <2>1. n + 1 \in 0..calls[r] /\ n + 1 > 0 /\ r \in Settled /\ calls[r] > 0
    BY <1>2, LoopCounts
  <2> HIDE DEF n
  <2> QED  BY <1>3, <2>1, LatestLinks
<1>5. Links(prompt[r][Len(prompt[r])], m, calls)
  <2>1. n \in 0..calls[r] /\ n < calls[r] /\ r \in Settled /\ calls[r] > 0
    BY <1>2, LoopCounts
  <2>2. prompt[r][Len(prompt[r])] = Latest(r, n)
    BY <1>2, PromptEnds
  <2> HIDE DEF n
  <2>3. Links(Latest(r, n), ToolMessage(r, n + 1), calls)
    BY <2>1, LatestLinks
  <2> QED  BY <1>3, <2>2, <2>3
<1> HIDE DEF m, n
<1> QED  BY <1>1, <1>2, <1>3, <1>4, <1>5, PromptGrows

\* Every step keeps the prompt chained.
LEMMA StepFits ==
    ASSUME TypeOK, NEW r \in Requests, Apart(r), Stands(r), Fit(r), Answering(r), Step(r)
    PROVE  Fit(r)'
<1>1. CASE LoadHistory(r)
  BY <1>1, LoadFits
<1>2. CASE ExpireDeclaration(r)
  BY <1>2, DeclarationFits
<1>3. CASE ExpireToolAnswer(r)
  BY <1>3, AnswerFits
<1>4. CASE ~LoadHistory(r) /\ ~ExpireDeclaration(r) /\ ~ExpireToolAnswer(r)
  <2>1. prompt' = prompt
    BY <1>4, StepOnPrompt
  <2>2. pc'[r] \in Undeclared => pc[r] \in Undeclared
    BY <1>4, StepMovesOn DEF Kinds
  <2> QED  BY <1>4, <2>1, <2>2, PromptInUse, PromptKept
<1> QED  BY <1>1, <1>2, <1>3, <1>4

-----------------------------------------------------------------------------
(***************************************************************************)
(* The steps of a turn on its list.                                        *)
(***************************************************************************)

\* What a step does to a turn: it opens the list, goes on with the answers, closes
\* the list or raises, and elsewhere adds what needs no answer or cuts the front off.
LEMMA StepInTurn ==
    ASSUME Faults \cap {"store", "crash"} = {}, TypeOK, NEW r \in Requests, Step(r)
    PROVE  \/ PushDeclaration(r) \/ PushToolAnswer(r) \/ Trim(r)
           \/ PushTask(r) \/ PushAnswer(r)
           \/ /\ messages'[Session(r)] = messages[Session(r)]
              /\ \/ pc[r] \notin TurnPCs /\ pc'[r] \notin TurnPCs
                 \/ pc[r] \in TurnPCs /\ pc'[r] \in TurnPCs /\ Told(r)' = Told(r)
                 \/ pc[r] \in TurnPCs /\ Told(r) = calls[r] /\ pc'[r] \notin TurnPCs
                 \/ pc'[r] = "tool_error"
<1> USE DEF TypeOK, LocalTypeOK, Goto, Reply, Told
<1>1. CASE Admit(r)
  BY <1>1, WorkIsFlight DEF Admit, Start, BindOwner, SetOwner, VerifyOwner, OwnerVerdict,
       storeVars
<1>2. CASE LoadHistory(r) \/ FirstReply(r)
  BY <1>2, WorkIsFlight DEF LoadHistory, FirstReply, storeVars
<1>3. CASE ExpireTask(r) \/ ExpireAnswer(r)
  BY <1>3, WorkIsFlight DEF ExpireTask, ExpireAnswer, Expire, ExpireMessages
<1>4. CASE ExpireDeclaration(r)
  BY <1>4, WorkIsFlight DEF ExpireDeclaration, Expire, ExpireMessages
<1>5. CASE RunTool(r) \/ SecondReply(r)
  BY <1>5, WorkIsFlight DEF RunTool, SecondReply, storeVars
<1>6. CASE RecordToolCall(r) \/ ExpireToolRecord(r)
  BY <1>6, WorkIsFlight DEF RecordToolCall, PushToolRecord, ExpireToolRecord,
       ExpireToolHistory
<1>7. CASE ExpireToolAnswer(r)
  <2>1. /\ pc[r] = "tool_expire" /\ messages' = messages /\ answered'[r] = answered[r] + 1
        /\ pc'[r] = IF answered[r] + 1 < calls[r] THEN "tool" ELSE "llm2"
    BY <1>7 DEF ExpireToolAnswer, Expire, ExpireMessages
  <2>2. /\ calls[r] \in Nat /\ answered[r] \in Nat /\ answered[r] < calls[r]
        /\ pc[r] \in TurnPCs
    BY <2>1, WorkIsFlight, LoopCounts
  <2>3. CASE answered[r] + 1 < calls[r]
    <3>1. pc'[r] \in TurnPCs /\ Told(r)' = Told(r)
      BY <2>1, <2>3, WorkIsFlight
    <3> QED  BY <2>1, <2>2, <3>1
  <2>4. CASE ~(answered[r] + 1 < calls[r])
    <3>1. pc'[r] \notin TurnPCs /\ Told(r) = calls[r]
      BY <2>1, <2>2, <2>4, WorkIsFlight
    <3> QED  BY <2>1, <2>2, <3>1
  <2> QED  BY <2>3, <2>4
<1>8. CASE CheckTrim(r) \/ ReadLength(r) \/ CountMessages(r) \/ Complete(r)
  BY <1>8, WorkIsFlight DEF CheckTrim, ReadLength, CountMessages, Complete, storeVars
<1>9. CASE Break(r)
  BY <1>9, WorkIsFlight DEF Break, StoreFails, ModelFails, ToolRaises, Crash, Fail,
       ModelPCs, storeVars
<1> QED
  BY <1>1, <1>2, <1>3, <1>4, <1>5, <1>6, <1>7, <1>8, <1>9 DEF Step, Ask, UseTools, Finish

\* A push that does not fail.
LEMMA PushGrows ==
    ASSUME Faults \cap {"store", "crash"} = {}, TypeOK, NEW r \in Requests, NEW from, NEW to,
           NEW m \in Message, Push(r, from, m, to)
    PROVE  /\ pc[r] = from /\ pc'[r] = to /\ calls' = calls /\ answered' = answered
           /\ messages'[Session(r)] = Append(messages[Session(r)], m)
  BY ExecutionAssumption DEF Push, PushMessage, Reply, Goto, TypeOK, StoreTypeOK,
       LocalTypeOK

\* The task and the final answer come to a closed list and leave it closed.
LEMMA PlainStands ==
    ASSUME Faults \cap {"store", "crash"} = {}, TypeOK, NEW r \in Requests, Apart(r), Stands(r),
           NEW m \in Message, m.role \in {"user", "assistant"}, m.n = 0,
           NEW from, NEW to, Push(r, from, m, to), from \notin TurnPCs, to \notin TurnPCs
    PROVE  Stands(r)'
<1>1. /\ pc[r] \notin TurnPCs /\ pc'[r] \notin TurnPCs
      /\ messages'[Session(r)] = Append(messages[Session(r)], m) /\ calls' = calls
  BY PushGrows
<1>2. PICK D, T : D = calls' /\ T = Settled'
  OBVIOUS
<1>3. Proper(m, D, T) /\ Left(m, D) = 0
  BY DEF Proper, Left
<1>4. Len(messages[Session(r)]) > 0
        => Links(messages[Session(r)][Len(messages[Session(r)])], m, D)
  BY <1>1, <1>2 DEF Stands, Closed, Links
<1> QED  BY <1>1, <1>2, <1>3, <1>4, ListGrows

\* The declaration opens the list, and settles how many calls its request has.
LEMMA DeclarationStands ==
    ASSUME Faults \cap {"store", "crash"} = {}, TypeOK, TypeOK', NEW r \in Requests, Apart(r),
           Stands(r), PushDeclaration(r)
    PROVE  Stands(r)'
<1>0. PICK m : m = Declaration(r)
  OBVIOUS
<1>1. m \in Message /\ m.role = "assistant" /\ m.by = r /\ m.n = calls[r]
  BY <1>0, MessageTypes DEF Declaration, ToolCallsMessage, TypeOK, LocalTypeOK
<1>2. /\ pc[r] = "decl_push" /\ pc'[r] = "decl_expire" /\ calls' = calls /\ answered' = answered
      /\ messages'[Session(r)] = Append(messages[Session(r)], m)
  BY <1>0, <1>1, PushGrows DEF PushDeclaration
<1>3. PICK D, T : D = calls' /\ T = Settled'
  OBVIOUS
<1>4. r \in T
  BY <1>2, <1>3, WorkIsFlight DEF Settled, Before
<1>5. Proper(m, D, T)
  BY <1>1, <1>2, <1>3, <1>4 DEF Proper
<1>6. Len(messages[Session(r)]) > 0
        => Links(messages[Session(r)][Len(messages[Session(r)])], m, D)
  BY <1>1, <1>2, <1>3, WorkIsFlight DEF Stands, Closed, Links
<1>7. pc'[r] \in TurnPCs /\ m = Latest(r, Told(r))'
  <2>1. answered[r] = 0
    BY <1>2 DEF TypeOK, Locals
  <2>2. Told(r)' = 0
    BY <1>2, <2>1 DEF Told
  <2>3. Declaration(r)' = Declaration(r)
    BY <1>2 DEF Declaration
  <2> QED  BY <1>0, <1>2, <2>2, <2>3, WorkIsFlight DEF Latest
<1> QED  BY <1>1, <1>2, <1>3, <1>5, <1>6, <1>7, ListGrows

\* An answer is stored right after the declaration or the answer before it.
LEMMA AnswerStands ==
    ASSUME Faults \cap {"store", "crash"} = {}, TypeOK, NEW r \in Requests, Apart(r),
           Stands(r), PushToolAnswer(r)
    PROVE  Stands(r)'
<1>0. PICK m, n : m = ToolMessage(r, n + 1) /\ n = answered[r]
  OBVIOUS
<1>1. pc[r] = "tool_push" /\ pc[r] \in TurnPCs
  BY WorkIsFlight DEF PushToolAnswer, Push
<1>2. /\ r \in Settled /\ calls[r] > 0 /\ n < calls[r] /\ n \in Nat
      /\ n \in 0..calls[r] /\ n + 1 \in 0..calls[r] /\ n + 1 \in 0..MaxToolCalls
  BY <1>0, <1>1, LoopCounts
<1>3. m \in Message /\ m = ToolAnswer(r)
  BY <1>0, <1>2, MessageTypes DEF ToolAnswer
<1>4. /\ pc'[r] = "tool_expire" /\ calls' = calls /\ answered' = answered
      /\ messages'[Session(r)] = Append(messages[Session(r)], m)
  BY <1>3, PushGrows DEF PushToolAnswer
<1>5. PICK D, T : D = calls' /\ T = Settled'
  OBVIOUS
<1>6. Proper(m, D, T)
  <2>1. Proper(m, calls, Settled)
    <3>1. n + 1 > 0
      BY <1>2
    <3> QED  BY <1>0, <1>2, <3>1, LatestLinks
  <2>2. Settled \subseteq T
    BY <1>5 DEF Apart
  <2> QED  BY <1>4, <1>5, <2>1, <2>2 DEF Proper
<1>7. Len(messages[Session(r)]) > 0
        => Links(messages[Session(r)][Len(messages[Session(r)])], m, D)
  <2>1. Told(r) = n
    BY <1>0, <1>1 DEF Told
  <2>2. Links(Latest(r, n), ToolMessage(r, n + 1), calls)
    BY <1>2, LatestLinks
  <2> QED  BY <1>0, <1>1, <1>4, <1>5, <2>1, <2>2 DEF Stands
<1>8. pc'[r] \in TurnPCs /\ m = Latest(r, Told(r))'
  <2>1. Told(r)' = n + 1 /\ n + 1 # 0
    BY <1>0, <1>2, <1>4 DEF Told
  <2> QED  BY <1>0, <1>4, <2>1, WorkIsFlight DEF Latest
<1> QED  BY <1>3, <1>4, <1>5, <1>6, <1>7, <1>8, ListGrows

\* Every step but a raising tool keeps the list chained.
LEMMA StepStands ==
    ASSUME Faults \cap {"store", "crash"} = {}, TypeOK, TypeOK', NEW r \in Requests, Apart(r),
           Stands(r), Step(r), pc'[r] # "tool_error"
    PROVE  Stands(r)'
<1>1. CASE PushTask(r)
  <2>1. UserMessage(r) \in Message /\ UserMessage(r).role = "user" /\ UserMessage(r).n = 0
    BY MessageTypes DEF UserMessage
  <2>2. "user_push" \notin TurnPCs /\ "user_expire" \notin TurnPCs
    BY WorkIsFlight
  <2> QED  BY <1>1, <2>1, <2>2, PlainStands DEF PushTask
<1>2. CASE PushAnswer(r)
  <2>1. /\ AssistantMessage(r) \in Message
        /\ AssistantMessage(r).role = "assistant" /\ AssistantMessage(r).n = 0
    BY MessageTypes DEF AssistantMessage
  <2>2. "final_push" \notin TurnPCs /\ "final_expire" \notin TurnPCs
    BY WorkIsFlight
  <2> QED  BY <1>2, <2>1, <2>2, PlainStands DEF PushAnswer
<1>3. CASE PushDeclaration(r) \/ PushToolAnswer(r)
  BY <1>3, DeclarationStands, AnswerStands
<1>4. CASE Trim(r)
  <2>1. total[r] - MaxMessages \in Nat
    BY <1>4, ExecutionAssumption DEF Trim, TypeOK, LocalTypeOK, Locals
  <2>2. /\ messages'[Session(r)]
             = SubSeq(messages[Session(r)], total[r] - MaxMessages + 1, Len(messages[Session(r)]))
        /\ pc[r] = "trim_ltrim" /\ pc'[r] \in {"count", "store_error"}
    BY <1>4, ExecutionAssumption DEF Trim, TrimMessages, Goto, Reply, TypeOK, StoreTypeOK,
         LocalTypeOK
  <2>3. pc[r] \notin TurnPCs /\ pc'[r] \notin TurnPCs
    BY <2>2, WorkIsFlight
  <2> QED  BY <2>1, <2>2, <2>3, ListCut
<1>5. CASE /\ messages'[Session(r)] = messages[Session(r)]
           /\ \/ pc[r] \notin TurnPCs /\ pc'[r] \notin TurnPCs
              \/ pc[r] \in TurnPCs /\ pc'[r] \in TurnPCs /\ Told(r)' = Told(r)
              \/ pc[r] \in TurnPCs /\ Told(r) = calls[r] /\ pc'[r] \notin TurnPCs
  <2>1. pc[r] \in TurnPCs => calls[r] > 0
    BY LoopCounts
  <2> QED  BY <1>5, <2>1, ListKept
<1> QED  BY <1>1, <1>2, <1>3, <1>4, <1>5, StepInTurn

-----------------------------------------------------------------------------
(***************************************************************************)
(* The invariant.                                                          *)
(***************************************************************************)

\* A tool error is the end of a request, and only a tool makes one.
LEMMA ErrorStays ==
    ASSUME TypeOK, NEW r \in Requests, Step(r)
    PROVE  pc[r] # "tool_error" /\ (pc'[r] = "tool_error" => ToolRaises(r))
<1> USE DEF TypeOK, LocalTypeOK, Goto, Reply
<1>1. CASE Admit(r)
  BY <1>1 DEF Admit, Start, BindOwner, VerifyOwner, OwnerVerdict
<1>2. CASE Ask(r)
  BY <1>2 DEF Ask, LoadHistory, PushTask, Push, ExpireTask, Expire, FirstReply
<1>3. CASE UseTools(r)
  BY <1>3 DEF UseTools, PushDeclaration, ExpireDeclaration, RunTool, RecordToolCall,
     ExpireToolRecord, PushToolAnswer, ExpireToolAnswer, SecondReply, Push, Expire
<1>4. CASE Finish(r)
  BY <1>4 DEF Finish, PushAnswer, Push, ExpireAnswer, Expire, CheckTrim, ReadLength, Trim,
     CountMessages, Complete
<1>5. CASE Break(r)
  BY <1>5 DEF Break, Fail, StoreFails, ModelFails, ToolRaises, Crash, StorePCs, OwnerPCs,
       RecordPCs,
     TrimPCs, ReportPCs, ModelPCs, InFlight, Admitted
<1> QED  BY <1>1, <1>2, <1>3, <1>4, <1>5 DEF Step

\* A step keeps the sessions sound.
LEMMA StepSound ==
    ASSUME Serial, Faults \cap {"store", "crash"} = {}, SoundInv, TypeOK', NEW r \in Requests,
           Step(r)
    PROVE  Sound'
<1> USE DEF SoundInv, SerialInv, PromptInv
<1>1. Apart(r)
  BY StepApart
<1>2. ASSUME Unspoilt(Session(r))'
      PROVE  Stands(r)' /\ Fit(r)'
  <2>1. Unspoilt(Session(r)) /\ pc'[r] # "tool_error"
    BY <1>1, <1>2, ErrorStays DEF Unspoilt, Apart, Local
  <2>2. Stands(r) /\ Fit(r)
    BY <1>1, <2>1, SessionStands
  <2> QED  BY <1>1, <2>1, <2>2, StepStands, StepFits
<1> QED  BY <1>1, <1>2, SessionSound

\* A turn that the model or a tool ends leaves the list as it is.
LEMMA EndSound ==
    ASSUME SoundInv, NEW r \in Requests,
           \/ pc[r] \in ModelPCs /\ Fail(r, "llm_error")
           \/ pc[r] = "tool" /\ Fail(r, "tool_error")
    PROVE  Sound'
<1> USE DEF SoundInv, SerialInv, PromptInv
<1>1. /\ messages' = messages /\ prompt' = prompt /\ calls' = calls /\ answered' = answered
      /\ \/ pc[r] \in ModelPCs /\ pc'[r] = "llm_error"
         \/ pc[r] = "tool" /\ pc'[r] = "tool_error"
      /\ \A q \in Requests \ {r} : pc'[q] = pc[q]
  BY DEF Fail, Goto, storeVars, TypeOK, LocalTypeOK
<1>2. pc[r] \in InFlight /\ pc[r] # "tool_error"
  BY <1>1 DEF InFlight, Admitted, ModelPCs
<1>3. Apart(r)
  <2>1. Local(r)
    BY <1>1 DEF Local, Fail, storeVars
  <2>2. Settled \subseteq Settled'
    BY <1>1 DEF Settled, Before
  <2> QED  BY <1>1, <1>2, <2>1, <2>2 DEF Apart, Alone
<1>4. ASSUME Unspoilt(Session(r))'
      PROVE  Stands(r)' /\ Fit(r)'
  <2>1. Unspoilt(Session(r)) /\ pc'[r] = "llm_error" /\ pc[r] \in ModelPCs
    BY <1>1, <1>2, <1>4 DEF Unspoilt
  <2>2. pc[r] \notin TurnPCs /\ pc'[r] \notin TurnPCs
    BY <2>1, WorkIsFlight DEF ModelPCs
  <2>3. Stands(r) /\ Fit(r)
    BY <1>3, <2>1, SessionStands
  <2>4. pc'[r] \notin Undeclared \cup LoopPCs \cup {"llm2"}
    BY <2>1 DEF Undeclared, LoopPCs
  <2> QED  BY <1>1, <1>3, <2>2, <2>3, <2>4, ListKept, PromptKept
<1> QED  BY <1>3, <1>4, SessionSound

\* So does the clock, which takes whole lists.
LEMMA PassSound ==
    ASSUME Sound, UNCHANGED localVars, \A s \in Sessions : messages'[s] \in {messages[s], << >>}
    PROVE  Sound'
<1>1. pc' = pc /\ prompt' = prompt /\ calls' = calls /\ answered' = answered
  BY DEF localVars
<1>2. ASSUME NEW s \in Sessions, Unspoilt(s)'
      PROVE  Standing(s)' /\ \A r \in Requests : Session(r) = s => Fit(r)'
  <2>1. Standing(s) /\ \A r \in Requests : Session(r) = s => Fit(r)
    BY <1>1, <1>2 DEF Sound, Unspoilt
  <2>2. \A r \in Requests : Session(r) = s => Fit(r)'
    BY <1>1, <2>1 DEF Fit, Chained, Closed, Undeclared, LoopPCs, Settled, Proper, Links,
         Left,
       Index, Before
  <2>3. CASE messages'[s] = messages[s]
    BY <1>1, <2>1, <2>2, <2>3 DEF Standing, Chained, Closed, TurnPCs, LoopPCs, Settled,
         Proper, Links,
       Left, Index, Before, Latest, Told, Declaration
  <2>4. CASE messages'[s] = << >>
    BY <1>1, <2>2, <2>4 DEF Standing, Chained, Closed
  <2> QED  BY <1>2, <2>2, <2>3, <2>4
<1> QED  BY <1>2 DEF Sound

\* Nothing is stored and no prompt made.
LEMMA InitSound == Init => SoundInv
<1> SUFFICES ASSUME Init
             PROVE  Sound
  BY InitSerial, InitPrompts DEF SoundInv
<1>1. \A r \in Requests : pc[r] = "idle"
  BY DEF Init
<1>2. \A s \in Sessions : messages[s] = << >>
  BY DEF Init, StoreInit
<1> QED  BY <1>1, <1>2 DEF Sound, Standing, Fit, Chained, Closed, Undeclared, LoopPCs,
     TurnPCs

\* The invariant is inductive when neither a store command nor the process is lost.
LEMMA NextSound ==
    ASSUME Serial, Faults \cap {"store", "crash"} = {}
    PROVE  SoundInv /\ [Next]_vars => SoundInv'
<1> SUFFICES ASSUME SoundInv, [Next]_vars
             PROVE  SoundInv'
  OBVIOUS
<1>1. SerialInv' /\ PromptInv'
  BY NextSerial, NextPrompts DEF SoundInv
<1>2. ASSUME NEW r \in Requests, Step(r)
      PROVE  Sound'
  BY <1>1, <1>2, StepSound DEF SerialInv
<1>3. CASE Pass
  BY <1>1, <1>3, PassSound DEF Pass, Tick, SoundInv
<1>4. CASE UNCHANGED vars
  BY <1>1, <1>4, PassSound DEF vars, storeVars, SoundInv
<1> QED  BY <1>1, <1>2, <1>3, <1>4 DEF Next, AllEnded, SoundInv

\* A prompt that is chained is closed where it is sent.
LEMMA SoundAccepts ==
    ASSUME SoundInv, NEW r \in Requests, pc[r] \in ModelPCs, Unspoilt(Session(r))
    PROVE  Accepted(FormatMessages(prompt[r]))
<1> USE DEF SoundInv, SerialInv, PromptInv
<1> DEFINE msgs == prompt[r]
<1>1. Fit(r) /\ Asked(r) /\ Answering(r)
  BY ExecutionAssumption DEF Sound
<1>2. /\ pc[r] \in {"llm1", "llm2"} /\ msgs \in Seq(Message) /\ calls \in Counts
      /\ Settled \in SUBSET Requests
  BY DEF ModelPCs, TypeOK, LocalTypeOK, Counts, Settled
<1>3. /\ msgs[1].role = "system" /\ Chained(msgs, 2, calls, Settled) /\ Len(msgs) > 0
  BY <1>1, <1>2 DEF Fit, Undeclared, SystemMessage
<1>4. PICK u \in 1..Len(msgs) : msgs[u].role = "user"
  BY <1>1, <1>2 DEF Asked, Undeclared, UserMessage
<1>5. Closed(msgs, calls)
  <2>1. CASE pc[r] = "llm1"
    BY <1>1, <2>1 DEF Fit, Undeclared
  <2>2. CASE pc[r] = "llm2"
    <3>1. answered[r] = calls[r] /\ calls[r] > 0 /\ calls[r] \in Nat /\ r \in Settled
      BY <1>1, <2>2, ExecutionAssumption DEF Answering, TypeOK, LocalTypeOK, Settled, Before
    <3>2. msgs[Len(msgs)] = Latest(r, answered[r])
      BY <1>1, <2>2, PromptEnds
    <3>3. Left(Latest(r, calls[r]), calls) = 0
      <4>1. calls[r] \in 0..calls[r] /\ calls[r] - calls[r] = 0
        BY <3>1
      <4> QED  BY <3>1, <4>1, LatestLinks
    <3> QED  BY <3>1, <3>2, <3>3 DEF Closed
  <2> QED  BY <1>2, <2>1, <2>2
<1> HIDE DEF msgs
<1>6. Accepted(FormatMessages(msgs))
  BY <1>2, <1>3, <1>4, <1>5, ChainedPromptAccepted
<1> QED  BY <1>6 DEF msgs

\* With clients that wait for each answer, no store command or process lost and no tool
\* that raises, every prompt is one the OpenAI API accepts: neither trims that cut
\* between a declaration and its answers, nor failed model calls, nor lists that
\* expire in the middle of a turn make one it refuses.
THEOREM PromptsAccepted ==
    ASSUME Serial, Faults \subseteq {"llm"}
    PROVE  Spec => []PromptAccepted
<1> DEFINE Inv == SoundInv /\ \A q \in Requests : pc[q] # "tool_error"
<1>1. Init => Inv
  BY InitSound DEF Init
<1>2. Inv /\ [Next]_vars => Inv'
  <2> SUFFICES ASSUME Inv, [Next]_vars
               PROVE  Inv'
    OBVIOUS
  <2>1. SoundInv'
    BY NextSound
  <2>2. ASSUME NEW r \in Requests, Step(r)
        PROVE  pc'[r] # "tool_error" /\ \A q \in Requests \ {r} : pc'[q] = pc[q]
    <3>1. pc'[r] # "tool_error"
      BY <2>2, ErrorStays DEF ToolRaises, SoundInv, SerialInv
    <3> QED  BY <2>2, <3>1, StepIsLocal DEF Local, SoundInv, SerialInv
  <2>3. CASE Pass \/ UNCHANGED vars
    BY <2>1, <2>3 DEF Pass, vars, localVars
  <2> QED  BY <2>1, <2>2, <2>3 DEF Next, AllEnded
<1>3. Inv => PromptAccepted
  BY SoundAccepts DEF PromptAccepted, Unspoilt
<1> QED  BY <1>1, <1>2, <1>3, PTL DEF Spec

=============================================================================
