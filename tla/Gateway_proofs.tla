--------------------------- MODULE Gateway_proofs ---------------------------
(***************************************************************************)
(* The gateway adds nothing to the execution path but the order in which   *)
(* calls come to it, and a call that is refused on the way leaves no trace *)
(* in any session; nor does it get past the limit: for every number of     *)
(* calls, limit and fault.                                                 *)
(***************************************************************************)
EXTENDS Gateway, Execution_proofs, FiniteSetTheorems

-----------------------------------------------------------------------------
(***************************************************************************)
(* Each step of the gateway is a step of the execution path or leaves it   *)
(* alone.                                                                  *)
(***************************************************************************)

LEMMA HandleSteps ==
    ASSUME NEW r \in Requests, Handle(r)
    PROVE  [Next]_vars
<1>1. CASE Route(r)
  BY <1>1 DEF Route, Reject, RefuseIdentity, RefuseInput, EnterUseCase, Next, Step, Admit
<1>2. CASE Serve(r)
  BY <1>2 DEF Serve, Next
<1> QED  BY <1>1, <1>2 DEF Handle, Authenticate, Limiter, Refuse

LEMMA GNextSteps == [GNext]_allVars => [Next]_vars
<1> SUFFICES ASSUME [GNext]_allVars
             PROVE  [Next]_vars
  OBVIOUS
<1> QED  BY HandleSteps DEF GNext, Lost, Next, allVars

\* Whatever comes through the gateway, the sessions live as under Execution.
THEOREM GatewayRefines == GSpec => Spec
  BY GNextSteps, PTL DEF GSpec, GInit, Spec

\* Behind the gateway too, a session holds its owner's messages only until the
\* owner key expires.
THEOREM GatewayIsolation == GSpec => []SessionIsolation
  BY GatewayRefines, Isolation, PTL

-----------------------------------------------------------------------------
(***************************************************************************)
(* Traces.  A message in a session is by a request that got past the       *)
(* ownership check, and an owner key is set for a request that has begun.  *)
(***************************************************************************)

Inside == Admitted \cup (Ended \ {"forbidden"})

Traces ==
    /\ \A s \in Sessions : \A i \in 1..Len(messages[s]) : pc[messages[s][i].by] \in Inside
    /\ \A s \in Sessions : owner[s] # NoOwner =>
          \E r \in Requests : pc[r] # "idle" /\ UserOf[r] = owner[s] /\ Session(r) = s

\* Where a step of r may take it.
Moves(r) ==
    /\ \A q \in Requests \ {r} : pc'[q] = pc[q]
    /\ pc'[r] \in PCs \ {"idle"}
    /\ pc[r] \in Inside => pc'[r] \in Inside

\* What a step of r may do to the owner keys and the lists.
Silent == UNCHANGED <<owner, messages>>

Binds(r) ==
    /\ owner' = [owner EXCEPT ![Session(r)] = UserOf[r]]
    /\ messages' = messages

Writes(r) ==
    /\ owner' = owner
    /\ pc'[r] \in Inside
    /\ \E m \in Message : m.by = r /\ messages' = [messages EXCEPT ![Session(r)] = Append(@, m)]

Cuts(r) ==
    /\ owner' = owner
    /\ \E n \in Nat :
          messages' = [messages EXCEPT ![Session(r)] = SubSeq(@, n + 1, Len(@))]

LEMMA PushWrites ==
    ASSUME TypeOK, NEW r \in Requests, NEW from, NEW to \in Admitted, NEW m \in Message,
           m.by = r, Push(r, from, m, to)
    PROVE  Moves(r) /\ Writes(r)
<1>1. Moves(r) /\ pc'[r] \in Inside
  BY DEF Push, Reply, Goto, Moves, Inside, PCs, InFlight, Admitted, StorePCs, OwnerPCs,
     RecordPCs, TrimPCs, ReportPCs, ModelPCs, Ended, TypeOK, LocalTypeOK
<1>2. owner' = owner /\ messages' = [messages EXCEPT ![Session(r)] = Append(@, m)]
  BY DEF Push, PushMessage
<1> QED  BY <1>1, <1>2 DEF Writes

LEMMA AdmitKinds ==
    ASSUME TypeOK, NEW r \in Requests, Admit(r)
    PROVE  Moves(r) /\ (Silent \/ Binds(r))
<1> USE DEF Moves, Inside, PCs, InFlight, Admitted, StorePCs, OwnerPCs, RecordPCs, TrimPCs,
            ReportPCs, ModelPCs, Ended, TypeOK, LocalTypeOK, Goto, Reply, Silent, storeVars
<1>1. CASE Start(r)
  BY <1>1 DEF Start
<1>2. CASE BindOwner(r)
  <2>1. Moves(r)
    BY <1>2 DEF BindOwner
  <2>2. Silent \/ Binds(r)
    BY <1>2 DEF BindOwner, SetOwner, Binds
  <2> QED  BY <2>1, <2>2
<1>3. CASE VerifyOwner(r)
  BY <1>3 DEF VerifyOwner, OwnerVerdict
<1> QED  BY <1>1, <1>2, <1>3 DEF Admit

LEMMA AskKinds ==
    ASSUME TypeOK, NEW r \in Requests, Ask(r)
    PROVE  Moves(r) /\ (Silent \/ Writes(r))
<1> USE DEF Moves, Inside, PCs, InFlight, Admitted, StorePCs, OwnerPCs, RecordPCs, TrimPCs,
            ReportPCs, ModelPCs, Ended, TypeOK, LocalTypeOK, Goto, Reply, Silent, storeVars
<1>1. CASE LoadHistory(r)
  BY <1>1 DEF LoadHistory
<1>2. CASE PushTask(r)
  BY <1>2, PushWrites, MessageTypes DEF PushTask, UserMessage
<1>3. CASE ExpireTask(r)
  BY <1>3 DEF ExpireTask, Expire, ExpireMessages
<1>4. CASE FirstReply(r)
  BY <1>4 DEF FirstReply
<1> QED  BY <1>1, <1>2, <1>3, <1>4 DEF Ask

LEMMA UseToolsKinds ==
    ASSUME TypeOK, NEW r \in Requests, UseTools(r)
    PROVE  Moves(r) /\ (Silent \/ Writes(r))
<1> USE DEF Moves, Inside, PCs, InFlight, Admitted, StorePCs, OwnerPCs, RecordPCs, TrimPCs,
            ReportPCs, ModelPCs, Ended, TypeOK, LocalTypeOK, Goto, Reply, Silent, storeVars
<1>1. CASE PushDeclaration(r)
  <2>1. Declaration(r) \in Message /\ Declaration(r).by = r
    BY MessageTypes DEF Declaration, ToolCallsMessage
  <2> QED  BY <1>1, <2>1, PushWrites DEF PushDeclaration
<1>2. CASE ExpireDeclaration(r)
  BY <1>2 DEF ExpireDeclaration, Expire, ExpireMessages
<1>3. CASE RunTool(r)
  BY <1>3 DEF RunTool
<1>4. CASE RecordToolCall(r)
  BY <1>4 DEF RecordToolCall, PushToolRecord
<1>5. CASE ExpireToolRecord(r)
  BY <1>5 DEF ExpireToolRecord, ExpireToolHistory
<1>6. CASE PushToolAnswer(r)
  <2>1. answered[r] + 1 \in 0..MaxToolCalls
    BY <1>6, ExecutionAssumption DEF PushToolAnswer, Push, Locals
  <2>2. ToolAnswer(r) \in Message /\ ToolAnswer(r).by = r
    BY <2>1, MessageTypes DEF ToolAnswer, ToolMessage
  <2> QED  BY <1>6, <2>2, PushWrites DEF PushToolAnswer
<1>7. CASE ExpireToolAnswer(r)
  BY <1>7 DEF ExpireToolAnswer, Expire, ExpireMessages
<1>8. CASE SecondReply(r)
  BY <1>8 DEF SecondReply
<1> QED  BY <1>1, <1>2, <1>3, <1>4, <1>5, <1>6, <1>7, <1>8 DEF UseTools

LEMMA FinishKinds ==
    ASSUME TypeOK, NEW r \in Requests, Finish(r)
    PROVE  Moves(r) /\ (Silent \/ Writes(r) \/ Cuts(r))
<1> USE DEF Moves, Inside, PCs, InFlight, Admitted, StorePCs, OwnerPCs, RecordPCs, TrimPCs,
            ReportPCs, ModelPCs, Ended, TypeOK, LocalTypeOK, Goto, Reply, Silent, storeVars
<1>1. CASE PushAnswer(r)
  BY <1>1, PushWrites, MessageTypes DEF PushAnswer, AssistantMessage
<1>2. CASE ExpireAnswer(r)
  BY <1>2 DEF ExpireAnswer, Expire, ExpireMessages
<1>3. CASE CheckTrim(r)
  BY <1>3 DEF CheckTrim
<1>4. CASE ReadLength(r)
  BY <1>4 DEF ReadLength
<1>5. CASE Trim(r)
  <2>1. Moves(r)
    BY <1>5 DEF Trim
  <2>2. Cuts(r)
    <3>1. total[r] - MaxMessages \in Nat
      BY <1>5, ExecutionAssumption DEF Trim, Locals
    <3> QED  BY <1>5, <3>1 DEF Trim, TrimMessages, Cuts
  <2> QED  BY <2>1, <2>2
<1>6. CASE CountMessages(r)
  BY <1>6 DEF CountMessages
<1>7. CASE Complete(r)
  BY <1>7 DEF Complete
<1> QED  BY <1>1, <1>2, <1>3, <1>4, <1>5, <1>6, <1>7 DEF Finish

LEMMA BreakKinds ==
    ASSUME TypeOK, NEW r \in Requests, Break(r)
    PROVE  Moves(r) /\ Silent
  BY DEF Break, StoreFails, ModelFails, ToolRaises, Crash, Fail, Moves, Inside, PCs, Ended,
     TypeOK, LocalTypeOK, Goto, Silent, storeVars

LEMMA StepKinds ==
    ASSUME TypeOK, NEW r \in Requests, Step(r)
    PROVE  Moves(r) /\ (Silent \/ Binds(r) \/ Writes(r) \/ Cuts(r))
  BY AdmitKinds, AskKinds, UseToolsKinds, FinishKinds, BreakKinds DEF Step

LEMMA StepTraces ==
    ASSUME TypeOK, Traces, NEW r \in Requests, Step(r)
    PROVE  Traces'
<1>0. Session(r) \in Sessions /\ \A s \in Sessions : messages[s] \in Seq(Message)
  BY ExecutionAssumption DEF TypeOK, StoreTypeOK, Session
<1>a. \A s \in Sessions : \A j \in 1..Len(messages[s]) : messages[s][j].by \in Requests
  <2>1. \A m \in Message : m.by \in Requests
    BY DEF Message
  <2> QED  BY <1>0, <2>1
<1>1. Moves(r) /\ (Silent \/ Binds(r) \/ Writes(r) \/ Cuts(r))
  BY StepKinds
<1>2. \A q \in Requests : /\ pc[q] \in Inside => pc'[q] \in Inside
                          /\ pc[q] # "idle" => pc'[q] # "idle"
  BY <1>1 DEF Moves
<1>3. ASSUME NEW s \in Sessions, NEW i \in 1..Len(messages'[s])
      PROVE  pc'[messages'[s][i].by] \in Inside
  <2>0. \A j \in 1..Len(messages[s]) : pc'[messages[s][j].by] \in Inside
    BY <1>0, <1>a, <1>2 DEF Traces
  <2>1. CASE messages'[s] = messages[s]
    BY <2>0, <2>1, <1>3
  <2>2. CASE Writes(r) /\ s = Session(r)
    <3>1. PICK m \in Message : m.by = r /\ messages'[s] = Append(messages[s], m)
      BY <2>2, <1>0 DEF Writes, TypeOK, StoreTypeOK
    <3>2. i \in 1..(Len(messages[s]) + 1)
      BY <3>1, <1>0, <1>3
    <3>3. CASE i \in 1..Len(messages[s])
      <4>1. messages'[s][i] = messages[s][i]
        BY <3>1, <3>3, <1>0
      <4> QED  BY <4>1, <3>3, <2>0
    <3>4. CASE i = Len(messages[s]) + 1
      <4>1. messages'[s][i] = m
        BY <3>1, <3>4, <1>0
      <4> QED  BY <4>1, <3>1, <2>2 DEF Writes
    <3> QED  BY <3>2, <3>3, <3>4, <1>0
  <2>3. CASE Cuts(r) /\ s = Session(r)
    <3>1. PICK n \in Nat : messages'[s] = SubSeq(messages[s], n + 1, Len(messages[s]))
      BY <2>3, <1>0 DEF Cuts, TypeOK, StoreTypeOK
    <3>2. /\ n + i \in 1..Len(messages[s])
          /\ messages'[s][i] = messages[s][n + i]
      BY <3>1, <1>0, <1>3
    <3> QED  BY <3>2, <2>0
  <2>4. \/ messages'[s] = messages[s]
        \/ s = Session(r) /\ (Writes(r) \/ Cuts(r))
    BY <1>1 DEF Silent, Binds, Writes, Cuts, TypeOK, StoreTypeOK
  <2> QED  BY <2>1, <2>2, <2>3, <2>4
<1>4. ASSUME NEW s \in Sessions, owner'[s] # NoOwner
      PROVE  \E q \in Requests : pc'[q] # "idle" /\ UserOf[q] = owner'[s] /\ Session(q) = s
  <2>1. CASE owner'[s] = owner[s]
    BY <2>1, <1>2, <1>4 DEF Traces
  <2>2. CASE s = Session(r) /\ owner'[s] = UserOf[r]
    BY <2>2, <1>1 DEF Moves
  <2>3. \/ owner'[s] = owner[s]
        \/ s = Session(r) /\ owner'[s] = UserOf[r]
    BY <1>1 DEF Silent, Binds, Writes, Cuts, TypeOK, StoreTypeOK
  <2> QED  BY <2>1, <2>2, <2>3
<1> QED  BY <1>3, <1>4 DEF Traces

LEMMA PassTraces ==
    ASSUME TypeOK, Traces, Pass
    PROVE  Traces'
<1>1. /\ pc' = pc
      /\ \A s \in Sessions : owner'[s] \in {owner[s], NoOwner} /\ messages'[s] \in {messages[s], << >>}
  BY DEF Pass, Tick, localVars
<1> QED  BY <1>1 DEF Traces

LEMMA NextTraces == TypeOK /\ Traces /\ [Next]_vars => Traces'
<1>1. UNCHANGED vars /\ Traces => Traces'
  BY DEF vars, storeVars, localVars, Traces
<1> QED  BY <1>1, StepTraces, PassTraces DEF Next, AllEnded

LEMMA InitTraces == Init => Traces
  BY DEF Init, StoreInit, Traces

-----------------------------------------------------------------------------
(***************************************************************************)
(* Passage.  Only a call that the limiter checked and let through has      *)
(* begun, and none that was told it was refused goes on.                   *)
(***************************************************************************)

RefusalCodes == {400, 401, 403, 422, 429}

GateTypeOK ==
    /\ stage \in [Requests -> {"new", "limiter", "use_case", "over"}]
    /\ answer \in [Requests -> Nat]
    /\ at \in [Requests -> {"idle", "incr", "expire"} \cup L!Answered]

Passage ==
    \A r \in Requests :
        /\ stage[r] \in {"new", "limiter"} => pc[r] = "idle"
        /\ stage[r] = "use_case" \/ pc[r] # "idle" =>
              at[r] \in {"passed", "allowed"} /\ Caller[r] = UserOf[r]
        /\ at[r] = "unlimited" => Caller[r] = NoUser
        /\ answer[r] \in RefusalCodes => stage[r] = "over" /\ pc[r] \in {"idle", "forbidden"}

GateInv == TypeOK /\ Traces /\ GateTypeOK /\ Passage

\* What a step of call r must show.
Passes(r) ==
    /\ \A q \in Requests \ {r} :
          /\ pc'[q] = pc[q] /\ stage'[q] = stage[q]
          /\ at'[q] = at[q] /\ answer'[q] = answer[q]
    /\ stage'[r] \in {"new", "limiter"} => pc'[r] = "idle"
    /\ stage'[r] = "use_case" \/ pc'[r] # "idle" =>
          at'[r] \in {"passed", "allowed"} /\ Caller[r] = UserOf[r]
    /\ at'[r] = "unlimited" => Caller[r] = NoUser
    /\ answer'[r] \in RefusalCodes => stage'[r] = "over" /\ pc'[r] \in {"idle", "forbidden"}

LEMMA PassesPassage ==
    ASSUME Passage, NEW r \in Requests, Passes(r)
    PROVE  Passage'
  BY DEF Passage, Passes

\* The limiter moves its call within the limiter, and past the check only without a
\* user.
LEMMA LimiterMoves ==
    ASSUME NEW r \in Requests, L!Bypass(r) \/ L!Check(r) \/ L!StoreFails(r) \/ L!Crash(r)
    PROVE  \E l \in {"idle", "incr", "expire"} \cup L!Answered :
              (l = "unlimited" => Caller[r] = NoUser) /\ at' = [at EXCEPT ![r] = l]
  BY DEF L!Bypass, L!Check, L!ReadClock, L!Increment, L!SetExpiry, L!StoreFails, L!Crash,
     L!Goto, L!Verdict, L!Answered

LEMMA HandlePasses ==
    ASSUME GateInv, NEW r \in Requests, Handle(r) \/ Lost(r)
    PROVE  GateTypeOK' /\ Passes(r)
<1> USE DEF GateInv, GateTypeOK, Passage, Passes, RefusalCodes
<1>1. CASE Authenticate(r)
  BY <1>1 DEF Authenticate, Advance, Respond, vars, localVars, limiterVars
<1>2. CASE Limiter(r)
  <2>1. PICK l \in {"idle", "incr", "expire"} \cup L!Answered :
           (l = "unlimited" => Caller[r] = NoUser) /\ at' = [at EXCEPT ![r] = l]
    BY <1>2, LimiterMoves DEF Limiter
  <2> QED  BY <1>2, <2>1 DEF Limiter, gatewayVars, vars, localVars
<1>3. CASE Refuse(r)
  BY <1>3 DEF Refuse, Respond, vars, localVars, limiterVars
<1>4. CASE Route(r)
  <2>1. CASE EnterUseCase(r)
    <3>1. Caller[r] = UserOf[r] /\ pc' = [pc EXCEPT ![r] = "bind"]
      BY <2>1, GatewayAssumption DEF EnterUseCase, Start, Goto
    <3> QED  BY <1>4, <2>1, <3>1 DEF Route, EnterUseCase, Advance, limiterVars, TypeOK, LocalTypeOK
  <2>2. CASE Reject(r) \/ RefuseIdentity(r) \/ RefuseInput(r)
    <3>1. PICK status \in {200, 422, 401, 403, 400} : Respond(r, status)
      BY <2>2 DEF Reject, RefuseIdentity, RefuseInput
    <3>2. pc' = pc
      BY <2>2 DEF Reject, RefuseIdentity, RefuseInput, vars, localVars
    <3> QED  BY <1>4, <3>1, <3>2 DEF Route, Respond, limiterVars
  <2> QED  BY <1>4, <2>1, <2>2 DEF Route
<1>5. CASE Serve(r)
  <2>1. Moves(r)
    BY <1>5, StepKinds DEF Serve
  <2>2. CASE pc'[r] \in Ended
    <3>1. /\ Status[pc'[r]] \in Nat
          /\ Status[pc'[r]] \in RefusalCodes => pc'[r] = "forbidden"
      BY <2>2 DEF Status, Ended, NoAnswer
    <3>2. Respond(r, Status[pc'[r]])
      BY <1>5, <2>2 DEF Serve
    <3> QED  BY <1>5, <2>1, <3>1, <3>2 DEF Serve, Respond, limiterVars, Moves
  <2>3. CASE pc'[r] \notin Ended
    BY <1>5, <2>1, <2>3 DEF Serve, gatewayVars, limiterVars, Moves
  <2> QED  BY <2>2, <2>3
<1>6. CASE Lost(r)
  <2>1. PICK l \in {"idle", "incr", "expire"} \cup L!Answered :
           (l = "unlimited" => Caller[r] = NoUser) /\ at' = [at EXCEPT ![r] = l]
    BY <1>6, LimiterMoves DEF Lost
  <2> QED  BY <1>6, <2>1 DEF Lost, Advance, vars, localVars
<1> QED  BY <1>1, <1>2, <1>3, <1>4, <1>5, <1>6 DEF Handle

LEMMA GNextInv == GateInv /\ [GNext]_allVars => GateInv'
<1> SUFFICES ASSUME GateInv, [GNext]_allVars
             PROVE  GateInv'
  OBVIOUS
<1>1. TypeOK' /\ Traces'
  BY GNextSteps, NextType, NextTraces DEF GateInv
<1>2. GateTypeOK' /\ Passage'
  <2>1. CASE \E r \in Requests : Handle(r) \/ Lost(r)
    BY <2>1, HandlePasses, PassesPassage DEF GateInv
  <2>2. CASE UNCHANGED <<pc, stage, answer, at>>
    BY <2>2 DEF GateInv, GateTypeOK, Passage
  <2>3. ASSUME L!Tick /\ Pass /\ UNCHANGED gatewayVars
        PROVE  UNCHANGED <<pc, stage, answer, at>>
    BY <2>3 DEF L!Tick, Pass, localVars, gatewayVars
  <2>4. ASSUME UNCHANGED allVars
        PROVE  UNCHANGED <<pc, stage, answer, at>>
    BY <2>4 DEF allVars, vars, localVars, limiterVars, gatewayVars
  <2> QED  BY <2>1, <2>2, <2>3, <2>4 DEF GNext
<1> QED  BY <1>1, <1>2 DEF GateInv

LEMMA GInitInv == GInit => GateInv
<1> SUFFICES ASSUME GInit
             PROVE  GateInv
  OBVIOUS
<1>1. TypeOK /\ Traces
  BY InitType, InitTraces DEF GInit
<1> QED  BY <1>1 DEF GInit, Init, L!Init, GateInv, GateTypeOK, Passage, RefusalCodes, NoAnswer

LEMMA TraceFree == GateInv => RefusalsLeaveNoTrace
<1> SUFFICES ASSUME GateInv
             PROVE  RefusalsLeaveNoTrace
  OBVIOUS
<1>1. ASSUME NEW r \in Requests, at[r] = "limited" \/ answer[r] \in RefusalCodes,
             NEW s \in Sessions, NEW i \in 1..Len(messages[s])
      PROVE  messages[s][i].by # r
  <2>1. pc[r] \in {"idle", "forbidden"}
    BY <1>1 DEF GateInv, Passage
  <2>2. pc[messages[s][i].by] \notin {"idle", "forbidden"}
    BY DEF GateInv, Traces, Inside, Ended, Admitted, StorePCs, OwnerPCs, RecordPCs, TrimPCs,
       ReportPCs, ModelPCs
  <2> QED  BY <2>1, <2>2
<1>2. ASSUME NEW s \in Sessions, owner[s] # NoOwner
      PROVE  \E r \in Requests :
                Caller[r] = owner[s] /\ Session(r) = s /\ at[r] \in {"passed", "allowed"}
  BY <1>2 DEF GateInv, Traces, Passage
<1> QED  BY <1>1, <1>2 DEF RefusalsLeaveNoTrace, RefusalCodes

\* A call that was refused, by the limiter, the routes, the use case or the
\* ownership check, has no message in any session, and a session is bound only to a
\* user of a call that came through the limiter.
THEOREM NoTrace == GSpec => []RefusalsLeaveNoTrace
  BY GInitInv, GNextInv, TraceFree, PTL DEF GSpec

-----------------------------------------------------------------------------
(***************************************************************************)
(* The limit.  The route and the use case leave the limiter's state alone, *)
(* so that it lives as under RateLimit, and the use case serves only the   *)
(* calls that it let through.                                              *)
(***************************************************************************)

R == INSTANCE RateLimit_proofs WITH
        Calls <- Requests, UserOf <- Caller, clock <- now, Faults <- LimiterFaults

LEMMA LimiterAssumption == R!RateLimitAssumption
  BY GatewayAssumption, StoreAssumption DEF R!RateLimitAssumption

\* The instance brings its own copy of module FiniteSets.
LEMMA SameCardinality ==
    ASSUME NEW S
    PROVE  /\ R!IsFiniteSet(S) <=> IsFiniteSet(S)
           /\ R!Cardinality(S) = Cardinality(S)
<1>1. R!IsFiniteSet(S) <=> IsFiniteSet(S)
  BY DEF R!IsFiniteSet, IsFiniteSet
<1>2. R!Cardinality(S) = Cardinality(S)
  BY DEF R!Cardinality, Cardinality
<1> QED  BY <1>1, <1>2

LEMMA HandleLimits ==
    ASSUME NEW r \in Requests, Handle(r) \/ Lost(r)
    PROVE  [R!Next]_(R!vars)
<1>1. CASE Limiter(r) \/ Lost(r)
  <2>1. L!Bypass(r) \/ L!Check(r) \/ L!StoreFails(r) \/ L!Crash(r)
    BY <1>1 DEF Limiter, Lost
  <2>2. R!Bypass(r) \/ R!Check(r) \/ R!StoreFails(r) \/ R!Crash(r)
    <3>1. CASE L!Bypass(r)
      BY <3>1 DEF L!Bypass, R!Bypass, L!Goto, R!Goto
    <3>2. CASE L!ReadClock(r)
      BY <3>2 DEF L!ReadClock, R!ReadClock, R!Check, L!Goto, R!Goto
    <3>3. CASE L!Increment(r)
      BY <3>3 DEF L!Increment, R!Increment, R!Check, L!Verdict, R!Verdict, L!Goto, R!Goto
    <3>4. CASE L!SetExpiry(r)
      BY <3>4 DEF L!SetExpiry, R!SetExpiry, R!Check, L!Verdict, R!Verdict, L!Goto, R!Goto
    <3>5. CASE L!StoreFails(r)
      BY <3>5 DEF L!StoreFails, R!StoreFails, L!Goto, R!Goto
    <3>6. CASE L!Crash(r)
      BY <3>6 DEF L!Crash, R!Crash, L!Goto, R!Goto
    <3> QED  BY <2>1, <3>1, <3>2, <3>3, <3>4, <3>5, <3>6 DEF L!Check
  <2> QED  BY <2>2 DEF R!Next
<1>2. CASE Authenticate(r) \/ Refuse(r) \/ Route(r) \/ Serve(r)
  <2>1. UNCHANGED limiterVars
    BY <1>2 DEF Authenticate, Refuse, Route, Serve
  <2>2. now' = now
    <3>1. CASE Authenticate(r) \/ Refuse(r)
      BY <3>1 DEF Authenticate, Refuse, vars, storeVars
    <3>2. CASE Route(r)
      BY <3>2 DEF Route, Reject, RefuseIdentity, RefuseInput, EnterUseCase, Start, vars, storeVars
    <3>3. CASE Serve(r)
      BY <3>3, StepIsTimeless DEF Serve
    <3> QED  BY <1>2, <3>1, <3>2, <3>3
  <2> QED  BY <2>1, <2>2 DEF limiterVars, R!vars
<1> QED  BY <1>1, <1>2 DEF Handle

LEMMA GNextLimits == [GNext]_allVars => [R!Next]_(R!vars)
<1> SUFFICES ASSUME [GNext]_allVars
             PROVE  [R!Next]_(R!vars)
  OBVIOUS
<1>1. CASE L!Tick
  <2>1. R!Tick
    BY <1>1 DEF L!Tick, R!Tick, L!Minutes, R!Minutes, L!Never, R!Never
  <2> QED  BY <2>1 DEF R!Next
<1>2. CASE UNCHANGED allVars
  BY <1>2 DEF allVars, vars, storeVars, limiterVars, R!vars
<1> QED  BY <1>1, <1>2, HandleLimits DEF GNext

\* Behind the authentication and before the route, the limiter works as on its own.
THEOREM GatewayLimits == GSpec => R!Spec
<1>1. GInit => R!Init
  BY DEF GInit, Init, StoreInit, L!Init, R!Init, L!Minutes, R!Minutes, L!Never, R!Never
<1> QED  BY <1>1, GNextLimits, PTL DEF GSpec, R!Spec

\* What reaches the use case, but for a failing store, the limiter has counted and
\* allowed.
LEMMA ServedAreAllowed ==
    ASSUME GateInv, R!LimitInv, NEW u, NEW w, NEW t
    PROVE  ServedFrom(u, w, t) \subseteq R!AllowedFrom(u, w, t)
<1> SUFFICES ASSUME NEW r \in ServedFrom(u, w, t)
             PROVE  r \in R!AllowedFrom(u, w, t)
  OBVIOUS
<1>1. at[r] = "allowed"
  BY DEF ServedFrom, GateInv, Passage
<1>2. countedAt[r] # R!Never
  BY <1>1 DEF ServedFrom, R!LimitInv, R!Course
<1>3. countedAt[r] \in t .. (t + Window - 1)
  BY <1>2 DEF ServedFrom, L!Never, R!Never
<1> QED  BY <1>1, <1>2, <1>3 DEF ServedFrom, R!AllowedFrom, R!Counted

\* No more than Limit of a user's calls reach the use case in the minute they name, and
\* fewer than twice Limit of one minute's in any span, late INCRs included, but for the
\* calls a failing store lets through: for every number of calls and users and any limit.
THEOREM ServedFew == GSpec => []ServedWithinLimit
<1>0. Window \in Nat \ {0} /\ L!Minutes \subseteq Nat /\ 0..Horizon \subseteq Nat /\ Limit \in Nat
  BY GatewayAssumption, StoreAssumption DEF L!Minutes
<1>1. ASSUME GateInv, R!LimitInv, NEW u \in Users, NEW w \in L!Minutes
      PROVE  Cardinality(ServedFrom(u, w, w * Window)) <= Limit
  <2>1. w \in R!Minutes
    BY DEF L!Minutes, R!Minutes
  <2>2. /\ IsFiniteSet(R!AllowedInTime(u, w))
        /\ Cardinality(R!AllowedInTime(u, w)) \in Nat
        /\ Cardinality(R!AllowedInTime(u, w)) <= Limit
    <3>1. /\ R!IsFiniteSet(R!AllowedInTime(u, w))
          /\ R!Cardinality(R!AllowedInTime(u, w)) \in Nat
          /\ R!Cardinality(R!AllowedInTime(u, w)) <= Limit
      BY <1>1, <2>1, LimiterAssumption, R!AllowedAreFew
    <3> QED  BY <3>1, SameCardinality
  <2>3. ServedFrom(u, w, w * Window) \subseteq R!AllowedInTime(u, w)
    <3>1. ASSUME NEW r \in R!AllowedFrom(u, w, w * Window)
          PROVE  r \in R!AllowedInTime(u, w)
      <4>1. /\ r \in R!Counted(u, w) /\ at[r] = "allowed"
            /\ countedAt[r] \in (w * Window) .. (w * Window + Window - 1)
        BY <3>1 DEF R!AllowedFrom
      <4>2. countedAt[r] \div Window = w
        BY <1>0, <4>1, LimiterAssumption, R!TicksOfMinute
      <4> QED  BY <4>1, <4>2 DEF R!AllowedInTime
    <3> QED  BY <1>1, <3>1, ServedAreAllowed
  <2>4. /\ Cardinality(ServedFrom(u, w, w * Window)) \in Nat
        /\ Cardinality(ServedFrom(u, w, w * Window)) <= Cardinality(R!AllowedInTime(u, w))
    BY <2>2, <2>3, FS_Subset, FS_CardinalityType
  <2> QED  BY <1>0, <2>2, <2>4
<1>2. ASSUME GateInv, R!LimitInv, NEW u \in Users, NEW w \in L!Minutes, NEW t \in 0..Horizon,
             Limit > 0
      PROVE  Cardinality(ServedFrom(u, w, t)) < 2 * Limit
  <2>1. w \in R!Minutes /\ t \in Nat
    BY <1>0 DEF L!Minutes, R!Minutes
  <2>2. /\ IsFiniteSet(R!AllowedFrom(u, w, t))
        /\ Cardinality(R!AllowedFrom(u, w, t)) \in Nat
        /\ Cardinality(R!AllowedFrom(u, w, t)) < 2 * Limit
    <3>1. /\ R!IsFiniteSet(R!AllowedFrom(u, w, t))
          /\ R!Cardinality(R!AllowedFrom(u, w, t)) \in Nat
          /\ R!Cardinality(R!AllowedFrom(u, w, t)) < 2 * Limit
      BY <1>2, <2>1, LimiterAssumption, R!SpansAreBounded
    <3> QED  BY <3>1, SameCardinality
  <2>3. /\ Cardinality(ServedFrom(u, w, t)) \in Nat
        /\ Cardinality(ServedFrom(u, w, t)) <= Cardinality(R!AllowedFrom(u, w, t))
    BY <1>2, <2>2, ServedAreAllowed, FS_Subset, FS_CardinalityType
  <2> QED  BY <1>0, <2>2, <2>3
<1>3. GateInv /\ R!LimitInv => ServedWithinLimit
  BY <1>1, <1>2 DEF ServedWithinLimit
<1>4. GSpec => []GateInv
  BY GInitInv, GNextInv, PTL DEF GSpec
<1>5. GSpec => []R!LimitInv
  BY GatewayLimits, LimiterAssumption, R!Invariance, PTL
<1> QED  BY <1>3, <1>4, <1>5, PTL

=============================================================================
