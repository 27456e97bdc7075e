------------------------------- MODULE Gateway -------------------------------
(***************************************************************************)
(* The whole way of an HTTP call: the middlewares, the route, the use case *)
(* (module Execution) and the exception handlers that make a status of the *)
(* way it ends.  The app adds RateLimit, Auth and Logging in this order,   *)
(* so that Logging is the outermost and Auth runs before RateLimit.  The   *)
(* keys of the limiter and of the sessions are in one Redis, with one      *)
(* clock.                                                                  *)
(*                                                                         *)
(* Caller is what Auth leaves in request.state: the subject of the token,  *)
(* or NoUser where the path is open (health, docs), where the token has an *)
(* empty subject, and where there is no valid token.  Which of the three   *)
(* it is, and what is wrong with a path or a body, is left to the steps    *)
(* that look at it.                                                        *)
(***************************************************************************)
EXTENDS ExecutionProperties

CONSTANTS
    NoUser,
    Caller,         \* request -> the user in request.state, or NoUser
    Limit,          \* settings.rate_limit_per_minute
    Window,         \* a minute, in clock ticks
    LimiterFaults   \* what goes wrong in the limiter

ASSUME GatewayAssumption ==
    /\ NoUser \notin Users
    /\ Caller \in [Requests -> Users \cup {NoUser}]
    /\ \A r \in Requests : Caller[r] \in {UserOf[r], NoUser}
    /\ Limit \in Nat
    /\ Window \in Nat \ {0}
    /\ LimiterFaults \subseteq {"store", "crash"}

VARIABLES
    counter, expiry, at, minute, countedAt,     \* RateLimit
    stage,      \* request -> the middleware or handler it stands in
    answer      \* request -> the status of its response, or NoAnswer

L == INSTANCE RateLimit WITH
        Calls <- Requests, UserOf <- Caller, clock <- now, Faults <- LimiterFaults

limiterVars == <<counter, expiry, at, minute, countedAt>>
gatewayVars == <<stage, answer>>
allVars == <<vars, limiterVars, gatewayVars>>

NoAnswer == 0

GInit ==
    /\ Init
    /\ L!Init
    /\ stage = [r \in Requests |-> "new"]
    /\ answer = [r \in Requests |-> NoAnswer]

Advance(r, s) == stage' = [stage EXCEPT ![r] = s] /\ UNCHANGED answer

Respond(r, status) ==
    /\ stage' = [stage EXCEPT ![r] = "over"]
    /\ answer' = [answer EXCEPT ![r] = status]

-----------------------------------------------------------------------------
\* AuthMiddleware: 401 without a valid token, unless the path is open.
Authenticate(r) ==
    /\ stage[r] = "new"
    /\ \/ Advance(r, "limiter")
       \/ Caller[r] = NoUser /\ Respond(r, 401)
    /\ UNCHANGED <<vars, limiterVars>>

\* Mutant: the limiter stands before the authentication and sees no user.
LimiterBlind(r) ==
    /\ stage[r] = "limiter"
    /\ at[r] = "idle" /\ L!Goto(r, "unlimited")
    /\ UNCHANGED <<vars, counter, expiry, minute, countedAt, gatewayVars>>

\* RateLimitMiddleware, up to its verdict.
Limiter(r) ==
    /\ stage[r] = "limiter"
    /\ L!Bypass(r) \/ L!Check(r) \/ L!StoreFails(r)
    /\ UNCHANGED <<vars, gatewayVars>>

Refuse(r) ==
    /\ stage[r] = "limiter"
    /\ at[r] = "limited"
    /\ Respond(r, 429)
    /\ UNCHANGED <<vars, limiterVars>>

\* The router and the schema of the body: 422 (404 and 405 are not told apart from
\* it), or the answer of an open path.
Reject(r) ==
    /\ \E status \in {422} \cup (IF Caller[r] = NoUser THEN {200} ELSE {}) :
          Respond(r, status)
    /\ UNCHANGED vars

\* execute_task: 401 without a user, 403 for another user's name in the body.
RefuseIdentity(r) ==
    /\ Respond(r, IF Caller[r] = NoUser THEN 401 ELSE 403)
    /\ UNCHANGED vars

\* The checks the use case begins with: 400 for a malformed name or a blank task.
RefuseInput(r) ==
    /\ Caller[r] # NoUser
    /\ Respond(r, 400)
    /\ UNCHANGED vars

EnterUseCase(r) ==
    /\ Caller[r] # NoUser
    /\ Start(r)
    /\ Advance(r, "use_case")

\* Mutant: the 429 is made but not returned.
RouteLimited(r) ==
    /\ stage[r] = "limiter"
    /\ at[r] \in {"unlimited", "passed", "allowed", "limited"}
    /\ Reject(r) \/ RefuseIdentity(r) \/ RefuseInput(r) \/ EnterUseCase(r)
    /\ UNCHANGED limiterVars

Route(r) ==
    /\ stage[r] = "limiter"
    /\ at[r] \in {"unlimited", "passed", "allowed"}
    /\ Reject(r) \/ RefuseIdentity(r) \/ RefuseInput(r) \/ EnterUseCase(r)
    /\ UNCHANGED limiterVars

\* The status of the exception a request ends with.
Status ==
    [completed |-> 200, forbidden |-> 403, tool_error |-> 500,
     llm_error |-> 502, store_error |-> 503, crashed |-> NoAnswer]

Serve(r) ==
    /\ stage[r] = "use_case"
    /\ Step(r)
    /\ IF pc'[r] \in Ended
         THEN Respond(r, Status[pc'[r]])
         ELSE UNCHANGED gatewayVars
    /\ UNCHANGED limiterVars

\* The process stops while the call is in the limiter.
Lost(r) ==
    /\ stage[r] = "limiter"
    /\ L!Crash(r)
    /\ Advance(r, "over")
    /\ UNCHANGED vars

-----------------------------------------------------------------------------
Handle(r) == Authenticate(r) \/ Limiter(r) \/ Refuse(r) \/ Route(r) \/ Serve(r)

GNext ==
    \/ \E r \in Requests : Handle(r) \/ Lost(r)
    \/ L!Tick /\ Pass /\ UNCHANGED gatewayVars
    \/ (\A r \in Requests : stage[r] = "over") /\ UNCHANGED allVars

\* The event loop resumes a call whose await is over; what it awaits answers or
\* fails.  A call is free never to arrive.
GSpec ==
    /\ GInit
    /\ [][GNext]_allVars
    /\ \A r \in Requests : WF_allVars(stage[r] # "new" /\ Handle(r))

-----------------------------------------------------------------------------
\* The calls of user u and minute w that reached the use case, but for those that a
\* failing store let through: the ones counted in the Window ticks from t on, and any
\* that were not counted at all.
ServedFrom(u, w, t) ==
    {r \in Requests :
        /\ Caller[r] = u
        /\ pc[r] # "idle" /\ at[r] # "passed"
        /\ minute[r] = w
        /\ countedAt[r] \in t .. (t + Window - 1) \/ countedAt[r] = L!Never}

\* Of a user's calls no more than RATE_LIMIT_PER_MINUTE reach the use case by an INCR
\* that came in the minute it names, and fewer than twice as many of one minute's by INCRs
\* in any span of a minute, late or not; a call that was never counted counts against
\* both.  The one exception are calls whose check a failing store broke off.  So the
\* limiter stands behind the authentication, where it knows the user, and before the route.
ServedWithinLimit ==
    \A u \in Users, w \in L!Minutes :
        /\ Cardinality(ServedFrom(u, w, w * Window)) <= Limit
        /\ \A t \in 0..Horizon :
              Limit > 0 => Cardinality(ServedFrom(u, w, t)) < 2 * Limit

\* A call that is told it was refused, by whomever, and one over the limit leave no
\* trace: no session has a message of theirs, and none was bound to a user who has
\* no call that got in.
RefusalsLeaveNoTrace ==
    /\ \A r \in Requests :
          at[r] = "limited" \/ answer[r] \in {400, 401, 403, 422, 429} =>
             \A s \in Sessions : \A i \in 1..Len(messages[s]) : messages[s][i].by # r
    /\ \A s \in Sessions : owner[s] # NoOwner =>
          \E r \in Requests :
             /\ Caller[r] = owner[s] /\ Session(r) = s
             /\ at[r] \in {"passed", "allowed"}

\* A call that has come in is answered, unless its process stops: no middleware
\* waits for a limiter that fails, and no exception of the use case is left
\* without a status.
EveryCallIsAnswered ==
    \A r \in Requests :
        stage[r] # "new" ~> answer[r] # NoAnswer \/ at[r] = "crashed" \/ pc[r] = "crashed"

=============================================================================
