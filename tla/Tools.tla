------------------------------- MODULE Tools -------------------------------
(***************************************************************************)
(* ToolService.execute_tool and the two registered tools: what becomes of  *)
(* a call the model asks for.  It is answered, with one of the statuses of *)
(* ToolCallResult, or "raised": an exception leaves execute_tool and ends  *)
(* the request.                                                            *)
(*                                                                         *)
(* A float is abstracted to its class: the sign, "nonfinite" for inf and   *)
(* nan, "complex" for the power of a negative number.  Magnitudes are not  *)
(* followed: the result of an operation on floats may be of any class, and *)
(* evaluation yields the set of possible outcomes.                         *)
(*                                                                         *)
(* No tool awaits anything, so the time-out of wait_for never cuts one off *)
(* and "timeout" is no outcome of these tools.                             *)
(***************************************************************************)
EXTENDS Naturals

CONSTANT Expressions    \* bound: the syntax trees a model sends, with their operands

Real    == {"zero", "pos", "neg", "nonfinite"}
Numbers == Real \cup {"complex"}

Caught   == {"ToolValidationError", "ToolExecutionError", "SyntaxError", "TypeError"}
Uncaught == {"ZeroDivisionError", "OverflowError", "RecursionError"}
Raised   == Caught \cup Uncaught

Divisions     == {"div", "floordiv", "mod"}
SafeOperators == {"add", "sub", "mult", "pow"} \cup Divisions
SafeSigns     == {"uadd", "usub"}

-----------------------------------------------------------------------------
(***************************************************************************)
(* Syntax trees.  "other" nodes are names, calls, lists...                 *)
(***************************************************************************)

Constant(v)        == [node |-> "constant", value |-> v]
BinOp(op, a, b)    == [node |-> "binop", op |-> op, left |-> a, right |-> b]
UnaryOp(op, a)     == [node |-> "unaryop", op |-> op, operand |-> a]
OtherNode          == [node |-> "other"]

\* Arguments in which no tree is found: a string that does not parse, one that
\* nests too deep to parse, no string at all.
Unparsable == [node |-> "unparsable"]
TooDeep    == [node |-> "too_deep"]
Absent     == [node |-> "absent"]

-----------------------------------------------------------------------------
(***************************************************************************)
(* _safe_eval.                                                             *)
(***************************************************************************)

\* float ** float.  An exponent above MAX_POWER is refused; the range of a float
\* can be left below that too.
Power(a, b) ==
    (IF b \in {"pos", "nonfinite"} THEN {"ToolValidationError"} ELSE {})
      \cup CASE b = "complex" -> {"TypeError"}
             [] a = "complex" -> {"complex", "OverflowError", "ZeroDivisionError"}
             [] a = "zero" /\ b = "neg" -> {"ZeroDivisionError"}
             [] a = "neg" /\ b \in {"pos", "neg"} -> Real \cup {"complex", "OverflowError"}
             [] a = "pos" /\ b \in {"pos", "neg"} -> Real \cup {"OverflowError"}
             [] OTHER -> Real

\* The operators other than the power: a float of any class, inf instead of an
\* overflow; complex numbers have no floor and no remainder.
Arithmetic(op, a, b) ==
    CASE "complex" \notin {a, b}       -> Real
      [] op \in {"floordiv", "mod"}    -> {"TypeError"}
      [] OTHER                         -> {"complex"}

MayBeZero(b) == b \in {"zero", "complex"}

\* Mutant: the divisor is tested for / and // only.
ApplyWithoutMod(op, a, b) ==
    CASE op = "pow" -> Power(a, b)
      [] op \in {"div", "floordiv"} /\ b = "zero" -> {"ToolExecutionError"}
      [] op = "mod" /\ b = "zero" -> {"ZeroDivisionError"}
      [] OTHER -> Arithmetic(op, a, b)

Apply(op, a, b) ==
    CASE op = "pow" -> Power(a, b)
      [] op \in Divisions /\ b = "zero" -> {"ToolExecutionError"}
      [] op \in Divisions /\ MayBeZero(b) -> {"ToolExecutionError"} \cup Arithmetic(op, a, b)
      [] OTHER -> Arithmetic(op, a, b)

\* The left operand is evaluated first; the right one only if that succeeds.
Combine(op, L, R) ==
    (L \cap Raised)
      \cup (IF L \subseteq Raised THEN {} ELSE R \cap Raised)
      \cup UNION {Apply(op, a, b) : a \in L \ Raised, b \in R \ Raised}

Sign(op, v) ==
    CASE op = "usub" /\ v = "pos" -> "neg"
      [] op = "usub" /\ v = "neg" -> "pos"
      [] OTHER -> v

\* float() of an integer beyond the range of floats overflows; a constant that is
\* not a number is an unsupported node.
ConstantValue(v) ==
    CASE v \in Real         -> {v}
      [] v = "huge_integer" -> {"OverflowError"}
      [] OTHER              -> {"ToolValidationError"}

SafeEval[e \in Expressions] ==
    CASE e.node = "constant" -> ConstantValue(e.value)
      [] e.node = "binop" /\ e.op \in SafeOperators ->
            Combine(e.op, SafeEval[e.left], SafeEval[e.right])
      [] e.node = "unaryop" /\ e.op \in SafeSigns ->
            {IF o \in Raised THEN o ELSE Sign(e.op, o) : o \in SafeEval[e.operand]}
      [] OTHER -> {"ToolValidationError"}

-----------------------------------------------------------------------------
(***************************************************************************)
(* The tools and the service.  A call names a tool and carries the         *)
(* arguments its provider parsed: "object" says whether they are a dict.   *)
(***************************************************************************)

MathCall(e) == [tool |-> "math", object |-> TRUE, argument |-> e]

\* max_results: an integer (or none), a float of at most five, or no number.
SearchCall(query, max_results) ==
    [tool |-> "web_search", object |-> TRUE,
     argument |-> [node |-> "search", query |-> query, max_results |-> max_results]]

UnknownCall == [tool |-> "unknown", object |-> TRUE, argument |-> Absent]

\* What MathTool.execute makes of the outcome of parsing and evaluating.
MathStatus(o) ==
    CASE o \in Numbers -> "success"
      [] o \in Caught  -> "error"
      [] OTHER         -> "raised"

MathExecute(arg) ==
    CASE arg.node = "absent"     -> {"validation_error"}
      [] arg.node = "unparsable" -> {MathStatus("SyntaxError")}
      [] arg.node = "too_deep"   -> {MathStatus("RecursionError")}
      [] OTHER                   -> {MathStatus(o) : o \in SafeEval[arg]}

\* min() compares max_results with a number before the query is looked at; the
\* slice that a float cannot index comes after.
SearchExecute(arg) ==
    CASE arg.node = "absent"               -> {"validation_error"}
      [] arg.max_results = "not_a_number"  -> {"raised"}
      [] arg.query = "absent"              -> {"validation_error"}
      [] arg.max_results = "small_float"   -> {"raised"}
      [] OTHER                             -> {"success"}

\* Whatever a tool raises becomes a ToolExecutionError, as does the lookup of a
\* tool that is not registered; arguments that are no dict have no get.
ExecuteTool(call) ==
    CASE call.tool \notin {"math", "web_search"} \/ ~call.object -> {"raised"}
      [] call.tool = "math" -> MathExecute(call.argument)
      [] OTHER              -> SearchExecute(call.argument)

-----------------------------------------------------------------------------
\* Does the tree contain a power or an integer no float can hold?
HasPowerOrHuge[e \in Expressions] ==
    CASE e.node = "constant" -> e.value = "huge_integer"
      [] e.node = "binop"    ->
            e.op = "pow" \/ HasPowerOrHuge[e.left] \/ HasPowerOrHuge[e.right]
      [] e.node = "unaryop"  -> HasPowerOrHuge[e.operand]
      [] OTHER               -> FALSE

=============================================================================
