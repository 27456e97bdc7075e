------------------------------ MODULE MCAgent ------------------------------
(***************************************************************************)
(* Small instances of the execution path with provider and tools for TLC.  *)
(***************************************************************************)
EXTENDS Agent

CONSTANTS r1, r2, r3, u1, s1

OneUser    == [r \in Requests |-> u1]
OneSession == [r \in Requests |-> s1]

NoFaults    == {}
ModelFaults == {"llm"}

OpenAI    == [name |-> "openai", plain |-> TRUE]
Anthropic == [name |-> "anthropic", plain |-> TRUE]
Claude    == [name |-> "claude", plain |-> TRUE]

Zero == Constant("zero")
One  == Constant("pos")

\* An undefined or unsupported operand for every operator, on either side, in a
\* subtree or a leaf; a complex number on the left of every operator that is not
\* defined on them; signs, and constants that are no floats.
Trees ==
    LET complex == BinOp("pow", UnaryOp("usub", One), Constant("pos"))
        atoms   == {Zero, One, UnaryOp("usub", One), UnaryOp("invert", One), OtherNode,
                    Constant("huge_integer"), Constant("text"), complex,
                    BinOp("sub", One, One)}
    IN  atoms
          \cup {BinOp(op, One, Zero) : op \in SafeOperators \cup {"bitand"}}
          \cup {BinOp(op, complex, BinOp("sub", One, One)) : op \in Divisions}
          \cup {BinOp("pow", Zero, UnaryOp("usub", One)), BinOp("pow", One, complex),
                BinOp("add", Constant("text"), Constant("huge_integer")),
                BinOp("mult", One, Constant("text"))}

AllCalls ==
    {MathCall(e) : e \in Trees \cup {Unparsable, TooDeep, Absent}}
      \cup {[MathCall(Absent) EXCEPT !.object = FALSE]}
      \cup {SearchCall(q, n) : q \in {"text", "absent"},
                               n \in {"integer", "small_float", "not_a_number"}}
      \cup {UnknownCall}

Sum           == {MathCall(BinOp("add", One, Zero))}
ZeroToMinus   == {MathCall(BinOp("pow", Zero, UnaryOp("usub", One)))}

=============================================================================
