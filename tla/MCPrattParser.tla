--------------------------- MODULE MCPrattParser ---------------------------
(***************************************************************************)
(* Model-checking instance of PrattParser: IntWidth 4 (i64 in [-8, 7]);   *)
(* primaries an identifier x, the literal 1 and the literal 8 (one past   *)
(* MaxI64); one rule of every precedence row, with both rules of the      *)
(* additive row; the postfix `is Some`.                                   *)
(***************************************************************************)
EXTENDS PrattParser

MCPrimaries ==
    {[k |-> "primary", rule |-> "identifier", v |-> "x"],
     [k |-> "primary", rule |-> "int_literal", v |-> 1],
     [k |-> "primary", rule |-> "int_literal", v |-> MaxI64 + 1]}

MCPrefixes == {"neg", "not"}

MCInfixes == {"and", "equal", "less_than", "add", "subtract", "dot"}

MCPostfixes == {[k |-> "postfix", rule |-> "is", some |-> TRUE]}
====
