---------------------------- MODULE PrattParser ----------------------------
(***************************************************************************)
(* Expression parsing in aranya-policy-lang (parse.rs): parse_expression   *)
(* hands the pairs of Rule::expression to pest's Pratt parser, configured  *)
(* by get_pratt_parser, with the closures map_primary, map_prefix,         *)
(* map_infix and map_postfix building the Expression tree.                 *)
(*                                                                         *)
(* A token is a record: k is "primary", "prefix", "infix" or "postfix";   *)
(* rule is the pest rule; a primary is an int_literal whose digit string   *)
(* denotes v, or an identifier named v; the postfix `is` carries some.     *)
(* An Expression is a record [op, n (an Int), v (a name), kids].          *)
(* A closure's result is Ok(e) or Err(kind); Err("panic") stands for the   *)
(* expect in the neg folding aborting the whole parse.                     *)
(***************************************************************************)
EXTENDS Integers, Sequences, FiniteSets

CONSTANTS
    IntWidth,       \* bits of i64 (64 in the code)
    Primaries,      \* the primary tokens the inputs use
    Prefixes,       \* the prefix rules the inputs use
    Infixes,        \* the infix rules the inputs use
    Postfixes,      \* the postfix tokens the inputs use
    MaxTokens       \* the longest token sequence parsed

MinI64 == -(2 ^ (IntWidth - 1))
MaxI64 == 2 ^ (IntWidth - 1) - 1

Ok(e)  == [ok |-> TRUE, e |-> e]
Err(k) == [ok |-> FALSE, err |-> k]
Panicked(r) == ~r.ok /\ r.err = "panic"

IntLeaf(n)       == [op |-> "Int", n |-> n, v |-> "", kids |-> <<>>]
IdentLeaf(v)     == [op |-> "Identifier", n |-> 0, v |-> v, kids |-> <<>>]
Node(op, v, ks)  == [op |-> op, n |-> 0, v |-> v, kids |-> ks]

\* The bool of Expression::Is.
IsArg(some) == IF some THEN "Some" ELSE "None"

-----------------------------------------------------------------------------
(* The closures of parse_expression.                                       *)

\* Mutant: the digits are parsed as an unsigned word and cast to i64.
MapPrimaryWrapping(t) ==
    IF t.rule = "identifier" THEN Ok(IdentLeaf(t.v))
    ELSE IF t.v < 2 ^ IntWidth
         THEN Ok(IntLeaf(IF t.v > MaxI64 THEN t.v - 2 ^ IntWidth ELSE t.v))
         ELSE Err("InvalidNumber")

\* Mutant: the bound check admits one past MaxI64.
MapPrimaryOffByOne(t) ==
    IF t.rule = "identifier" THEN Ok(IdentLeaf(t.v))
    ELSE IF t.v <= MaxI64 + 1 THEN Ok(IntLeaf(t.v)) ELSE Err("InvalidNumber")

\* map_primary: an int_literal is parse::<i64>(), InvalidNumber above
\* MaxI64; an identifier is Expression::Identifier.
MapPrimary(t) ==
    IF t.rule = "identifier" THEN Ok(IdentLeaf(t.v))
    ELSE IF t.v <= MaxI64 THEN Ok(IntLeaf(t.v)) ELSE Err("InvalidNumber")

PrefixExpr == [not |-> "Not", unwrap |-> "Unwrap", check_unwrap |-> "CheckUnwrap"]

\* map_prefix: rhs? first; neg folds an Int operand with
\* checked_neg().expect(..), which panics on MinI64, and wraps any other
\* operand in Negative.
MapPrefix(rule, rhs) ==
    CASE ~rhs.ok -> rhs
      [] rule = "neg" /\ rhs.e.op = "Int" ->
            IF rhs.e.n = MinI64 THEN Err("panic") ELSE Ok(IntLeaf(-rhs.e.n))
      [] rule = "neg" -> Ok(Node("Negative", "", <<rhs.e>>))
      [] OTHER -> Ok(Node(PrefixExpr[rule], "", <<rhs.e>>))

InfixExpr == [add |-> "Add", subtract |-> "Subtract", and |-> "And", or |-> "Or",
              equal |-> "Equal", not_equal |-> "NotEqual",
              greater_than |-> "GreaterThan", less_than |-> "LessThan",
              greater_than_or_equal |-> "GreaterThanOrEqual",
              less_than_or_equal |-> "LessThanOrEqual"]

\* map_infix: lhs? then rhs?; dot matches rhs? first and takes only an
\* Identifier as the member name (InvalidMember otherwise).  Both operands
\* were parsed before the closure runs, so a panic in either aborts.
MapInfix(lhs, rule, rhs) ==
    CASE Panicked(lhs) -> lhs
      [] Panicked(rhs) -> rhs
      [] rule = "dot" ->
            CASE ~rhs.ok -> rhs
              [] rhs.e.op # "Identifier" -> Err("InvalidMember")
              [] ~lhs.ok -> lhs
              [] OTHER -> Ok(Node("Dot", rhs.e.v, <<lhs.e>>))
      [] ~lhs.ok -> lhs
      [] ~rhs.ok -> rhs
      [] OTHER -> Ok(Node(InfixExpr[rule], "", <<lhs.e, rhs.e>>))

\* map_postfix: `is` some / none over lhs?.
MapPostfix(lhs, t) ==
    IF ~lhs.ok THEN lhs ELSE Ok(Node("Is", IsArg(t.some), <<lhs.e>>))

-----------------------------------------------------------------------------
(* get_pratt_parser and pest's Pratt algorithm.                            *)

\* Mutant: the comparison row is declared before the equality row.
RowsCmpBeforeEq ==
    << {"and", "or"},
       {"greater_than", "less_than", "greater_than_or_equal", "less_than_or_equal", "is"},
       {"equal", "not_equal"},
       {"add", "subtract"},
       {"neg", "not", "unwrap", "check_unwrap"},
       {"dot"} >>

\* get_pratt_parser: the rules of each .op(..) call, in call order.  Every
\* infix is Assoc::Left; `is` is the one postfix.
Rows ==
    << {"and", "or"},
       {"equal", "not_equal"},
       {"greater_than", "less_than", "greater_than_or_equal", "less_than_or_equal", "is"},
       {"add", "subtract"},
       {"neg", "not", "unwrap", "check_unwrap"},
       {"dot"} >>

\* PrattParser::op gives the k-th call precedence 10 * k.
Prec == [r \in UNION {Rows[k] : k \in DOMAIN Rows} |->
            10 * (CHOOSE k \in DOMAIN Rows : r \in Rows[k])]

\* lbp: the precedence of the next operator, 0 at the end of the pairs.
Lbp(s, i) == IF i > Len(s) THEN 0 ELSE Prec[s[i].rule]

\* expr(rbp): nud, then led while rbp < lbp.  nud parses a prefix's
\* operand with expr(prec - 1); led parses a left infix's right operand
\* with expr(prec) and applies a postfix at once.  A result is [r, pos].
RECURSIVE Expr(_, _, _), Nud(_, _), Led(_, _, _), LedLoop(_, _, _)
Nud(s, i) ==
    IF s[i].k = "primary" THEN [r |-> MapPrimary(s[i]), pos |-> i + 1]
    ELSE LET rhs == Expr(s, i + 1, Prec[s[i].rule] - 1)
         IN  [r |-> MapPrefix(s[i].rule, rhs.r), pos |-> rhs.pos]
Led(s, i, lhs) ==
    IF s[i].k = "postfix" THEN [r |-> MapPostfix(lhs, s[i]), pos |-> i + 1]
    ELSE LET rhs == Expr(s, i + 1, Prec[s[i].rule])
         IN  [r |-> MapInfix(lhs, s[i].rule, rhs.r), pos |-> rhs.pos]
LedLoop(s, rbp, acc) ==
    IF rbp < Lbp(s, acc.pos) THEN LedLoop(s, rbp, Led(s, acc.pos, acc.r)) ELSE acc
Expr(s, i, rbp) == LedLoop(s, rbp, Nud(s, i))

\* parse_expression: pratt...parse(pairs), i.e. expr(0) over the pairs.
ParseExpression(s) == Expr(s, 1, 0).r

\* The expressions parse_match_statement admits as an arm value.
ArmLiterals == {"Int", "String", "Bool", "EnumReference"}

\* Mutant: an arm value is checked by its pairs (a lone literal token)
\* instead of by the expression parsed from them.
MatchArmValueByPairs(s) ==
    LET r == ParseExpression(s)
    IN  IF r.ok /\ ~(Len(s) = 1 /\ s[1].rule = "int_literal") THEN Err("InvalidType") ELSE r

\* parse_match_statement, one value of a match_arm_expression:
\* parse_expression(..)?, then InvalidType unless it is a literal.
MatchArmValue(s) ==
    LET r == ParseExpression(s)
    IN  IF r.ok /\ r.e.op \notin ArmLiterals THEN Err("InvalidType") ELSE r

-----------------------------------------------------------------------------
(* The contract of spec 4.A: the precedence table, lowest first, read as  *)
(* the layered grammar  E1 := E1 (&& | ||) E2 | E2,  ...,  E3 := E3 is |   *)
(* E3 cmp E4 | E4,  E5 := prefix E5 | E6,  E6 := E6 . ident | primary,     *)
(* with an integer literal above MaxI64 a parse error and unary minus on   *)
(* an integer literal folded into it.                                      *)

SpecLevel == [and |-> 1, or |-> 1, equal |-> 2, not_equal |-> 2,
              greater_than |-> 3, less_than |-> 3, greater_than_or_equal |-> 3,
              less_than_or_equal |-> 3, is |-> 3, add |-> 4, subtract |-> 4,
              neg |-> 5, not |-> 5, unwrap |-> 5, check_unwrap |-> 5, dot |-> 6]

SpecNode(t, kids) ==
    CASE t.rule = "neg" /\ kids[1].op = "Int" -> IntLeaf(-kids[1].n)
      [] t.rule = "neg" -> Node("Negative", "", kids)
      [] t.k = "prefix" -> Node(PrefixExpr[t.rule], "", kids)
      [] t.k = "postfix" -> Node("Is", IsArg(t.some), kids)
      [] OTHER -> Node(InfixExpr[t.rule], "", kids)

\* The trees level lv of the grammar derives from s.
RECURSIVE Derive(_, _)
Derive(lv, s) ==
    LET n == Len(s)
        Front(i) == SubSeq(s, 1, i - 1)
        Back(i)  == SubSeq(s, i + 1, n)
        splits == {i \in 1 .. n : s[i].k = "infix" /\ SpecLevel[s[i].rule] = lv}
        binary ==
            IF lv = 6
            THEN IF n - 1 \in splits /\ s[n].rule = "identifier"
                 THEN {Node("Dot", s[n].v, <<l>>) : l \in Derive(6, Front(n - 1))}
                 ELSE {}
            ELSE UNION {{SpecNode(s[i], <<l, r>>) : l \in Derive(lv, Front(i)),
                                                    r \in Derive(lv + 1, Back(i))} : i \in splits}
        postfix == IF n > 0 /\ s[n].k = "postfix" /\ SpecLevel[s[n].rule] = lv
                   THEN {SpecNode(s[n], <<t>>) : t \in Derive(lv, Front(n))} ELSE {}
        prefix  == IF n > 0 /\ s[1].k = "prefix" /\ SpecLevel[s[1].rule] = lv
                   THEN {SpecNode(s[1], <<t>>) : t \in Derive(lv, Tail(s))} ELSE {}
        primary == IF n = 1 /\ s[1].k = "primary" /\ (s[1].rule = "identifier" \/ s[1].v <= MaxI64)
                   THEN {IF s[1].rule = "identifier" THEN IdentLeaf(s[1].v)
                         ELSE IntLeaf(s[1].v)}
                   ELSE {}
    IN  IF n = 0 THEN {}
        ELSE binary \cup postfix \cup prefix \cup (IF lv = 6 THEN primary ELSE Derive(lv + 1, s))

SpecTrees(s) == Derive(1, s)

-----------------------------------------------------------------------------
(* The parser run over every token sequence the expression rule accepts:  *)
(* prefix* primary postfix? (infix prefix* primary postfix?)*.            *)

VARIABLES
    tokens,     \* the pairs of Rule::expression, in order
    rule,       \* where the pairs stand: an expression or a match arm value
    phase,      \* "lex" while tokens grow, "parsed" once they were parsed
    result      \* the parser's result

vars == <<tokens, rule, phase, result>>

Tokens == Primaries \cup Postfixes
          \cup [k : {"prefix"}, rule : Prefixes] \cup [k : {"infix"}, rule : Infixes]

\* The kinds that may follow the last token (an operand takes one postfix).
Follows(s) ==
    IF s = <<>> \/ s[Len(s)].k \in {"prefix", "infix"} THEN {"prefix", "primary"}
    ELSE IF s[Len(s)].k = "primary" THEN {"postfix", "infix"} ELSE {"infix"}

Complete(s) == s # <<>> /\ s[Len(s)].k \in {"primary", "postfix"}

\* Every Int of a tree is an i64.
RECURSIVE IntsInRange(_)
IntsInRange(e) ==
    /\ e.op = "Int" => e.n \in MinI64 .. MaxI64
    /\ \A k \in DOMAIN e.kids : IntsInRange(e.kids[k])

TypeOK ==
    /\ tokens \in Seq(Tokens) /\ Len(tokens) <= MaxTokens
    /\ rule \in {"expression", "match_arm_expression"}
    /\ phase \in {"lex", "parsed"}
    /\ \/ result \in [ok : {FALSE}, err : {"none", "InvalidNumber", "InvalidMember",
                                          "InvalidType", "panic"}]
       \/ result.ok /\ IntsInRange(result.e)

Init ==
    /\ tokens = <<>>
    /\ rule \in {"expression", "match_arm_expression"}
    /\ phase = "lex"
    /\ result = Err("none")

\* The pest grammar yields one more pair of the expression; a prefix or
\* infix is only taken where an operand still fits.
Lex ==
    /\ phase = "lex"
    /\ \E t \in Tokens :
          /\ t.k \in Follows(tokens)
          /\ Len(tokens) + (IF t.k \in {"prefix", "infix"} THEN 2 ELSE 1) <= MaxTokens
          /\ tokens' = Append(tokens, t)
    /\ UNCHANGED <<rule, phase, result>>

\* parse_expression over the whole expression.
Parse ==
    /\ phase = "lex"
    /\ rule = "expression"
    /\ Complete(tokens)
    /\ result' = ParseExpression(tokens)
    /\ phase' = "parsed"
    /\ UNCHANGED <<tokens, rule>>

\* parse_match_statement's check of one arm value.
ParseArmValue ==
    /\ phase = "lex"
    /\ rule = "match_arm_expression"
    /\ Complete(tokens)
    /\ result' = MatchArmValue(tokens)
    /\ phase' = "parsed"
    /\ UNCHANGED <<tokens, rule>>

Done == phase = "parsed" /\ UNCHANGED vars

Next == Lex \/ Parse \/ ParseArmValue \/ Done

Spec == Init /\ [][Next]_vars
-----------------------------------------------------------------------------

\* Wherever the spec's precedence table gives an expression a tree, the
\* Pratt table of get_pratt_parser and the closures build exactly that tree
\* (and the table gives no expression two trees).
ParseMatchesSpec ==
    phase = "parsed" /\ rule = "expression" /\ SpecTrees(tokens) # {} =>
        result.ok /\ SpecTrees(tokens) = {result.e}

\* Spec 4.B and its scenario 6: a match arm value is accepted exactly when
\* it is a literal, where minus signs before an integer literal fold into
\* it (spec 4.A), so -1 is a literal and -x or 1 + 1 are not.  This is
\* about parse_match_statement's check on the parsed expression.
ArmAcceptsOnlyLiterals ==
    phase = "parsed" /\ rule = "match_arm_expression" =>
        (result.ok <=> \E t \in SpecTrees(tokens) : t.op \in ArmLiterals)

\* The expect in map_prefix's neg folding never fires: no expression,
\* however its minus signs and literals are combined, panics the parser.
NegationNeverPanics == ~Panicked(result)
\* A lone integer literal, or one minus sign and an integer literal: the
\* text spec.md 8 calls a literal, and the value it denotes.
SignedLiteral(s) ==
    \/ Len(s) = 1 /\ s[1].rule = "int_literal"
    \/ Len(s) = 2 /\ s[1] = [k |-> "prefix", rule |-> "neg"] /\ s[2].rule = "int_literal"
LiteralValue(s) == IF Len(s) = 1 THEN s[1].v ELSE -s[2].v

\* spec.md 8 (integer literal overflow): parse_expression rejects a literal
\* with InvalidNumber exactly when its value lies outside [-2^63, 2^63-1].
\* map_primary parses the digits as an i64 before map_prefix folds the
\* sign, so this is about the order of those two closures.
LiteralOverflowAsSpec ==
    phase = "parsed" /\ rule = "expression" /\ SignedLiteral(tokens) =>
        ((~result.ok /\ result.err = "InvalidNumber")
            <=> LiteralValue(tokens) \notin MinI64 .. MaxI64)
====
