-------------------------- MODULE MCStringLiteral --------------------------
(***************************************************************************)
(* Model-checking instance of StringLiteral.  A matched literal is a quote, *)
(* up to MaxUnits units and a closing quote; a unit is a character other   *)
(* than '"' and '\\', or a backslash followed by any character (the shape   *)
(* Rule::string_literal matches).  The characters are the two escape        *)
(* letters, hex digits on both sides of 0x80, '+', and a non-ASCII letter.  *)
(***************************************************************************)
EXTENDS StringLiteral

MaxUnits == 3

\* x n 0 7 8 F + U+00E9
PlainChars == {LowerX, LowerN, 48, 55, 56, 70, 43, 233}

Units == {<<c>> : c \in PlainChars}
         \cup {<<Backslash, c>> : c \in PlainChars \cup {Backslash, Quote}}

Literals(units) ==
    {<<Quote>> \o FlattenSeq(us) \o <<Quote>> : us \in BoundedSeq(units, MaxUnits)}

MCInputs == Literals(Units)

\* Literals with \xNN escapes, without '+'.
HighByteInputs ==
    Literals({<<c>> : c \in PlainChars \ {43}} \cup {<<Backslash, LowerX>>})
=============================================================================
