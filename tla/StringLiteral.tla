---------------------------- MODULE StringLiteral ----------------------------
(***************************************************************************)
(* parse_string_literal (aranya-policy-lang/src/lang/parse.rs): the loop   *)
(* that turns the text matched by Rule::string_literal into a String.      *)
(*                                                                         *)
(* Characters are Unicode code points (integers); the String produced is   *)
(* kept as its UTF-8 bytes, because the spec states the result in bytes.   *)
(* src is the matched text, it the part of it the Chars iterator has not   *)
(* yet yielded, out the bytes of the String built so far, phase "start",   *)
(* "loop", "ok" or the ParseErrorKind returned.  One action per arm of     *)
(* the loop's match.                                                       *)
(***************************************************************************)
EXTENDS Integers, Sequences, SequencesExt

CONSTANTS Inputs    \* the texts Rule::string_literal may match

Quote     == 34     \* '"'
Backslash == 92     \* '\\'
LowerX    == 120    \* 'x'
LowerN    == 110    \* 'n'
Newline   == 10     \* '\n'

VARIABLES src, it, out, phase

vars == <<src, it, out, phase>>

\* Mutant: the lead byte is built without shifting the code point.
Utf8NoShift(cp) ==
    IF cp < 128 THEN <<cp>> ELSE <<192 + cp, 128 + (cp % 64)>>

\* The UTF-8 encoding of a code point below 0x800 (String::push).
Utf8(cp) ==
    IF cp < 128 THEN <<cp>> ELSE <<192 + (cp \div 64), 128 + (cp % 64)>>

\* The value of an ASCII hex digit, or -1.
HexDigit(cp) ==
    CASE cp \in 48 .. 57  -> cp - 48
      [] cp \in 65 .. 70  -> cp - 55
      [] cp \in 97 .. 102 -> cp - 87
      [] OTHER            -> -1

\* u8::from_str_radix(s, 16): an optional leading '+', then one or more
\* hex digits; the value always fits in u8 for at most two characters.
FromStrRadix16(s) ==
    LET ds == IF s # <<>> /\ s[1] = 43 THEN Tail(s) ELSE s
    IN  IF ds = <<>> \/ \E i \in DOMAIN ds : HexDigit(ds[i]) < 0
        THEN [ok |-> FALSE, v |-> 0]
        ELSE [ok |-> TRUE,
              v  |-> FoldLeft(LAMBDA acc, c : 16 * acc + HexDigit(c), 0, ds)]

TypeOK ==
    /\ src \in Seq(Nat)
    /\ it \in Seq(Nat)
    /\ out \in Seq(0 .. 255)
    /\ phase \in {"start", "loop", "ok", "InvalidString", "InvalidNumber"}

Init ==
    /\ src \in Inputs
    /\ it = src
    /\ out = <<>>
    /\ phase = "start"

\* Consume the first quote character, or fail.
ConsumeQuote ==
    /\ phase = "start"
    /\ IF it # <<>> /\ Head(it) = Quote
       THEN phase' = "loop" /\ it' = Tail(it)
       ELSE phase' = "InvalidString" /\ UNCHANGED it
    /\ UNCHANGED <<src, out>>

\* '"' => break (and the end of the iterator): Ok(out).
CloseQuote ==
    /\ phase = "loop"
    /\ it = <<>> \/ Head(it) = Quote
    /\ phase' = "ok"
    /\ UNCHANGED <<src, it, out>>

\* Mutant: a plain character is pushed as one byte (Latin-1).
PlainCharLatin1 ==
    /\ phase = "loop"
    /\ it # <<>>
    /\ Head(it) \notin {Quote, Backslash}
    /\ out' = out \o <<Head(it)>>
    /\ it' = Tail(it)
    /\ UNCHANGED <<src, phase>>

\* _ => out.push(c)
PlainChar ==
    /\ phase = "loop"
    /\ it # <<>>
    /\ Head(it) \notin {Quote, Backslash}
    /\ out' = out \o Utf8(Head(it))
    /\ it' = Tail(it)
    /\ UNCHANGED <<src, phase>>

\* '\\' then 'x': take(2), u8::from_str_radix, out.push(v as char).
EscapeHex ==
    /\ phase = "loop"
    /\ Len(it) >= 2 /\ Head(it) = Backslash /\ it[2] = LowerX
    /\ LET s == SubSeq(it, 3, IF Len(it) < 4 THEN Len(it) ELSE 4)
           r == FromStrRadix16(s)
       IN  /\ it' = SubSeq(it, 3 + Len(s), Len(it))
           /\ IF r.ok THEN out' = out \o Utf8(r.v) /\ UNCHANGED phase
                      ELSE phase' = "InvalidNumber" /\ UNCHANGED out
    /\ UNCHANGED src

\* '\\' then 'n': out.push('\n').
EscapeNewline ==
    /\ phase = "loop"
    /\ Len(it) >= 2 /\ Head(it) = Backslash /\ it[2] = LowerN
    /\ out' = out \o <<Newline>>
    /\ it' = SubSeq(it, 3, Len(it))
    /\ UNCHANGED <<src, phase>>

\* '\\' then any other character, or the end: InvalidString.
EscapeInvalid ==
    /\ phase = "loop"
    /\ it # <<>> /\ Head(it) = Backslash
    /\ Len(it) < 2 \/ it[2] \notin {LowerX, LowerN}
    /\ phase' = "InvalidString"
    /\ it' = SubSeq(it, 3, Len(it))
    /\ UNCHANGED <<src, out>>

Finished == phase \notin {"start", "loop"}

Done == Finished /\ UNCHANGED vars

Next ==
    \/ ConsumeQuote \/ CloseQuote \/ PlainChar
    \/ EscapeHex \/ EscapeNewline \/ EscapeInvalid \/ Done

Spec == Init /\ [][Next]_vars
-----------------------------------------------------------------------------
\* The literal's meaning in spec.md 4.A and 7: escapes \\, \n and \xNN
\* (exactly two hex digits, one byte); any other escape is an error; other
\* characters stand for their UTF-8 bytes.  b is the text between the
\* quotes; the result is [ok, v] with v the bytes.

RECURSIVE SpecBytes(_)
SpecBytes(b) ==
    LET esc(bytes, k) ==
            LET r == SpecBytes(SubSeq(b, k + 1, Len(b)))
            IN  [ok |-> r.ok, v |-> bytes \o r.v]
    IN  CASE b = <<>> -> [ok |-> TRUE, v |-> <<>>]
          [] Head(b) # Backslash -> esc(Utf8(Head(b)), 1)
          [] Len(b) >= 2 /\ b[2] = Backslash -> esc(<<Backslash>>, 2)
          [] Len(b) >= 2 /\ b[2] = LowerN -> esc(<<Newline>>, 2)
          [] Len(b) >= 4 /\ b[2] = LowerX /\ HexDigit(b[3]) >= 0 /\ HexDigit(b[4]) >= 0
                -> esc(<<16 * HexDigit(b[3]) + HexDigit(b[4])>>, 4)
          [] OTHER -> [ok |-> FALSE, v |-> <<>>]

Body(s) == SubSeq(s, 2, Len(s) - 1)

\* The escapes the code is known to treat otherwise (see README): \\,
\* \xNN with NN >= 0x80, and \x followed by '+'.
RECURSIVE KnownDivergence(_)
KnownDivergence(b) ==
    CASE b = <<>> -> FALSE
      [] Head(b) # Backslash \/ Len(b) < 2 -> KnownDivergence(Tail(b))
      [] b[2] = Backslash -> TRUE
      [] b[2] = LowerX /\ Len(b) >= 3 /\ (b[3] = 43 \/ HexDigit(b[3]) >= 8) -> TRUE
      [] OTHER -> KnownDivergence(SubSeq(b, 3, Len(b)))

\* The parse agrees with the spec: it succeeds exactly when the spec's
\* decoding does, with the same bytes.  This is about every arm of the
\* escape handling in parse_string_literal.
ParsedMatchesSpec ==
    Finished =>
        LET r == SpecBytes(Body(src))
        IN  /\ (phase = "ok") = r.ok
            /\ phase = "ok" => out = r.v

\* The same agreement for every literal that uses none of the escapes the
\* code is known to decode differently: no other escape, plain character
\* or error path of parse_string_literal departs from the spec.
AgreesOutsideKnownDivergences ==
    ~KnownDivergence(Body(src)) => ParsedMatchesSpec
=============================================================================
