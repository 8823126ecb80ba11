---------------------------- MODULE PolicyCompiler ----------------------------
(***************************************************************************)
(* CompileState of policy-lang/src/machine/compile.rs.                     *)
(*                                                                         *)
(* The compiler is a deterministic function of the AST, so it is modelled  *)
(* as operators over a compile-state record                                *)
(*    [pm, c, labels, sigs, structs, err, fentry]                          *)
(* pm is Machine::progmem (the write pointer wp is always Len(pm): both    *)
(* start at zero and append_instruction increments both), c the anonymous  *)
(* label counter, labels Machine::labels, sigs function_signatures,        *)
(* structs Machine::struct_defs (name to field names), err the first      *)
(* CompileError                                                            *)
(* returned through `?` ("none" while compilation succeeds, "todo" when    *)
(* compile.rs reaches todo!() and the process panics).  fentry is a ghost: *)
(* the address at which each function definition was compiled, kept only  *)
(* so that properties can say where a call ought to land.                  *)
(*                                                                         *)
(* Addresses are the code's 0-based indexes: the instruction at address a  *)
(* is pm[a + 1].                                                           *)
(***************************************************************************)
EXTENDS Integers, Sequences, SequencesExt, PolicyAst

NoError == "none"

\* machine::Value, as far as the compiler produces values.
IntV(n)  == [t |-> "Int", v |-> n]
BoolV(b) == [t |-> "Bool", v |-> b]
StrV(s)  == [t |-> "String", v |-> s]
NoneV    == [t |-> "None", v |-> "None"]

\* machine::Target and machine::Instruction
Unresolved(name) == [kind |-> "Unresolved", name |-> name, addr |-> -1]
Resolved(a)      == [kind |-> "Resolved", name |-> "", addr |-> a]
Instr(op)        == [op |-> op, arg |-> "none"]
ConstI(v)        == [op |-> "Const", arg |-> v]
TargetI(op, t)   == [op |-> op, arg |-> t]
DupI(n)          == [op |-> "Dup", arg |-> n]
SwapI(n)         == [op |-> "Swap", arg |-> n]
TargetOps        == {"Branch", "Jump", "Call"}

\* The instruction each simple binary AST operator is lowered to.
BinaryInstr == [Add |-> "Add", Subtract |-> "Sub", And |-> "And", Or |-> "Or",
                Equal |-> "Eq", GreaterThan |-> "Gt", LessThan |-> "Lt"]

\* CompileState::new over an empty Machine.
InitialCompileState ==
    [pm |-> <<>>, c |-> 0, labels |-> <<>>, sigs |-> <<>>, structs |-> <<>>,
     err |-> NoError, fentry |-> <<>>]

\* Return the first error; later errors never overwrite it (`?`).
Fail(cs, e) == IF cs.err = NoError THEN [cs EXCEPT !.err = e] ELSE cs

\* append_instruction: push onto progmem and advance wp.
AppendInstruction(cs, i) == [cs EXCEPT !.pm = Append(@, i)]

AppendAll(cs, is) == [cs EXCEPT !.pm = @ \o is]

\* A map insert: BTreeMap::insert overwrites an existing key.
MapInsert(m, key, val) ==
    [n \in DOMAIN m \cup {key} |-> IF n = key THEN val ELSE m[n]]

\* define_struct: struct_defs.insert(name, fields), overwriting.
DefineStruct(cs, name, fields) == [cs EXCEPT !.structs = MapInsert(@, name, fields)]

\* define_label: labels.insert(identifier, Label { addr, ltype })
DefineLabel(cs, name, addr, ltype) ==
    [cs EXCEPT !.labels = MapInsert(@, name, [addr |-> addr, ltype |-> ltype])]

\* anonymous_name: format!("anonymous{}", c), then c += 1.  The name is
\* returned by AnonymousName and the increment is NextAnonymous.
AnonymousName(cs) == "anonymous" \o ToString(cs.c)
NextAnonymous(cs) == [cs EXCEPT !.c = @ + 1]

\* define_function_signature / define_finish_function_signature: a
\* vacant entry is filled, an occupied one is AlreadyDefined.  Only the
\* number of argument types is kept: call sites compare lengths only.
DefineSignature(cs, name, nargs, color) ==
    IF name \in DOMAIN cs.sigs THEN Fail(cs, "AlreadyDefined")
    ELSE [cs EXCEPT !.sigs = MapInsert(@, name, [nargs |-> nargs, color |-> color])]

\* The Const(name); Def pairs that bind arguments, last argument first.
ArgDefs(args) ==
    LET r == Reverse(args)
    IN  [i \in 1..2 * Len(r) |->
            IF i % 2 = 1 THEN ConstI(StrV(r[(i + 1) \div 2])) ELSE Instr("Def")]

-----------------------------------------------------------------------------
\* compile_expression and compile_statements (mutually recursive).

RECURSIVE CompileExpression(_, _), CompileExpressions(_, _),
          CompileStatements(_, _), CompileFinishStatements(_, _),
          CompileStructFields(_, _), CompileStructFieldsNameFirst(_, _)

\* The arguments of a call, compiled left to right.
CompileExpressions(cs, es) ==
    IF es = <<>> THEN cs
    ELSE CompileExpressions(CompileExpression(cs, Head(es)), Tail(es))

\* Mutant: the field name is pushed before the field's value.
CompileStructFieldsNameFirst(cs, fs) ==
    IF fs = <<>> THEN cs
    ELSE CompileStructFieldsNameFirst(
             AppendInstruction(CompileExpression(AppendInstruction(cs, ConstI(StrV(Head(fs)[1]))),
                                                 Head(fs)[2]),
                               Instr("StructSet")),
             Tail(fs))

\* compile_struct_literal's loop: for each field in source order, its
\* value, Const(field name), StructSet.
CompileStructFields(cs, fs) ==
    IF fs = <<>> THEN cs
    ELSE CompileStructFields(
             AppendAll(CompileExpression(cs, Head(fs)[2]),
                       <<ConstI(StrV(Head(fs)[1])), Instr("StructSet")>>),
             Tail(fs))

\* compile_struct_literal: only the struct's name is checked here (fields
\* are validated at run time), then Const(name) StructNew and the fields.
CompileStructLiteral(cs, e) ==
    IF e.name \notin DOMAIN cs.structs THEN Fail(cs, "BadArgument")
    ELSE CompileStructFields(AppendAll(cs, <<ConstI(StrV(e.name)), Instr("StructNew")>>),
                             e.fields)

\* Expression::If: condition, Branch to the then-code, else-code, Jump to
\* the end; both labels Temporary.
CompileIf(cs, e) ==
    LET elseName == AnonymousName(cs)
        endName  == AnonymousName(NextAnonymous(cs))
        s1 == CompileExpression(NextAnonymous(NextAnonymous(cs)), e.cond)
        s2 == AppendInstruction(s1, TargetI("Branch", Unresolved(elseName)))
        s3 == CompileExpression(s2, e.else)
        s4 == AppendInstruction(s3, TargetI("Jump", Unresolved(endName)))
        s5 == DefineLabel(s4, elseName, Len(s4.pm), "Temporary")
        s6 == CompileExpression(s5, e.then)
    IN  DefineLabel(s6, endName, Len(s6.pm), "Temporary")

\* Mutant: the call site does not compare the argument count.
CompileCallNoArity(cs, e) ==
    CASE e.f \notin DOMAIN cs.sigs              -> Fail(cs, "NotDefined")
      [] cs.sigs[e.f].color = "Finish"          -> Fail(cs, "InvalidElement")
      [] OTHER -> AppendInstruction(CompileExpressions(cs, e.args),
                                    TargetI("Call", Unresolved(e.f)))

\* Expression::FunctionCall: the callee must be a defined pure function of
\* the same arity; arguments are pushed in order, then Call(name).
CompileCall(cs, e) ==
    CASE e.f \notin DOMAIN cs.sigs              -> Fail(cs, "NotDefined")
      [] cs.sigs[e.f].color = "Finish"          -> Fail(cs, "InvalidElement")
      [] cs.sigs[e.f].nargs # Len(e.args)       -> Fail(cs, "BadArgument")
      [] OTHER -> AppendInstruction(CompileExpressions(cs, e.args),
                                    TargetI("Call", Unresolved(e.f)))

\* Mutant: the Swap(1) that restores the operand order is missing.
CompileCompareNoSwap(cs, e) ==
    LET s == CompileExpression(CompileExpression(cs, e.a), e.b)
        cmp == IF e.k = "GreaterThanOrEqual" THEN "Gt" ELSE "Lt"
    IN  AppendAll(s, <<DupI(1), DupI(1), Instr("Eq"), SwapI(2),
                       Instr(cmp), Instr("Or")>>)

\* GreaterThanOrEqual / LessThanOrEqual: a b Dup(1) Dup(1) Eq Swap(2)
\* Swap(1) Gt|Lt Or, computing (a == b) || (a > b) from one evaluation.
CompileCompare(cs, e) ==
    LET s == CompileExpression(CompileExpression(cs, e.a), e.b)
        cmp == IF e.k = "GreaterThanOrEqual" THEN "Gt" ELSE "Lt"
    IN  AppendAll(s, <<DupI(1), DupI(1), Instr("Eq"), SwapI(2), SwapI(1),
                       Instr(cmp), Instr("Or")>>)

\* Mutant: the not-None label is defined before the test instead of after
\* the Panic.
CompileUnwrapEarlyLabel(cs, e) ==
    LET okName == AnonymousName(cs)
        s1 == CompileExpression(NextAnonymous(cs), e.e)
        s2 == AppendAll(s1, <<DupI(0), ConstI(NoneV), Instr("Eq"), Instr("Not"),
                              TargetI("Branch", Unresolved(okName)), Instr("Panic")>>)
    IN  DefineLabel(s2, okName, Len(s1.pm), "Temporary")

\* Expression::Unwrap: Dup(0) Const(None) Eq Not Branch(ok) Panic ok:
CompileUnwrap(cs, e) ==
    LET okName == AnonymousName(cs)
        s1 == CompileExpression(NextAnonymous(cs), e.e)
        s2 == AppendAll(s1, <<DupI(0), ConstI(NoneV), Instr("Eq"), Instr("Not"),
                              TargetI("Branch", Unresolved(okName)), Instr("Panic")>>)
    IN  DefineLabel(s2, okName, Len(s2.pm), "Temporary")

CompileExpression(cs, e) ==
    IF cs.err # NoError THEN cs ELSE
    CASE e.k = "Int"    -> AppendInstruction(cs, ConstI(IntV(e.n)))
      [] e.k = "String" -> AppendInstruction(cs, ConstI(StrV(e.s)))
      [] e.k = "Bool"   -> AppendInstruction(cs, ConstI(BoolV(e.b)))
      [] e.k = "None"   -> AppendInstruction(cs, ConstI(NoneV))
      [] e.k = "Some"   -> CompileExpression(cs, e.e)
      [] e.k = "NamedStruct" -> CompileStructLiteral(cs, e)
      [] e.k = "Bind"   -> Fail(cs, "InvalidElement")
      [] e.k = "If"     -> CompileIf(cs, e)
      [] e.k = "FunctionCall" -> CompileCall(cs, e)
      [] e.k = "Ident"  -> AppendAll(cs, <<ConstI(StrV(e.name)), Instr("Get")>>)
      [] e.k = "Dot"    -> AppendAll(CompileExpression(cs, e.e),
                                     <<ConstI(StrV(e.f)), Instr("StructGet")>>)
      [] e.k \in SimpleBinOps ->
             AppendInstruction(CompileExpression(CompileExpression(cs, e.a), e.b),
                               Instr(BinaryInstr[e.k]))
      [] e.k \in CompareOps -> CompileCompare(cs, e)
      [] e.k = "NotEqual" ->
             AppendAll(CompileExpression(CompileExpression(cs, e.a), e.b),
                       <<Instr("Eq"), Instr("Not")>>)
      [] e.k = "Unwrap" -> CompileUnwrap(cs, e)
      [] e.k \in TodoKinds -> Fail(cs, "todo")

\* One ast::Statement.  Check branches over the Panic to wp + 2.
CompileStatement(cs, s) ==
    CASE s.k = "Let" ->
            AppendAll(CompileExpression(cs, s.e),
                      <<ConstI(StrV(s.name)), Instr("Def")>>)
      [] s.k = "Check" ->
            LET s1 == CompileExpression(cs, s.e)
            IN  AppendAll(s1, <<TargetI("Branch", Resolved(Len(s1.pm) + 2)),
                                Instr("Panic")>>)
      [] s.k = "Emit"   -> AppendInstruction(CompileExpression(cs, s.e), Instr("Emit"))
      [] s.k = "Return" -> AppendInstruction(CompileExpression(cs, s.e), Instr("Return"))
      [] s.k = "Finish" -> CompileFinishStatements(cs, s.body)
      [] s.k \in {"Match", "When"} -> Fail(cs, "todo")

CompileStatements(cs, ss) ==
    IF ss = <<>> \/ cs.err # NoError THEN cs
    ELSE CompileStatements(CompileStatement(cs, Head(ss)), Tail(ss))

\* One ast::FinishStatement: effects and finish-function calls (only
\* finish functions are allowed in finish blocks).
CompileFinishStatement(cs, s) ==
    CASE s.k = "Effect" -> AppendInstruction(CompileExpression(cs, s.e), Instr("Effect"))
      [] s.k = "FunctionCall" ->
            CASE s.f \notin DOMAIN cs.sigs           -> Fail(cs, "NotDefined")
              [] cs.sigs[s.f].color # "Finish"       -> Fail(cs, "InvalidElement")
              [] cs.sigs[s.f].nargs # Len(s.args)    -> Fail(cs, "BadArgument")
              [] OTHER -> AppendInstruction(CompileExpressions(cs, s.args),
                                            TargetI("Call", Unresolved(s.f)))

CompileFinishStatements(cs, ss) ==
    IF ss = <<>> \/ cs.err # NoError THEN cs
    ELSE CompileFinishStatements(CompileFinishStatement(cs, Head(ss)), Tail(ss))

-----------------------------------------------------------------------------
\* Top-level definitions.

\* Records where a function's code starts (ghost, see the header).
NoteEntry(cs, name) == [cs EXCEPT !.fentry = MapInsert(@, name, Len(cs.pm))]

\* compile_function: Temporary label, signature, argument Defs, body; a
\* body without any Return instruction is NoReturn; a trailing Panic
\* catches execution that falls off the end.
CompileFunction(cs, fd) ==
    IF cs.err # NoError THEN cs ELSE
    LET s1 == DefineSignature(DefineLabel(NoteEntry(cs, fd.name), fd.name,
                                          Len(cs.pm), "Temporary"),
                              fd.name, Len(fd.args), "Pure")
        s2 == AppendAll(s1, ArgDefs(fd.args))
        s3 == CompileStatements(s2, fd.body)
    IN  CASE s3.err # NoError -> s3
          [] ~\E i \in Len(s2.pm) + 1 .. Len(s3.pm) : s3.pm[i].op = "Return"
                                  -> Fail(s3, "NoReturn")
          [] OTHER                -> AppendInstruction(s3, Instr("Panic"))

\* compile_finish_function: as above, with a Return appended.
CompileFinishFunction(cs, fd) ==
    IF cs.err # NoError THEN cs ELSE
    LET s1 == DefineSignature(DefineLabel(NoteEntry(cs, fd.name), fd.name,
                                          Len(cs.pm), "Temporary"),
                              fd.name, Len(fd.args), "Finish")
        s2 == CompileFinishStatements(AppendAll(s1, ArgDefs(fd.args)), fd.body)
    IN  AppendInstruction(s2, Instr("Return"))

\* compile_action: Action label, argument Defs, body, Exit.
CompileAction(cs, ad) ==
    IF cs.err # NoError THEN cs ELSE
    LET s1 == AppendAll(DefineLabel(cs, ad.name, Len(cs.pm), "Action"), ArgDefs(ad.args))
    IN  AppendInstruction(CompileStatements(s1, ad.body), Instr("Exit"))

\* compile_command: struct for the command fields, Command label, the
\* policy block, Exit.
CompileCommand(cs, cd) ==
    IF cs.err # NoError THEN cs ELSE
    LET s1 == DefineLabel(DefineStruct(cs, cd.name, cd.fields), cd.name, Len(cs.pm), "Command")
    IN  AppendInstruction(CompileStatements(s1, cd.policy), Instr("Exit"))

-----------------------------------------------------------------------------
\* Linking.

\* resolve_target: an unresolved name is looked up (BadTarget if absent)
\* and a Temporary label is removed once it has been used.
ResolveTarget(t, labels) ==
    CASE t.kind = "Resolved"       -> [t |-> t, labels |-> labels, err |-> NoError]
      [] t.name \notin DOMAIN labels -> [t |-> t, labels |-> labels, err |-> "BadTarget"]
      [] OTHER ->
           [t |-> Resolved(labels[t.name].addr),
            labels |-> IF labels[t.name].ltype = "Temporary"
                       THEN Restrict(labels, DOMAIN labels \ {t.name})
                       ELSE labels,
            err |-> NoError]

\* resolve_targets: walk progmem in address order.
RECURSIVE ResolveFrom(_, _)
ResolveFrom(cs, i) ==
    CASE cs.err # NoError \/ i > Len(cs.pm) -> cs
      [] cs.pm[i].op \in TargetOps ->
           LET r == ResolveTarget(cs.pm[i].arg, cs.labels)
           IN  IF r.err # NoError THEN Fail(cs, r.err)
               ELSE ResolveFrom([cs EXCEPT !.pm[i].arg = r.t, !.labels = r.labels], i + 1)
      [] OTHER -> ResolveFrom(cs, i + 1)

ResolveTargets(cs) == ResolveFrom(cs, 1)

\* compile: effect and struct definitions into struct_defs, then
\* functions, finish functions, commands, actions (Lower), then link
\* (ResolveTargets).
Lower(policy) ==
    LET s0 == FoldLeft(LAMBDA cs, d : DefineStruct(cs, d.name, d.fields),
                       InitialCompileState, policy.effects \o policy.structs)
        s1 == FoldLeft(CompileFunction, s0, policy.functions)
        s2 == FoldLeft(CompileFinishFunction, s1, policy.finish_functions)
        s3 == FoldLeft(CompileCommand, s2, policy.commands)
    IN  FoldLeft(CompileAction, s3, policy.actions)

Compile(policy) == ResolveTargets(Lower(policy))
=============================================================================
