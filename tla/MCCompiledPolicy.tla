--------------------------- MODULE MCCompiledPolicy ---------------------------
(***************************************************************************)
(* Model-checking instance of CompiledPolicy.  Every policy has the same   *)
(* functions, finish function and command, and one action run(x) whose     *)
(* body is drawn from a generated set of expressions and statement shapes. *)
(***************************************************************************)
EXTENDS CompiledPolicy

X == IdentE("x")

\* function inc(y int) int { return y + 1 }
Inc == FunctionDef("inc", <<"y">>, <<ReturnS(BinE("Add", IdentE("y"), IntE(1)))>>)

\* function guard(p bool, q int) int { check p  return q }
Guard == FunctionDef("guard", <<"p", "q">>,
                     <<CheckS(IdentE("p")), ReturnS(IdentE("q"))>>)

\* finish function note(y int) { }
Note == FunctionDef("note", <<"y">>, <<>>)

\* command Post { policy { check true } }
Post == CommandDef("Post", {}, <<CheckS(BoolE(TRUE))>>)

\* effect Ev { v int }   struct Pt { a int, b int }
Ev == StructDef("Ev", {"v"})
Pt == StructDef("Pt", {"a", "b"})

RunAction(body) == FunctionDef("run", <<"x">>, body)

PolicyWith(acts) == StructPolicyOf(<<Ev>>, <<Pt>>, <<Inc, Guard>>, <<Note>>, <<Post>>, acts)

\* Operands: literals at the integer boundary, the argument, a call, and
\* the optional forms.
Atoms    == {IntE(0), IntE(1), BoolE(TRUE), NoneE, X}
Operands == Atoms \cup {CallE("inc", <<X>>), UnwrapE(X), SomeE(X)}

\* Calls that compile, and ones compile() must refuse: wrong arity, a
\* finish function in an expression, an unknown function.
Calls ==
    {CallE("inc", <<IntE(0)>>), CallE("guard", <<X, X>>),
     CallE("guard", <<BinE("GreaterThan", X, IntE(0)), X>>),
     CallE("inc", <<X, X>>), CallE("note", <<X>>), CallE("nope", <<>>)}

Binaries == {BinE(op, a, b) : op \in BinOps, a \in Operands,
                              b \in {X, IntE(1), NoneE, BoolE(TRUE)}}

Conds == {X, BinE("LessThanOrEqual", X, IntE(0)), BinE("NotEqual", X, NoneE)}
Ifs   == {IfE(c, t, f) : c \in Conds, t \in {IntE(0), UnwrapE(X)},
                         f \in {X, CallE("inc", <<X>>), IfE(X, IntE(1), NoneE)}}

\* Struct literals and member access: a full literal read back, a field
\* left unset, a field the definition does not declare (after and before a
\* panicking unwrap), an effect literal, an unknown struct name, a member of
\* a non-struct, struct and string equality.
PtOf(fs) == StructE("Pt", fs)
Structs ==
    {DotE(PtOf(<<<<"a", X>>, <<"b", IntE(1)>>>>), "a"),
     DotE(PtOf(<<<<"a", X>>>>), "b"),
     PtOf(<<<<"c", IntE(0)>>, <<"a", UnwrapE(X)>>>>),
     PtOf(<<<<"a", UnwrapE(X)>>, <<"c", IntE(0)>>>>),
     DotE(StructE("Ev", <<<<"v", CallE("inc", <<X>>)>>>>), "v"),
     StructE("Qq", <<>>),
     DotE(X, "a"),
     BinE("Equal", PtOf(<<<<"a", X>>>>), PtOf(<<<<"a", IntE(0)>>>>)),
     BinE("NotEqual", StringE("s"), StringE("t"))}

Exprs == Operands \cup Calls \cup Binaries \cup Ifs \cup Structs \cup {TodoE("Not")}

\* let r = E;  check E let r = x;  let r = E finish { note(r) }
Bodies ==
    {<<LetS("r", e)>> : e \in Exprs}
    \cup {<<CheckS(e), LetS("r", X)>> : e \in Exprs}
    \cup {<<LetS("r", e), FinishS(<<FinCallS("note", <<IdentE("r")>>)>>)>> :
              e \in Atoms \cup Calls}

MCPolicies == {PolicyWith(<<RunAction(b)>>) : b \in Bodies}

MCArgValues == {<<v>> : v \in {IntV(0), IntV(MaxInt), IntV(MinInt), BoolV(FALSE), NoneV}}

-----------------------------------------------------------------------------
\* Policies the spec calls well formed whose compilation fails: a function
\* called twice (its Temporary label is gone after the first call).
DoubleCallPolicies ==
    {PolicyWith(<<RunAction(<<LetS("r", BinE("Add", CallE("inc", <<X>>),
                                                    CallE("inc", <<X>>)))>>)>>),
     PolicyWith(<<RunAction(<<LetS("r", CallE("inc", <<X>>)),
                              LetS("s", CallE("inc", <<IdentE("r")>>))>>)>>)}

\* A function whose name is one anonymous_name generates (spec 4.A admits
\* it as an identifier): the if in run defines the label anonymous0 over
\* the function's, so the call to the function no longer links.
AnonymousNamePolicies ==
    {PolicyOf(<<FunctionDef("anonymous0", <<"y">>,
                            <<ReturnS(BinE("Add", IdentE("y"), IntE(1)))>>)>>, <<>>, <<>>,
              <<RunAction(<<LetS("r", IfE(X, CallE("anonymous0", <<X>>), IntE(0)))>>)>>)}

RejectedWellFormedPolicies == DoubleCallPolicies \cup AnonymousNamePolicies

\* A well-formed policy run by compile(): a policy the spec declares
\* well formed is accepted.
WellFormedCompiles == phase # "rejected"

\* An action that shares its name with a function (the spec: duplicate
\* names are AlreadyDefined).
NameClashPolicies ==
    {PolicyOf(<<Inc>>, <<>>, <<>>,
              <<RunAction(<<LetS("r", CallE("inc", <<X>>))>>),
                FunctionDef("inc", <<"y">>, <<LetS("z", IdentE("y"))>>)>>)}
=============================================================================
