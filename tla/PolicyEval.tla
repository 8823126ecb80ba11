------------------------------ MODULE PolicyEval ------------------------------
(***************************************************************************)
(* Reference meaning of a policy, taken from spec.md (4.C, 4.D, 4.E and    *)
(* section 7), against which the compiled code is checked: expressions    *)
(* are evaluated left to right, an operand's failure is the expression's   *)
(* failure, `unwrap` of None and a failed `check` are panics, type errors  *)
(* and integer overflow are machine errors, a pure function yields the     *)
(* value of its first `return`.  The outcome of an evaluation is           *)
(*    [st |-> "ok" | "panic" | "error", v |-> value, env |-> locals].      *)
(***************************************************************************)
EXTENDS PolicyVM

Res(st, v, env) == [st |-> st, v |-> v, env |-> env]

\* The definition of a pure function named f (the first one).
FunctionNamed(pol, f) ==
    pol.functions[CHOOSE i \in DOMAIN pol.functions :
                      /\ pol.functions[i].name = f
                      /\ \A j \in 1 .. i - 1 : pol.functions[j].name # f]

\* The value of a binary operator, or an error, once both operands are
\* known.  >= and <= are Int-only comparisons; != is negated equality.
ApplyBin(op, a, b) ==
    CASE op \in {"Add", "Subtract"} -> Arith(IF op = "Add" THEN "Add" ELSE "Sub", a, b)
      [] op \in {"And", "Or"}       -> Logic(op, a, b)
      [] op = "Equal"               -> EqValues(a, b)
      [] op = "NotEqual"            -> LET r == EqValues(a, b)
                                       IN  IF r.ok THEN Ok(BoolV(~r.v.v)) ELSE r
      [] op = "GreaterThan"         -> Compare("Gt", a, b)
      [] op = "LessThan"            -> Compare("Lt", a, b)
      [] op \in CompareOps ->
            IF a.t # "Int" \/ b.t # "Int" THEN Err("InvalidType")
            ELSE Ok(BoolV(IF op = "GreaterThanOrEqual" THEN a.v >= b.v ELSE a.v <= b.v))

\* The field names a struct, effect or command definition of the policy
\* declares for name.
DeclaredFields(pol, name) ==
    UNION {d.fields : d \in {d \in Range(pol.effects \o pol.structs \o pol.commands) :
                                d.name = name}}

RECURSIVE Eval(_, _, _), EvalList(_, _, _), EvalBody(_, _, _), EvalFields(_, _, _, _, _)

\* A struct literal's fields, left to right: each value is evaluated and
\* then stored, which fails for a field the definition does not declare.
EvalFields(fs, sv, env, pol, name) ==
    IF fs = <<>> THEN Res("ok", sv, env)
    ELSE LET r == Eval(Head(fs)[2], env, pol)
         IN  CASE r.st # "ok" -> r
               [] Head(fs)[1] \notin DeclaredFields(pol, name) -> Res("error", NoneV, env)
               [] OTHER -> EvalFields(Tail(fs),
                               StructV(name, MapInsert(sv.v.fields, Head(fs)[1], r.v)),
                               env, pol, name)

\* Evaluate a list of expressions left to right; v is the list of values.
EvalList(es, env, pol) ==
    IF es = <<>> THEN Res("ok", <<>>, env)
    ELSE LET h == Eval(Head(es), env, pol)
         IN  IF h.st # "ok" THEN h
             ELSE LET t == EvalList(Tail(es), env, pol)
                  IN  IF t.st # "ok" THEN t ELSE Res("ok", <<h.v>> \o t.v, env)

\* Run a statement list; v is the returned value, env the final locals.
\* A finish block only evaluates the arguments of its finish-function
\* calls: the modelled finish functions have no effect on the locals.
EvalBody(ss, env, pol) ==
    IF ss = <<>> THEN Res("panic", NoneV, env)     \* fell off the end
    ELSE LET s == Head(ss)
             r == IF s.k = "Finish"
                  THEN EvalList(FlattenSeq([i \in DOMAIN s.body |-> s.body[i].args]), env, pol)
                  ELSE Eval(s.e, env, pol)
         IN  CASE r.st # "ok"  -> r
               [] s.k = "Return" -> Res("ok", r.v, env)
               [] s.k = "Let"    -> EvalBody(Tail(ss), MapInsert(env, s.name, r.v), pol)
               [] s.k = "Finish" -> EvalBody(Tail(ss), env, pol)
               [] s.k = "Check"  ->
                     CASE r.v.t # "Bool" -> Res("error", NoneV, env)
                       [] r.v.v          -> EvalBody(Tail(ss), env, pol)
                       [] OTHER          -> Res("panic", NoneV, env)

Eval(e, env, pol) ==
    CASE e.k = "Int"   -> Res("ok", IntV(e.n), env)
      [] e.k = "String" -> Res("ok", StrV(e.s), env)
      [] e.k = "NamedStruct" -> EvalFields(e.fields, StructV(e.name, <<>>), env, pol, e.name)
      [] e.k = "Dot" ->
            LET r == Eval(e.e, env, pol)
            IN  CASE r.st # "ok"                   -> r
                  [] r.v.t # "Struct"              -> Res("error", NoneV, env)
                  [] e.f \notin DOMAIN r.v.v.fields -> Res("error", NoneV, env)
                  [] OTHER -> Res("ok", r.v.v.fields[e.f], env)
      [] e.k = "Bool"  -> Res("ok", BoolV(e.b), env)
      [] e.k = "None"  -> Res("ok", NoneV, env)
      [] e.k = "Some"  -> Eval(e.e, env, pol)
      [] e.k = "Ident" -> IF e.name \in DOMAIN env THEN Res("ok", env[e.name], env)
                          ELSE Res("error", NoneV, env)
      [] e.k \in BinOps ->
            LET ab == EvalList(<<e.a, e.b>>, env, pol)
                r  == ApplyBin(e.k, ab.v[1], ab.v[2])
            IN  CASE ab.st # "ok" -> ab
                  [] r.ok         -> Res("ok", r.v, env)
                  [] OTHER        -> Res("error", NoneV, env)
      [] e.k = "If" ->
            LET c == Eval(e.cond, env, pol)
            IN  CASE c.st # "ok"     -> c
                  [] c.v.t # "Bool"  -> Res("error", NoneV, env)
                  [] c.v.v           -> Eval(e.then, env, pol)
                  [] OTHER           -> Eval(e.else, env, pol)
      [] e.k = "Unwrap" ->
            LET r == Eval(e.e, env, pol)
            IN  CASE r.st # "ok"    -> r
                  [] r.v = NoneV    -> Res("panic", NoneV, env)
                  [] OTHER          -> r
      [] e.k = "FunctionCall" ->
            LET as == EvalList(e.args, env, pol)
                fd == FunctionNamed(pol, e.f)
                r  == EvalBody(fd.body, [i \in {fd.args[j] : j \in DOMAIN fd.args} |->
                                  as.v[CHOOSE j \in DOMAIN fd.args : fd.args[j] = i]], pol)
            IN  IF as.st # "ok" THEN as ELSE Res(r.st, r.v, env)

\* An action body run with its arguments bound: the outcome of its
\* statements and the locals it ends with (an action has no return, so
\* reaching its end is success).
EvalAction(ad, argv, pol) ==
    LET env0 == [i \in {ad.args[j] : j \in DOMAIN ad.args} |->
                    argv[CHOOSE j \in DOMAIN ad.args : ad.args[j] = i]]
        r == EvalBody(Append(ad.body, ReturnS(BoolE(TRUE))), env0, pol)
    IN  r
=============================================================================
