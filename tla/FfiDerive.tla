------------------------------ MODULE FfiDerive ------------------------------
(***************************************************************************)
(* The #[ffi] derive (policy-derive/src/ffi.rs) and the FfiModule::call it *)
(* generates, driven the way the VM calls a foreign function (spec 4.F):   *)
(* the caller pushes one value per argument of the schema entry, in        *)
(* declaration order, and calls call(proc, stack).                         *)
(*                                                                         *)
(* An impl item is a record: name (the Rust name), nattrs (#[ffi_export]   *)
(* attributes), def (the parsed `def`, or NoDef), method (has &self), and  *)
(* params, the typed parameters after self: the first is the context, the  *)
(* others [pat, ty].  out is "unit" for -> () or the Rust result type.  A  *)
(* def is [id, args (vtypes), ret (a vtype, or "none" for finish)].  A     *)
(* value is [t, v]; the caller tags the k-th argument with v = k.  A      *)
(* struct value is [t |-> "Struct", v, name, fields]; the generated Rust   *)
(* struct of #[ffi(def = "struct S {...}")] is [t |-> S, v, fields].       *)
(***************************************************************************)
EXTENDS Naturals, Sequences, SequencesExt

CONSTANTS
    Impls,      \* the impl blocks #[ffi] may be applied to
    NoDef,      \* the def of an item without def = "..."
    MaxProc,    \* proc indexes tried: 0 .. MaxProc
    FfiStructs  \* the structs of the module's def: name -> [field -> vtype]

VARIABLES
    items,      \* the impl block's items
    phase,      \* "source", "derived", "rejected", "pushed", "returned", "failed"
    funcs,      \* the Func list parse collected (schema order)
    proc,       \* the proc index called
    base,       \* the caller's stack below the arguments
    stack,      \* the VM stack
    pushed,     \* the argument values the VM pushed
    received,   \* the arguments the Rust function was called with
    err         \* the error returned

vars == <<items, phase, funcs, proc, base, stack, pushed, received, err>>

Base == <<[t |-> "Bool", v |-> 0]>>

-----------------------------------------------------------------------------
(* Derive time.                                                            *)

\* Func::from_ast (with FfiExportAttr::new): res is "skip", "err" or "func".
FromAst(item) ==
    LET numSkip == IF item.method THEN 2 ELSE 1
        numIn   == Len(item.params) + (IF item.method THEN 1 ELSE 0)
        args    == SubSeq(item.params, 2, Len(item.params))
        Err     == [res |-> "err"]
    IN  CASE item.nattrs = 0                      -> [res |-> "skip"]
          [] item.nattrs > 1                      -> Err   \* used once
          [] item.def = NoDef                     -> Err   \* missing def
          [] numIn < numSkip                      -> Err   \* too few
          [] numIn - numSkip # Len(item.def.args) -> Err   \* count
          [] \E k \in DOMAIN args : args[k].pat # "ident" -> Err
          [] item.out = "unit" /\ item.def.ret # "none"   -> Err
          [] OTHER -> [res |-> "func", f |->
               [name |-> item.name, ext |-> item.def.id, method |-> item.method,
                args |-> [k \in DOMAIN args |-> [ty |-> args[k].ty, def |-> item.def.args[k]]],
                out |-> item.out, color |-> item.def.ret]]

\* parse: the Funcs in item order; an error, or a second Func with the
\* same ext_name (duplicate FFI function name), rejects the impl.
RECURSIVE Collect(_, _)
Collect(acc, rest) ==
    IF rest = <<>> THEN [ok |-> TRUE, fs |-> acc]
    ELSE LET r == FromAst(Head(rest))
         IN  CASE r.res = "skip" -> Collect(acc, Tail(rest))
               [] r.res = "err" -> [ok |-> FALSE]
               [] \E g \in Range(acc) : g.ext = r.f.ext -> [ok |-> FALSE]
               [] OTHER -> Collect(Append(acc, r.f), Tail(rest))

\* Mutant: the table lists a function's arguments last to first.
SchemaArgsReversed(fs) == [i \in DOMAIN fs |-> [name |-> fs[i].ext,
                                    args |-> Reverse([k \in DOMAIN fs[i].args |-> fs[i].args[k].def]),
                                    color |-> fs[i].color]]

\* SCHEMA.functions: name, the def's argument vtypes, color.
Schema(fs) == [i \in DOMAIN fs |-> [name |-> fs[i].ext,
                                    args |-> [k \in DOMAIN fs[i].args |-> fs[i].args[k].def],
                                    color |-> fs[i].color]]

-----------------------------------------------------------------------------
(* The generated struct conversions (ffi.rs, the `structs` of parse).     *)

Primitive == {"Int", "String", "Bool"}

\* impl From<S> for Value: Struct::new(stringify!(S), [KVPair(f, v.f.into())]).
StructFrom(rs) == [t |-> "Struct", v |-> rs.v, name |-> rs.t, fields |-> rs.fields]

\* The Value a Rust argument converts back to with into().
ValueOf(rv) == IF rv.t \in Primitive THEN rv ELSE StructFrom(rv)

\* Mutant: the fields are taken out but not converted to their Rust types.
StructTryFromUnconverted(S, val) ==
    LET decl == DOMAIN FfiStructs[S]
    IN  CASE val.t # "Struct" \/ val.name # S      -> [ok |-> FALSE, err |-> "InvalidType"]
          [] ~(decl \subseteq DOMAIN val.fields)    -> [ok |-> FALSE, err |-> "InvalidStructMember"]
          [] DOMAIN val.fields # decl              -> [ok |-> FALSE, err |-> "BadState"]
          [] OTHER -> [ok |-> TRUE, v |-> [t |-> S, v |-> val.v, fields |-> val.fields]]

\* impl TryFrom<Value> for S: a Struct named S; remove each declared field
\* (InvalidStructMember if absent); none may be left over (BadState); then
\* each field's TryFrom to its Rust type (InvalidType).
StructTryFrom(S, val) ==
    LET decl == DOMAIN FfiStructs[S]
    IN  CASE val.t # "Struct" \/ val.name # S      -> [ok |-> FALSE, err |-> "InvalidType"]
          [] ~(decl \subseteq DOMAIN val.fields)    -> [ok |-> FALSE, err |-> "InvalidStructMember"]
          [] DOMAIN val.fields # decl              -> [ok |-> FALSE, err |-> "BadState"]
          [] \E f \in decl : val.fields[f].t # FfiStructs[S][f]
                                                   -> [ok |-> FALSE, err |-> "InvalidType"]
          [] OTHER -> [ok |-> TRUE, v |-> [t |-> S, v |-> val.v, fields |-> val.fields]]

\* Stack::pop::<ty>: the value's TryFrom for the Rust type ty.
PopAs(ty, val) ==
    IF ty \in DOMAIN FfiStructs THEN StructTryFrom(ty, val)
    ELSE IF val.t = ty THEN [ok |-> TRUE, v |-> val]
    ELSE [ok |-> FALSE, err |-> "InvalidType"]

-----------------------------------------------------------------------------
(* Call time.                                                              *)

\* Mutant: the arguments are popped in declaration order.
PopArgsForward(f, s) ==
    LET n == Len(f.args)
        at(k) == Len(s) - k + 1
        popped(k) == PopAs(f.args[k].ty, s[at(k)])
        failAt == {k \in 1 .. n : at(k) < 1 \/ ~popped(k).ok}
        first  == Min(failAt)
    IN  IF failAt = {} THEN [ok |-> TRUE, args |-> [k \in 1 .. n |-> popped(k).v],
                             rest |-> SubSeq(s, 1, Len(s) - n)]
        ELSE [ok |-> FALSE, err |-> IF at(first) < 1 THEN "StackUnderflow"
                                    ELSE popped(first).err]

\* Mutant: the arguments are read but left on the stack.
PopArgsPeek(f, s) ==
    LET n == Len(f.args)
        at(k) == Len(s) - (n - k)
        popped(k) == PopAs(f.args[k].ty, s[at(k)])
        failAt == {k \in 1 .. n : at(k) < 1 \/ ~popped(k).ok}
        first  == Max(failAt)
    IN  IF failAt = {} THEN [ok |-> TRUE, args |-> [k \in 1 .. n |-> popped(k).v],
                             rest |-> s]
        ELSE [ok |-> FALSE, err |-> IF at(first) < 1 THEN "StackUnderflow"
                                    ELSE popped(first).err]

\* let __arg_k = Stack::pop::<ty_k>(stack)?, for k = n down to 1: the
\* first pop that finds the stack empty or a value it cannot convert fails.
PopArgs(f, s) ==
    LET n == Len(f.args)
        at(k) == Len(s) - (n - k)
        popped(k) == PopAs(f.args[k].ty, s[at(k)])
        failAt == {k \in 1 .. n : at(k) < 1 \/ ~popped(k).ok}
        first  == Max(failAt)
    IN  IF failAt = {} THEN [ok |-> TRUE, args |-> [k \in 1 .. n |-> popped(k).v],
                             rest |-> SubSeq(s, 1, Len(s) - n)]
        ELSE [ok |-> FALSE, err |-> IF at(first) < 1 THEN "StackUnderflow"
                                    ELSE popped(first).err]

TypeOK ==
    /\ phase \in {"source", "derived", "rejected", "pushed", "returned", "failed"}
    /\ items \in Impls
    /\ proc \in 0 .. MaxProc
    /\ \A k \in DOMAIN stack : stack[k].t \in Primitive \cup {"Struct"}

Init ==
    /\ items \in Impls
    /\ phase = "source"
    /\ funcs = <<>> /\ proc = 0 /\ base = Base /\ stack = Base
    /\ pushed = <<>> /\ received = <<>> /\ err = "none"

\* The attribute macro runs: parse either emits the module or an error.
Derive ==
    /\ phase = "source"
    /\ LET r == Collect(<<>>, items)
       IN  IF ~r.ok THEN phase' = "rejected" /\ UNCHANGED funcs
           ELSE phase' = "derived" /\ funcs' = r.fs
    /\ UNCHANGED <<items, proc, base, stack, pushed, received, err>>

\* The values the VM may pass as the k-th argument of vtype vt.  A struct
\* comes from a struct literal: compile() checks only its name, and the VM
\* only that each member set is declared, so any declared fields may be
\* missing and any may hold a value of another type.
ArgValues(vt, k) ==
    IF vt \in DOMAIN FfiStructs
    THEN UNION {{[t |-> "Struct", v |-> k, name |-> nm, fields |-> fs] :
                    fs \in UNION {[D -> {[t |-> p, v |-> 0] : p \in Primitive}] :
                                    D \in SUBSET DOMAIN FfiStructs[nm]}} :
                nm \in DOMAIN FfiStructs}
    ELSE {[t |-> vt, v |-> k]}

RECURSIVE ArgVectors(_)
ArgVectors(ss) == IF ss = <<>> THEN {<<>>}
               ELSE {<<x>> \o rest : x \in Head(ss), rest \in ArgVectors(Tail(ss))}

\* The VM pushes the arguments of schema entry i (or of none, for an index
\* past the table) in declaration order.
PushArgs ==
    /\ phase = "derived"
    /\ \E i \in 0 .. MaxProc :
          LET sch == Schema(funcs)
          IN  \E vs \in IF i < Len(funcs)
                        THEN ArgVectors([k \in DOMAIN sch[i + 1].args |->
                                         ArgValues(sch[i + 1].args[k], k)])
                        ELSE {<<>>} :
                /\ proc' = i
                /\ pushed' = vs
                /\ stack' = base \o vs
    /\ phase' = "pushed"
    /\ UNCHANGED <<items, funcs, base, received, err>>

\* Mutant: the result is pushed whenever the Rust function returns a
\* value, whatever the def's color.
CallByReturnType ==
    /\ phase = "pushed"
    /\ IF proc >= Len(funcs)
       THEN phase' = "failed" /\ err' = "FfiProcedureNotDefined" /\ UNCHANGED <<stack, received>>
       ELSE LET f == funcs[proc + 1]
                p == PopArgs(f, stack)
            IN  IF ~p.ok
                THEN phase' = "failed" /\ err' = p.err /\ UNCHANGED <<stack, received>>
                ELSE /\ received' = p.args
                     /\ \/ /\ phase' = "returned" /\ err' = "none"
                           /\ stack' = IF f.out = "unit" THEN p.rest
                                       ELSE Append(p.rest, [t |-> f.out, v |-> 0])
                        \/ /\ f.out # "unit"
                           /\ phase' = "failed" /\ err' = "Err" /\ stack' = p.rest
    /\ UNCHANGED <<items, funcs, proc, base, pushed>>

\* FfiModule::call(proc, stack, ctx): map proc to its __Func variant
\* (FfiProcedureNotDefined past the table), pop the arguments, call the
\* function (a function with a Result type may return Err), and push the
\* result of a Pure function.
Call ==
    /\ phase = "pushed"
    /\ IF proc >= Len(funcs)
       THEN phase' = "failed" /\ err' = "FfiProcedureNotDefined" /\ UNCHANGED <<stack, received>>
       ELSE LET f == funcs[proc + 1]
                p == PopArgs(f, stack)
            IN  IF ~p.ok
                THEN phase' = "failed" /\ err' = p.err /\ UNCHANGED <<stack, received>>
                ELSE /\ received' = p.args
                     /\ \/ /\ phase' = "returned" /\ err' = "none"
                           /\ stack' = IF f.color = "none" THEN p.rest
                                       ELSE Append(p.rest, [t |-> f.out, v |-> 0])
                        \/ /\ f.out # "unit"
                           /\ phase' = "failed" /\ err' = "Err" /\ stack' = p.rest
    /\ UNCHANGED <<items, funcs, proc, base, pushed>>

Done == phase \in {"rejected", "returned", "failed"} /\ UNCHANGED vars

Next == Derive \/ PushArgs \/ Call \/ Done

Spec == Init /\ [][Next]_vars
-----------------------------------------------------------------------------

\* The foreign function receives the arguments in the order the policy
\* wrote them: the value pushed k-th arrives as its k-th argument, for
\* every function of every accepted impl (ffi.rs pops in reverse).
ArgsInDeclarationOrder ==
    phase = "returned" => \A k \in DOMAIN received : received[k].v = k

\* A call leaves the caller's stack as the schema says: the arguments are
\* consumed, and a Pure function's result of its declared type is on top.
StackEffect ==
    phase = "returned" =>
        LET sch == Schema(funcs)[proc + 1]
        IN  stack = base \o (IF sch.color = "none" THEN <<>>
                             ELSE <<[t |-> sch.color, v |-> 0]>>)

\* A value of the schema's vtype: a struct with exactly its declared
\* fields, each of the declared type.
OfSchemaType(val, vt) ==
    IF vt \in DOMAIN FfiStructs
    THEN /\ val.t = "Struct" /\ val.name = vt
         /\ DOMAIN val.fields = DOMAIN FfiStructs[vt]
         /\ \A f \in DOMAIN val.fields : val.fields[f].t = FfiStructs[vt][f]
    ELSE val.t = vt

\* A call whose arguments have the types the schema declares does not fail
\* on converting them (spec 6: the schema is the module's wire contract).
CallAcceptsSchemaTypes ==
    (phase = "failed" /\ \A k \in DOMAIN pushed :
                            OfSchemaType(pushed[k], Schema(funcs)[proc + 1].args[k]))
        => err \notin {"InvalidType", "InvalidStructMember", "BadState"}

\* Every argument the foreign function receives is a value of its Rust
\* parameter type (a generated struct has each of its fields, of its field
\* type), and converting it back with into() gives exactly the value the
\* policy pushed: the generated TryFrom neither drops nor alters a struct.
StructArgsExact ==
    phase = "returned" =>
        \A k \in DOMAIN received :
            LET ty == funcs[proc + 1].args[k].ty
                rv == received[k]
            IN  /\ ValueOf(rv) = pushed[k]
                /\ ty \in DOMAIN FfiStructs =>
                      \A f \in DOMAIN FfiStructs[ty] : rv.fields[f].t = FfiStructs[ty][f]
====
