------------------------------ MODULE PolicyAst ------------------------------
(***************************************************************************)
(* The fragment of the policy AST (ast::Expression, ast::Statement,        *)
(* ast::FinishStatement and the top-level definitions of ast::Policy) that *)
(* the compiler in policy-lang/src/machine/compile.rs lowers.  Every node  *)
(* is a record whose field k names the AST variant.  Identifiers are       *)
(* strings, because the compiler keys labels by the identifier text and    *)
(* anonymous labels are generated text.                                    *)
(***************************************************************************)
EXTENDS Integers, Sequences

\* ast::Expression
IntE(n)        == [k |-> "Int", n |-> n]
StringE(s)     == [k |-> "String", s |-> s]
BoolE(b)       == [k |-> "Bool", b |-> b]
NoneE          == [k |-> "None"]
SomeE(e)       == [k |-> "Some", e |-> e]
IdentE(x)      == [k |-> "Ident", name |-> x]
BindE          == [k |-> "Bind"]
BinE(op, a, b) == [k |-> op, a |-> a, b |-> b]
IfE(c, t, f)   == [k |-> "If", cond |-> c, then |-> t, else |-> f]
UnwrapE(e)     == [k |-> "Unwrap", e |-> e]
CallE(f, args) == [k |-> "FunctionCall", f |-> f, args |-> args]
\* A struct literal's fields are a sequence of <<field name, expression>>.
StructE(name, fields) == [k |-> "NamedStruct", name |-> name, fields |-> fields]
DotE(e, f)     == [k |-> "Dot", e |-> e, f |-> f]
\* Negative, Not, Is, Id and AuthorId: parsed, but compile.rs has todo!()
TodoE(kind)    == [k |-> kind]

\* The binary operators compile_expression lowers to one instruction each,
\* and the ones it lowers to instruction sequences.
SimpleBinOps  == {"Add", "Subtract", "And", "Or", "Equal", "GreaterThan", "LessThan"}
CompareOps    == {"GreaterThanOrEqual", "LessThanOrEqual"}
BinOps        == SimpleBinOps \cup CompareOps \cup {"NotEqual"}
TodoKinds     == {"Negative", "Not", "Is", "Id", "AuthorId"}

\* ast::Statement and ast::FinishStatement
LetS(x, e)     == [k |-> "Let", name |-> x, e |-> e]
CheckS(e)      == [k |-> "Check", e |-> e]
ReturnS(e)     == [k |-> "Return", e |-> e]
FinishS(body)  == [k |-> "Finish", body |-> body]
EffectS(e)     == [k |-> "Effect", e |-> e]
FinCallS(f, args) == [k |-> "FunctionCall", f |-> f, args |-> args]

\* Top-level definitions: struct and effect definitions (their field
\* names), functions, finish functions, commands (their fields and policy
\* block), actions.
StructDef(name, fields)       == [name |-> name, fields |-> fields]
FunctionDef(name, args, body) == [name |-> name, args |-> args, body |-> body]
CommandDef(name, fields, policy) == [name |-> name, fields |-> fields, policy |-> policy]

\* ast::Policy restricted to the lists compile() walks.
StructPolicyOf(effs, sds, fns, ffns, cmds, acts) ==
    [effects |-> effs, structs |-> sds, functions |-> fns,
     finish_functions |-> ffns, commands |-> cmds, actions |-> acts]
PolicyOf(fns, ffns, cmds, acts) == StructPolicyOf(<<>>, <<>>, fns, ffns, cmds, acts)
=============================================================================
