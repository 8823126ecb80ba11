----------------------------- MODULE MCFfiDerive -----------------------------
(***************************************************************************)
(* Impl blocks for FfiDerive: one or two items drawn from a catalogue     *)
(* holding an item of each shape Func::from_ast accepts and one for each  *)
(* error it reports.                                                       *)
(***************************************************************************)
EXTENDS FfiDerive

CONSTANT nodef

Ctx == [pat |-> "ident", ty |-> "ctx"]
Arg(t) == [pat |-> "ident", ty |-> t]

Item(name, nattrs, def, method, params, out) ==
    [name |-> name, nattrs |-> nattrs, def |-> def, method |-> method,
     params |-> params, out |-> out]

Def(id, args, ret) == [id |-> id, args |-> args, ret |-> ret]

\* def = "struct Pt { x int, y bool } struct Ln { x int, y bool }": two
\* structs of one shape, so only the name tells them apart.
MCFfiStructs == [nm \in {"Pt", "Ln"} |-> [x |-> "Int", y |-> "Bool"]]

\* Accepted: a Pure method, a Finish function, a fallible Finish function,
\* and a Finish function taking a struct before an int.
Accepted ==
    { Item("f", 1, Def("f", <<"Int", "String">>, "Int"), TRUE,
           <<Ctx, Arg("Int"), Arg("String")>>, "Int"),
      Item("s", 1, Def("s", <<"Pt", "Int">>, "none"), FALSE,
           <<Ctx, Arg("Pt"), Arg("Int")>>, "unit"),
      Item("g", 1, Def("g", <<"Int", "Int">>, "none"), FALSE,
           <<Ctx, Arg("Int"), Arg("Int")>>, "unit"),
      Item("h", 1, Def("h", <<"Bool">>, "none"), FALSE,
           <<Ctx, Arg("Bool")>>, "Result()") }

\* Skipped or rejected: no attribute, two attributes, no def, a method
\* with no context, an argument count off by one, a tuple pattern, ()
\* returned for a Pure def, and a second function named f.
Others ==
    { Item("n", 0, nodef, FALSE, <<Ctx>>, "unit"),
      Item("a2", 2, Def("a2", <<>>, "none"), FALSE, <<Ctx>>, "unit"),
      Item("nd", 1, nodef, FALSE, <<Ctx>>, "unit"),
      Item("fs", 1, Def("fs", <<>>, "none"), TRUE, <<>>, "unit"),
      Item("cm", 1, Def("cm", <<"Int">>, "none"), FALSE, <<Ctx>>, "unit"),
      Item("tp", 1, Def("tp", <<"Int">>, "none"), FALSE,
           <<Ctx, [pat |-> "tuple", ty |-> "Int"]>>, "unit"),
      Item("up", 1, Def("up", <<>>, "Int"), FALSE, <<Ctx>>, "unit"),
      Item("f2", 1, Def("f", <<>>, "none"), FALSE, <<Ctx>>, "unit") }

\* A function whose def declares (int, string) over Rust (i64, i64).
Mistyped ==
    { Item("m", 1, Def("m", <<"Int", "String">>, "none"), FALSE,
           <<Ctx, Arg("Int"), Arg("Int")>>, "unit") }

ImplsOf(cat) == {<<a>> : a \in cat} \cup {p \in cat \X cat : p[1] # p[2]}

MCImpls == ImplsOf(Accepted \cup Others)

MCMistypedImpls == ImplsOf(Accepted \cup Mistyped)
====
