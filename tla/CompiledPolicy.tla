---------------------------- MODULE CompiledPolicy ----------------------------
(***************************************************************************)
(* A policy is compiled by CompileState::compile (compile.rs) and one of   *)
(* its actions is then run on the policy VM with a given argument.         *)
(*                                                                         *)
(* phase is "source" before compilation, "rejected" when compile returned  *)
(* an error (or reached todo!()) or the entry action has no Action label,  *)
(* and "loaded" once the linked progmem is in the VM.  lowered is the      *)
(* compile state just before resolve_targets, linked the one after it.     *)
(* The properties compare the run with the reference meaning of the        *)
(* policy (PolicyEval) and the linked code with the code before linking.   *)
(***************************************************************************)
EXTENDS PolicyEval

CONSTANTS
    Policies,    \* the policies that may be compiled
    ArgValues,   \* the argument lists the entry action may be called with
    EntryName    \* the action that is run

VARIABLES phase, policy, argv, lowered, linked

vars == <<phase, policy, argv, lowered, linked, vm>>

\* The entry action's definition in the source policy.
EntryAction(pol) == CHOOSE a \in Range(pol.actions) : a.name = EntryName

\* The VM accepts an entry point only when it is an Action label.
HasEntry(cs) ==
    /\ EntryName \in DOMAIN cs.labels
    /\ cs.labels[EntryName].ltype = "Action"

TypeOK ==
    /\ phase \in {"source", "lowered", "linked", "rejected", "loaded"}
    /\ policy \in Policies
    /\ argv \in ArgValues
    /\ VMTypeOK

Init ==
    /\ policy \in Policies
    /\ argv \in ArgValues
    /\ phase = "source"
    /\ lowered = InitialCompileState
    /\ linked = InitialCompileState
    /\ progmem = <<>> /\ structDefs = <<>> /\ pc = 0 /\ stack = <<>> /\ defs = <<>> /\ frames = <<>>
    /\ status = "idle"

\* compile(): the definition loops (functions, finish functions, commands,
\* actions) fill progmem and the labels.  An error stops the loops and is
\* carried in lowered.err.
LowerPolicy ==
    /\ phase = "source"
    /\ lowered' = Lower(policy)
    /\ phase' = "lowered"
    /\ UNCHANGED <<policy, argv, linked, vm>>

\* compile(): resolve_targets, the last step (skipped after an error).
Link ==
    /\ phase = "lowered"
    /\ linked' = ResolveTargets(lowered)
    /\ phase' = "linked"
    /\ UNCHANGED <<policy, argv, lowered, vm>>

\* compile() succeeded and the entry is an action: the machine is loaded
\* at the action's label with its arguments on the stack.
LoadEntry ==
    /\ phase = "linked"
    /\ linked.err = NoError
    /\ HasEntry(linked)
    /\ phase' = "loaded"
    /\ Load(linked.pm, linked.structs, linked.labels[EntryName].addr, argv)
    /\ UNCHANGED <<policy, argv, lowered, linked>>

\* compile() returned an error (or panicked in todo!()), or the entry is
\* not an action: nothing runs.
Reject ==
    /\ phase = "linked"
    /\ linked.err # NoError \/ ~HasEntry(linked)
    /\ phase' = "rejected"
    /\ UNCHANGED <<policy, argv, lowered, linked, vm>>

Step ==
    /\ phase = "loaded"
    /\ VMNext
    /\ UNCHANGED <<phase, policy, argv, lowered, linked>>

Finished == phase = "rejected" \/ (phase = "loaded" /\ Halted)

\* A finished run stays finished.
Done ==
    /\ Finished
    /\ UNCHANGED vars

Next == LowerPolicy \/ Link \/ LoadEntry \/ Reject \/ Step \/ Done

\* The VM is one thread that keeps executing while it is running.
\* Compilation is a function call; its steps need no fairness for the
\* property below, which starts from a loaded machine.
Spec == Init /\ [][Next]_vars /\ WF_vars(Step)

-----------------------------------------------------------------------------
\* Properties.

\* How a VM run ended, in the reference's terms.
Outcome == CASE status = "exited"   -> "ok"
             [] status = "panicked" -> "panic"
             [] OTHER               -> "error"

\* The compiled entry action does what the source says: when the VM stops,
\* it exited, panicked or failed exactly when the reference evaluation of
\* the action succeeds, panics or errs, and on exit its locals are the
\* reference's.  This is about the lowering in compile_expression,
\* compile_statement, compile_function and the label linking together.
CompiledMatchesReference ==
    (phase = "loaded" /\ Halted) =>
        LET r == EvalAction(EntryAction(policy), argv, policy)
        IN  /\ Outcome = r.st
            /\ status = "exited" => defs = r.env

\* Every call and argument binding leaves the stack as it found it: when
\* the action exits, no value is left over and no call frame is open.
\* This relies on the arity check of compile_expression's FunctionCall and
\* on the argument Defs compile_function emits.
StackBalancedAtExit ==
    status = "exited" => stack = <<>> /\ frames = <<>>

\* Linking sends every Call to the code of the function it names: the
\* address resolve_targets writes into a Call is where compile_function
\* started compiling the callee.
CallsReachCallee ==
    phase = "loaded" =>
        \A i \in DOMAIN lowered.pm :
            lowered.pm[i].op = "Call" =>
                linked.pm[i].arg.addr = lowered.fentry[lowered.pm[i].arg.name]

\* Every run of a compiled action stops: once the machine is loaded it
\* eventually exits, panics or fails.  The branches and jumps that
\* compile_expression and compile_statement emit never form a loop.
Termination == (phase = "loaded") ~> Halted
=============================================================================
