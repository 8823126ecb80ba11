------------------------------- MODULE PolicyVM -------------------------------
(***************************************************************************)
(* The policy virtual machine that executes compiled progmem (spec.md      *)
(* sections 4.D and 4.E; the machine's source is not part of this          *)
(* repository snapshot, so every action here is modelled from the spec).   *)
(*                                                                         *)
(* State: the loaded program, the program counter (a 0-based address),     *)
(* the machine's struct definitions (name to field names), the value      *)
(* stack (top = last element), the named locals of the current            *)
(* call frame, the call frames (return address and the caller's locals)    *)
(* and the run status: "running",                                          *)
(* "exited" (Exit), "panicked" (Panic) or the name of the machine error    *)
(* that stopped it.  One action per opcode family.                         *)
(***************************************************************************)
EXTENDS Integers, Sequences, PolicyCompiler

CONSTANTS
    IntWidth,       \* bits of Value::Int (64 in the code; small for TLC)
    MaxCallDepth    \* bound on nested calls; no modelled policy recurses

ASSUME IntWidth \in 2..16 /\ MaxCallDepth \in 1..8

MinInt == -(2 ^ (IntWidth - 1))
MaxInt == 2 ^ (IntWidth - 1) - 1

VARIABLES progmem, structDefs, pc, stack, defs, frames, status

vm == <<progmem, structDefs, pc, stack, defs, frames, status>>

\* The stack element n below the top (0 = top).
Peek(n) == stack[Len(stack) - n]
\* The stack without its top k elements.
Drop(k) == SubSeq(stack, 1, Len(stack) - k)

\* The instruction at pc, when the machine is running.
At(op) ==
    /\ status = "running"
    /\ pc \in 0 .. Len(progmem) - 1
    /\ progmem[pc + 1].op = op

Next1 == pc' = pc + 1

\* A machine error stops the run; nothing else changes.
Raise(kind) ==
    /\ status' = kind
    /\ UNCHANGED <<progmem, structDefs, pc, stack, defs, frames>>

\* Overwrite the top k stack elements with the sequence vs and advance.
Replace(k, vs) ==
    /\ stack' = Drop(k) \o vs
    /\ Next1
    /\ UNCHANGED <<progmem, structDefs, defs, frames, status>>

\* Load the program and enter an action: arguments are on the stack in
\* source order, pc is the action's label address.
Load(prog, sdefs, addr, args) ==
    /\ progmem' = prog
    /\ structDefs' = sdefs
    /\ pc' = addr
    /\ stack' = args
    /\ defs' = <<>>
    /\ frames' = <<>>
    /\ status' = "running"

\* Value::Struct: its name and its fields (a function of field names).
StructV(name, fields) == [t |-> "Struct", v |-> [name |-> name, fields |-> fields]]

\* machine::Value with Int bounded by IntWidth.
RECURSIVE IsValue(_)
IsValue(x) ==
    CASE x.t = "Int"    -> x.v \in MinInt .. MaxInt
      [] x.t = "Bool"   -> x.v \in BOOLEAN
      [] x.t = "String" -> x.v \in STRING
      [] x.t = "None"   -> x = NoneV
      [] x.t = "Struct" -> /\ x.v.name \in STRING
                           /\ \A f \in DOMAIN x.v.fields : IsValue(x.v.fields[f])
      [] OTHER          -> FALSE

VMTypeOK ==
    /\ pc \in Nat
    /\ \A i \in DOMAIN stack : IsValue(stack[i])
    /\ \A n \in DOMAIN defs : IsValue(defs[n])
    /\ status \in STRING

-----------------------------------------------------------------------------
\* Value operations (4.D).  Each returns [ok, v] or [ok |-> FALSE, v |-> kind].

Ok(v)     == [ok |-> TRUE, v |-> v]
Err(kind) == [ok |-> FALSE, v |-> kind]

\* Mutant: the checked add/sub is an unchecked one.
ArithUnchecked(op, a, b) ==
    IF a.t # "Int" \/ b.t # "Int" THEN Err("InvalidType")
    ELSE Ok(IntV(IF op = "Add" THEN a.v + b.v ELSE a.v - b.v))

Arith(op, a, b) ==
    IF a.t # "Int" \/ b.t # "Int" THEN Err("InvalidType")
    ELSE LET r == IF op = "Add" THEN a.v + b.v ELSE a.v - b.v
         IN  IF r < MinInt \/ r > MaxInt THEN Err("IntOverflow") ELSE Ok(IntV(r))

\* Structural equality; comparing with None is how `unwrap` and `is` test
\* an optional, any other mixed-type comparison is a type error.
EqValues(a, b) ==
    IF a.t = b.t \/ a.t = "None" \/ b.t = "None" THEN Ok(BoolV(a = b))
    ELSE Err("InvalidType")

Logic(op, a, b) ==
    IF a.t # "Bool" \/ b.t # "Bool" THEN Err("InvalidType")
    ELSE Ok(BoolV(IF op = "And" THEN a.v /\ b.v ELSE a.v \/ b.v))

Compare(op, a, b) ==
    IF a.t # "Int" \/ b.t # "Int" THEN Err("InvalidType")
    ELSE Ok(BoolV(IF op = "Gt" THEN a.v > b.v ELSE a.v < b.v))

\* A binary opcode: pop b, pop a, push the result r of the operation on
\* a = Peek(1) and b = Peek(0), or stop with r's error.
Binary(op, r) ==
    /\ At(op)
    /\ IF Len(stack) < 2 THEN Raise("StackUnderflow")
       ELSE IF r.ok THEN Replace(2, <<r.v>>) ELSE Raise(r.v)

-----------------------------------------------------------------------------
\* Opcodes.

ExecConst ==
    /\ At("Const")
    /\ Replace(0, <<progmem[pc + 1].arg>>)

\* Def: pop the name, pop the value, bind it in the current frame.
ExecDef ==
    /\ At("Def")
    /\ IF Len(stack) < 2 THEN Raise("StackUnderflow")
       ELSE IF Peek(0).t # "String" THEN Raise("InvalidType")
       ELSE /\ defs' = MapInsert(defs, Peek(0).v, Peek(1))
            /\ stack' = Drop(2)
            /\ Next1
            /\ UNCHANGED <<progmem, structDefs, frames, status>>

\* Get: pop the name, push its value.
ExecGet ==
    /\ At("Get")
    /\ IF Len(stack) < 1 THEN Raise("StackUnderflow")
       ELSE IF Peek(0).t # "String" \/ Peek(0).v \notin DOMAIN defs
            THEN Raise("NotDefined")
       ELSE Replace(1, <<defs[Peek(0).v]>>)

\* StructNew: pop the struct's name, push a struct with no fields.
ExecStructNew ==
    /\ At("StructNew")
    /\ IF Len(stack) < 1 THEN Raise("StackUnderflow")
       ELSE IF Peek(0).t # "String" THEN Raise("InvalidType")
       ELSE Replace(1, <<StructV(Peek(0).v, <<>>)>>)

\* StructSet: pop the field name, the value and the struct; the field must
\* be declared in the struct's definition; push the updated struct.
ExecStructSet ==
    /\ At("StructSet")
    /\ IF Len(stack) < 3 THEN Raise("StackUnderflow")
       ELSE IF Peek(0).t # "String" \/ Peek(2).t # "Struct" THEN Raise("InvalidType")
       ELSE IF \/ Peek(2).v.name \notin DOMAIN structDefs
               \/ Peek(0).v \notin structDefs[Peek(2).v.name] THEN Raise("InvalidStructMember")
       ELSE Replace(3, <<StructV(Peek(2).v.name,
                                 MapInsert(Peek(2).v.fields, Peek(0).v, Peek(1)))>>)

\* StructGet: pop the field name and the struct, push the field's value.
ExecStructGet ==
    /\ At("StructGet")
    /\ IF Len(stack) < 2 THEN Raise("StackUnderflow")
       ELSE IF Peek(0).t # "String" \/ Peek(1).t # "Struct" THEN Raise("InvalidType")
       ELSE IF Peek(0).v \notin DOMAIN Peek(1).v.fields THEN Raise("InvalidStructMember")
       ELSE Replace(2, <<Peek(1).v.fields[Peek(0).v]>>)

ExecArith   == \E op \in {"Add", "Sub"} : Binary(op, Arith(op, Peek(1), Peek(0)))
ExecEq      == Binary("Eq", EqValues(Peek(1), Peek(0)))
ExecLogic   == \E op \in {"And", "Or"} : Binary(op, Logic(op, Peek(1), Peek(0)))
ExecCompare == \E op \in {"Gt", "Lt"} : Binary(op, Compare(op, Peek(1), Peek(0)))

ExecNot ==
    /\ At("Not")
    /\ IF Len(stack) < 1 THEN Raise("StackUnderflow")
       ELSE IF Peek(0).t # "Bool" THEN Raise("InvalidType")
       ELSE Replace(1, <<BoolV(~Peek(0).v)>>)

\* Dup(n): push a copy of the element n below the top.
ExecDup ==
    /\ At("Dup")
    /\ LET n == progmem[pc + 1].arg
       IN  IF Len(stack) <= n THEN Raise("StackUnderflow")
           ELSE Replace(0, <<Peek(n)>>)

\* Swap(n): exchange the top with the element n below it.
ExecSwap ==
    /\ At("Swap")
    /\ LET n == progmem[pc + 1].arg
           top == Len(stack)
       IN  IF n < 1 \/ top <= n THEN Raise("StackUnderflow")
           ELSE /\ stack' = [stack EXCEPT ![top] = stack[top - n],
                                          ![top - n] = stack[top]]
                /\ Next1
                /\ UNCHANGED <<progmem, structDefs, defs, frames, status>>

\* Branch: pop a Bool, jump if it is true.
ExecBranch ==
    /\ At("Branch")
    /\ IF Len(stack) < 1 THEN Raise("StackUnderflow")
       ELSE IF Peek(0).t # "Bool" THEN Raise("InvalidType")
       ELSE /\ stack' = Drop(1)
            /\ pc' = IF Peek(0).v THEN progmem[pc + 1].arg.addr ELSE pc + 1
            /\ UNCHANGED <<progmem, structDefs, defs, frames, status>>

ExecJump ==
    /\ At("Jump")
    /\ pc' = progmem[pc + 1].arg.addr
    /\ UNCHANGED <<progmem, structDefs, stack, defs, frames, status>>

\* Call: push the return address and the caller's locals; the callee
\* starts with no locals and finds its arguments on the stack.
ExecCall ==
    /\ At("Call")
    /\ Len(frames) < MaxCallDepth
    /\ frames' = Append(frames, [ret |-> pc + 1, defs |-> defs])
    /\ defs' = <<>>
    /\ pc' = progmem[pc + 1].arg.addr
    /\ UNCHANGED <<progmem, structDefs, stack, status>>

ExecReturn ==
    /\ At("Return")
    /\ IF frames = <<>> THEN Raise("BadState")
       ELSE /\ pc' = Last(frames).ret
            /\ defs' = Last(frames).defs
            /\ frames' = Front(frames)
            /\ UNCHANGED <<progmem, structDefs, stack, status>>

ExecPanic ==
    /\ At("Panic")
    /\ status' = "panicked"
    /\ UNCHANGED <<progmem, structDefs, pc, stack, defs, frames>>

ExecExit ==
    /\ At("Exit")
    /\ status' = "exited"
    /\ UNCHANGED <<progmem, structDefs, pc, stack, defs, frames>>

VMNext ==
    \/ ExecConst \/ ExecDef \/ ExecGet \/ ExecStructNew \/ ExecStructSet
    \/ ExecStructGet \/ ExecArith \/ ExecEq \/ ExecLogic
    \/ ExecCompare \/ ExecNot \/ ExecDup \/ ExecSwap \/ ExecBranch
    \/ ExecJump \/ ExecCall \/ ExecReturn \/ ExecPanic \/ ExecExit

Halted == status # "running"
=============================================================================
