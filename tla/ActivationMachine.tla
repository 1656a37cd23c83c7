-------------------------- MODULE ActivationMachine ---------------------------
(***************************************************************************)
(* What the intermediate code means, said without a shared stack: every    *)
(* call has an activation record of its own, with its local variables and  *)
(* its operands; a variable of an enclosing subprogram is the one in the   *)
(* latest record of that lexical level; a return takes the record away and *)
(* hands its result to the record below.  There is no linkage, display or  *)
(* canary to go wrong, and no limit: a run may be aborted at any time, and *)
(* of an aborted run nothing is promised.                                  *)
(***************************************************************************)
EXTENDS Operations, FrameAddresses

CONSTANT Library

VARIABLES prog, pc,
          records,     \* the main program's record first, the running one last
          globals,
          output,
          status       \* "running", "stopped" at a final RET, "true", "false"

vars == <<prog, pc, records, globals, output, status>>

Code  == Library[prog].code
Calls == Library[prog].calls

Record(level, locals, resume, info) ==
    [level |-> level, locals |-> locals, operands |-> <<>>, resume |-> resume,
     result |-> info]

NoResult == [offset |-> -1, slots |-> 0, structured |-> FALSE]

Init ==
    /\ prog \in DOMAIN Library
    /\ pc = 0
    /\ records = <<Record(0, <<>>, 0, NoResult)>>
    /\ globals = <<>>
    /\ output = <<>>
    /\ status = "running"

------------------------------------------------------------------------------
Depth    == Len(records)
Running  == records[Depth]
Operands == Running.operands
Fetched  == Code[pc + 1]

Executing(opcodes) ==
    status = "running" /\ pc < Len(Code) /\ Fetched.opcode \in opcodes

Top(n, i) == Operands[Len(Operands) - n + i]
Rest(n)   == SubSeq(Operands, 1, Len(Operands) - n)

With(operands) == [records EXCEPT ![Depth].operands = operands]

Step(at, newRecords) ==
    /\ pc' = at
    /\ records' = newRecords
    /\ UNCHANGED <<prog, status>>

\* The latest record of a lexical level.
Latest(level) ==
    CHOOSE i \in 1..Depth :
        /\ records[i].level = level
        /\ \A j \in (i + 1)..Depth : records[j].level # level

\* The variable an instruction addresses: a global, or a local of a record.
Global(address)      == [record |-> 0, at |-> address + 1]
Local(level, offset) == [record |-> Latest(level), at |-> offset + 1]

Addressed(address) ==
    IF ~IsFrameAddress(address)
    THEN Global(address)
    ELSE IF DecodedLevel(address) = RunningFrame
         THEN [record |-> Depth, at |-> DecodedOffset(address) + 1]
         ELSE Local(DecodedLevel(address), DecodedOffset(address))

Variable ==
    CASE Fetched.level >= 2 -> Local(Fetched.level - 1, Fetched.operand)
      [] Fetched.level = 1  -> Addressed(AsInteger(Top(1, 1)))
      [] Fetched.level = 0  -> Global(Fetched.operand)

Contents(x) ==
    IF x.record = 0 THEN globals[x.at] ELSE records[x.record].locals[x.at]

AddressOperands == IF Fetched.level = 1 THEN 1 ELSE 0

Read ==
    /\ Executing({"LOD", "RLOD"})
    /\ Contents(Variable).type = "none" => Fetched.opcode = "RLOD"
    /\ Step(pc + 1, With(Append(Rest(AddressOperands), Contents(Variable))))
    /\ UNCHANGED <<globals, output>>

Assign ==
    /\ Executing({"STO"})
    /\ LET x     == Variable
           n     == AddressOperands + 1
           value == Top(n, 1)
       IN  IF x.record = 0
           THEN /\ globals' = [globals EXCEPT ![x.at] = value]
                /\ Step(pc + 1, With(Rest(n)))
           ELSE /\ Step(pc + 1, [With(Rest(n)) EXCEPT ![x.record].locals[x.at] = value])
                /\ UNCHANGED globals
    /\ UNCHANGED output

Allocate ==
    /\ Executing({"INT"})
    /\ globals' = [cell \in 1..Fetched.operand |-> None]
    /\ Step(pc + 1, records)
    /\ UNCHANGED output

Push ==
    /\ Executing({"LIT"})
    /\ Step(pc + 1, With(Append(Operands, Fetched.literal)))
    /\ UNCHANGED <<globals, output>>

Evaluate ==
    /\ Executing({"OPR"})
    /\ Fetched.operand \in ValueCodes
    /\ LET n       == Arity(Fetched.operand)
           outcome == Outcome(Fetched.operand, [i \in 1..n |-> Top(n, i)])
       IN  /\ outcome.error = NoError
           /\ Step(pc + 1, With(Append(Rest(n), outcome.value)))
    /\ UNCHANGED <<globals, output>>

Write ==
    /\ Executing({"OPR"})
    /\ Fetched.operand \in {OPR_WRT, OPR_WRTLN}
    /\ Top(1, 1).type # "none"
    /\ output' = Append(output, [value   |-> Top(1, 1),
                                 newline |-> Fetched.operand = OPR_WRTLN])
    /\ Step(pc + 1, With(Rest(1)))
    /\ UNCHANGED globals

Discard ==
    /\ Executing({"OPR"})
    /\ Fetched.operand = OPR_POP
    /\ Step(pc + 1, With(Rest(1)))
    /\ UNCHANGED <<globals, output>>

Branch ==
    /\ \/ /\ Executing({"JMP"})
          /\ Step(Fetched.operand, records)
       \/ /\ Executing({"JPC"})
          /\ Step(IF IsZero(Top(1, 1)) THEN Fetched.operand ELSE pc + 1,
                  With(Rest(1)))
    /\ UNCHANGED <<globals, output>>

------------------------------------------------------------------------------
\* Parameter p of the call, in the order of the actual parameters, is the local
\* at its offset; the other locals have no value yet.
Bound(info) ==
    [slot \in 1..info.frameSlotCount |->
        LET given == {p \in 1..info.parameterSlotCount :
                         info.parameterOffsets[p] = slot - 1}
        IN  IF given = {} THEN None
            ELSE Top(info.parameterSlotCount, CHOOSE p \in given : TRUE)]

Enter ==
    /\ Executing({"CAL"})
    /\ Fetched.operand \in DOMAIN Calls
    /\ LET info == Calls[Fetched.operand]
       IN  Step(Fetched.operand,
                Append(With(Rest(info.parameterSlotCount)),
                       Record(info.lexicalLevel, Bound(info), pc + 1,
                              [offset     |-> info.returnOffset,
                               slots      |-> info.returnSlotCount,
                               structured |-> info.structuredReturn])))
    /\ UNCHANGED <<globals, output>>

ResultOf(record) ==
    IF record.result.offset >= 0 /\ record.result.slots > 0
    THEN SubSeq(record.locals, record.result.offset + 1,
                record.result.offset + record.result.slots)
    ELSE <<>>

\* A scalar result has been assigned, the operands of the record are used up,
\* and the caller goes on with its own operands and the result on top of them.
Exit ==
    /\ Executing({"RET"})
    /\ Depth > 1
    /\ Operands = <<>>
    /\ ~Running.result.structured =>
          \A i \in DOMAIN ResultOf(Running) : ResultOf(Running)[i].type # "none"
    /\ Step(Running.resume,
            [i \in 1..(Depth - 1) |->
                IF i < Depth - 1 THEN records[i]
                ELSE [records[i] EXCEPT !.operands = @ \o ResultOf(Running)]])
    /\ UNCHANGED <<globals, output>>

Stop ==
    /\ Executing({"RET"})
    /\ Depth = 1
    /\ status' = "stopped"
    /\ UNCHANGED <<prog, pc, records, globals, output>>

\* Only the main program ends a run, and no call is left unfinished.
End ==
    /\ \/ status = "stopped"
       \/ status = "running" /\ pc >= Len(Code)
    /\ Depth = 1
    /\ status' = "true"
    /\ UNCHANGED <<prog, pc, records, globals, output>>

\* Nothing is promised of the records of an aborted run; what it wrote stays.
Abort ==
    /\ status = "running"
    /\ status' = "false"
    /\ records' = <<>>
    /\ UNCHANGED <<prog, globals, output>>

Next ==
    \/ Read \/ Assign \/ Allocate \/ Push \/ Evaluate \/ Write \/ Discard
    \/ Branch \/ Enter \/ Exit \/ Stop \/ End \/ Abort

Spec == Init /\ [][Next]_vars
=============================================================================
