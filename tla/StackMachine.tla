----------------------------- MODULE StackMachine -----------------------------
(***************************************************************************)
(* The executor of the intermediate code (stack_machine_executor.c): one   *)
(* action per opcode, OPR split by what it does.  The loop of              *)
(* stackMachineExecute is the sequence of steps; a step that fails ends    *)
(* the run and leaves the stack as the C code leaves it, operands already  *)
(* popped included.                                                        *)
(*                                                                         *)
(* The activation frames live in the operand stack.  CAL turns the actual  *)
(* parameters on top of the stack into the callee's slots and lays the     *)
(* linkage over them: thirteen words that hold the caller's registers, the *)
(* display entry the callee displaces, the return address and a canary.    *)
(* Index i of the C array is stack[i + 1] here.                            *)
(***************************************************************************)
EXTENDS Operations, FrameAddresses

CONSTANTS Library,         \* program name -> InstructionList it may be given
          MaxStack,        \* STACK_MACHINE_DEFAULT_MAX_STACK
          MaxCallDepth,    \* STACK_MACHINE_DEFAULT_MAX_CALL_DEPTH
          Canary           \* STACK_MACHINE_FRAME_CANARY

LinkageWords == 13         \* FRAME_META_COUNT

ASSUME StackMachineAssumption ==
    /\ MaxStack \in Nat
    /\ MaxCallDepth \in Nat
    /\ Canary \in Int

ASSUME LibraryAssumption ==
    \A name \in DOMAIN Library : IsInstructionList(Library[name])

VARIABLES prog,        \* the program loaded
          pc,
          stack,
          memory,      \* the global cells; address a is memory[a + 1]
          frame,       \* the base registers of the running frame
          display,     \* level -> the frame that level's variables are in
          callDepth,
          output,      \* what was written: [value, newline]
          stopped,
          error,
          result       \* "running", then what stackMachineExecute returned

vars == <<prog, pc, stack, memory, frame, display, callDepth, output,
          stopped, error, result>>

Code  == Library[prog].code
Calls == Library[prog].calls

\* bp, frameSlots, returnOffset, returnSlotCount, returnIsStructured and
\* currentFrameLexLevel; and an entry of the display.  The blockIndex fields
\* beside them are saved and restored but never read: they stay -1.
NoFrame == [bp |-> 0, slots |-> 0, returnOffset |-> -1, returnSlots |-> 0,
            structured |-> FALSE, level |-> 0]

NoEntry == [active |-> FALSE, bp |-> 0, slots |-> 0]

Init ==
    /\ prog \in DOMAIN Library
    /\ pc = 0
    /\ stack = <<>>
    /\ memory = <<>>
    /\ frame = NoFrame
    /\ display = [level \in Levels |-> NoEntry]
    /\ callDepth = 0
    /\ output = <<>>
    /\ stopped = FALSE
    /\ error = NoError
    /\ result = "running"

------------------------------------------------------------------------------
(* How an instruction begins and ends. *)

InLoop == result = "running" /\ ~stopped /\ pc < Len(Code)

Fetched == Code[pc + 1]

Executing(opcodes) == InLoop /\ Fetched.opcode \in opcodes

Operating(codes) == Executing({"OPR"}) /\ Fetched.operand \in codes

Fail(kind, left) ==
    /\ error' = kind
    /\ result' = "false"
    /\ stack' = left
    /\ UNCHANGED <<prog, pc, memory, frame, display, callDepth, output, stopped>>

\* The failures that set no message: stackMachineExecute just returns false.
Silent == "silent"

Continue(at, left) ==
    /\ pc' = at
    /\ stack' = left
    /\ UNCHANGED <<prog, frame, display, callDepth, stopped, error, result>>

\* Mutant of Below: one operand too many is popped.
BelowOneTooFar(n) == SubSeq(stack, 1, Len(stack) - n - 1)

\* What stays when the n topmost operands are popped, and the i-th of them.
Below(n)      == SubSeq(stack, 1, Len(stack) - n)
Operand(n, i) == stack[Len(stack) - n + i]

\* Too few operands: those there are have been popped.
Underflow(n) == Len(stack) < n /\ Fail("Stack Underflow", <<>>)

\* stackPush as the last thing an instruction does.  The value is in range: it
\* was on the stack or in memory, or it was range checked.
PushAndNext(left, value) ==
    \/ /\ Len(left) >= MaxStack
       /\ Fail("Stack Overflow", left)
    \/ /\ Len(left) < MaxStack
       /\ Continue(pc + 1, Append(left, value))
       /\ UNCHANGED <<memory, output>>

\* An operation that replaces its n operands by one value, or fails.  There is
\* room for the value where the operands were.
Replace(n, outcome) ==
    \/ Underflow(n)
    \/ /\ Len(stack) >= n
       /\ outcome.error # NoError
       /\ Fail(outcome.error, Below(n))
    \/ /\ Len(stack) >= n
       /\ outcome.error = NoError
       /\ Continue(pc + 1, Append(Below(n), outcome.value))
       /\ UNCHANGED <<memory, output>>

------------------------------------------------------------------------------
(* Storage.  A place is a cell of memory or a position of the stack. *)

NoPlace(kind)      == [area |-> "nowhere", at |-> 0, error |-> kind]
Place(area, index) == [area |-> area, at |-> index + 1, error |-> NoError]

MemoryPlace(address) ==
    IF 0 <= address /\ address < Len(memory)
    THEN Place("memory", address)
    ELSE NoPlace("Memory Access Out of Bounds")

\* Mutant of FramePlace: the slot after the one addressed.
FramePlaceNext(held, left, offset) ==
    IF held.active /\ offset < held.slots /\ held.bp + offset < Len(left)
    THEN Place("stack", held.bp + offset + 1)
    ELSE NoPlace("Stack Frame Access Out of Bounds")

FramePlace(held, left, offset) ==
    IF held.active /\ offset < held.slots /\ held.bp + offset < Len(left)
    THEN Place("stack", held.bp + offset)
    ELSE NoPlace("Stack Frame Access Out of Bounds")

LevelPlace(level, left, offset) ==
    IF level \in Levels THEN FramePlace(display[level], left, offset)
                        ELSE NoPlace("Invalid lexical frame level")

RunningPlace(left, offset) ==
    FramePlace([active |-> callDepth > 0, bp |-> frame.bp, slots |-> frame.slots],
               left, offset)

\* The place an address names, left being the stack the operands were popped from.
AddressedPlace(address, left) ==
    IF ~IsFrameAddress(address)
    THEN MemoryPlace(address)
    ELSE IF DecodedLevel(address) = RunningFrame
         THEN RunningPlace(left, DecodedOffset(address))
         ELSE LevelPlace(DecodedLevel(address), left, DecodedOffset(address))

\* Level 0 addresses memory by the operand, level 1 takes the address from the
\* stack, level n + 1 addresses by the operand the frame of lexical level n.
PlaceOf(level, operand, address, left) ==
    CASE level >= 2 -> IF operand < 0 THEN NoPlace(Silent)
                                      ELSE LevelPlace(level - 1, left, operand)
      [] level = 1  -> AddressedPlace(address, left)
      [] level = 0  -> MemoryPlace(operand)
      [] level < 0  -> NoPlace("Invalid addressing mode")

ValueAt(place, left) ==
    IF place.area = "memory" THEN memory[place.at] ELSE left[place.at]

\* The address a level 1 instruction pops off the stack.
Indirect == Fetched.level = 1

AddressError ==
    IF Indirect /\ stack # <<>> /\ ~IsNumeric(Operand(1, 1))
    THEN "address operand must be numeric" ELSE NoError

PoppedAddress == IF Indirect THEN AsInteger(Operand(1, 1)) ELSE 0

Load ==
    /\ Executing({"LOD", "RLOD"})
    /\ LET pops  == IF Indirect THEN 1 ELSE 0
           place == PlaceOf(Fetched.level, Fetched.operand, PoppedAddress, Below(pops))
       IN  \/ Underflow(pops)
           \/ /\ Len(stack) >= pops
              /\ AddressError # NoError
              /\ Fail(AddressError, Below(pops))
           \/ /\ Len(stack) >= pops
              /\ AddressError = NoError
              /\ place.error # NoError
              /\ Fail(place.error, Below(pops))
           \/ /\ Len(stack) >= pops
              /\ AddressError = NoError
              /\ place.error = NoError
              /\ Fetched.opcode = "LOD"
              /\ ValueAt(place, Below(pops)).type = "none"
              /\ Fail("Loaded value is uninitialized", Below(pops))
           \/ /\ Len(stack) >= pops
              /\ AddressError = NoError
              /\ place.error = NoError
              /\ Fetched.opcode = "LOD" => ValueAt(place, Below(pops)).type # "none"
              /\ PushAndNext(Below(pops), ValueAt(place, Below(pops)))

\* The address is popped and checked before the value is popped.
Store ==
    /\ Executing({"STO"})
    /\ LET pops  == IF Indirect THEN 2 ELSE 1
           value == Operand(pops, 1)
           place == PlaceOf(Fetched.level, Fetched.operand, PoppedAddress, Below(pops))
       IN  \/ /\ AddressError # NoError
              /\ Fail(AddressError, Below(1))
           \/ /\ AddressError = NoError
              /\ Underflow(pops)
           \/ /\ AddressError = NoError
              /\ Len(stack) >= pops
              /\ place.error # NoError
              /\ Fail(place.error, Below(pops))
           \/ /\ AddressError = NoError
              /\ Len(stack) >= pops
              /\ place.area = "memory"
              /\ memory' = [memory EXCEPT ![place.at] = value]
              /\ Continue(pc + 1, Below(pops))
              /\ UNCHANGED output
           \/ /\ AddressError = NoError
              /\ Len(stack) >= pops
              /\ place.area = "stack"
              /\ Continue(pc + 1, [Below(pops) EXCEPT ![place.at] = value])
              /\ UNCHANGED <<memory, output>>

\* runtimeMemoryAllocate discards the cells there were.  The allocation is
\* assumed to succeed.
Int_ ==
    /\ Executing({"INT"})
    /\ \/ /\ Fetched.operand < 0
          /\ Fail("INT memory allocation failed", stack)
       \/ /\ Fetched.operand >= 0
          /\ memory' = [cell \in 1..Fetched.operand |-> None]
          /\ Continue(pc + 1, stack)
          /\ UNCHANGED output

LiteralError ==
    IF Fetched.literal.type = "integer" THEN RangeError(Fetched.literal.v) ELSE NoError

Literal ==
    /\ Executing({"LIT"})
    /\ \/ /\ LiteralError # NoError
          /\ Fail(LiteralError, stack)
       \/ /\ LiteralError = NoError
          /\ PushAndNext(stack, Fetched.literal)

------------------------------------------------------------------------------
(* Control. *)

IsTarget(target) == target \in 0..(Len(Code) - 1)

JumpTo(target, left) ==
    \/ /\ ~IsTarget(target)
       /\ Fail("Invalid Jump Target", left)
    \/ /\ IsTarget(target)
       /\ Continue(target, left)
       /\ UNCHANGED <<memory, output>>

Jump ==
    /\ Executing({"JMP"})
    /\ JumpTo(Fetched.operand, stack)

JumpIfZero ==
    /\ Executing({"JPC"})
    /\ \/ Underflow(1)
       \/ /\ Len(stack) >= 1
          /\ IsZero(Operand(1, 1))
          /\ JumpTo(Fetched.operand, Below(1))
       \/ /\ Len(stack) >= 1
          /\ ~IsZero(Operand(1, 1))
          /\ Continue(pc + 1, Below(1))
          /\ UNCHANGED <<memory, output>>

\* The checks of CAL before it touches the stack, in their order.
CallError(target) ==
    IF ~IsTarget(target) THEN "Invalid Jump Target"
    ELSE IF callDepth >= MaxCallDepth THEN "Stack Overflow"
    ELSE IF target \notin DOMAIN Calls THEN "Missing Call Metadata"
    ELSE LET info == Calls[target] IN
         IF info.lexicalLevel \notin Levels THEN "Invalid Call Target"
         ELSE IF \/ info.parameterSlotCount < 0
                 \/ info.frameSlotCount < info.parameterSlotCount
                 \/ Len(stack) < info.parameterSlotCount THEN "Stack Underflow"
         ELSE IF \E p \in 1..info.parameterSlotCount :
                    info.parameterOffsets[p] \notin 0..(info.frameSlotCount - 1)
              THEN Silent
         ELSE NoError

\* The callee's slots: a parameter goes to its offset, the other slots hold
\* nothing yet.
FrameSlots(info) ==
    [slot \in 1..info.frameSlotCount |->
        IF \E p \in 1..info.parameterSlotCount : info.parameterOffsets[p] = slot - 1
        THEN Operand(info.parameterSlotCount,
                     CHOOSE p \in 1..info.parameterSlotCount :
                        info.parameterOffsets[p] = slot - 1)
        ELSE None]

\* Mutants of Linkage: the entry of the running level is saved, not the one the
\* callee displaces; the return point is the call itself.
LinkageOfRunningLevel(level, returnPc) ==
    LET flag(b)   == IF b THEN 1 ELSE 0
        displaced == IF frame.level \in Levels THEN display[frame.level] ELSE NoEntry
        words == <<frame.bp, frame.slots, frame.returnOffset, frame.returnSlots,
                   flag(frame.structured), frame.level, -1,
                   flag(displaced.active), displaced.bp, displaced.slots, -1,
                   returnPc, Canary>>
    IN  [w \in 1..LinkageWords |-> Integer(words[w])]

LinkageToCall(level, returnPc) ==
    LET flag(b) == IF b THEN 1 ELSE 0
        words == <<frame.bp, frame.slots, frame.returnOffset, frame.returnSlots,
                   flag(frame.structured), frame.level, -1,
                   flag(display[level].active), display[level].bp,
                   display[level].slots, -1, returnPc - 1, Canary>>
    IN  [w \in 1..LinkageWords |-> Integer(words[w])]

\* The linkage of a frame of the level given, called from the running frame.
Linkage(level, returnPc) ==
    LET flag(b) == IF b THEN 1 ELSE 0
        words == <<frame.bp, frame.slots, frame.returnOffset, frame.returnSlots,
                   flag(frame.structured), frame.level, -1,
                   flag(display[level].active), display[level].bp,
                   display[level].slots, -1, returnPc, Canary>>
    IN  [w \in 1..LinkageWords |-> Integer(words[w])]

\* Mutants of PushError: the limit one too high, one too low.
PushErrorLate(words, i) ==
    IF words[i].type = "integer" /\ RangeError(words[i].v) # NoError
    THEN RangeError(words[i].v)
    ELSE IF i > MaxStack + 1 THEN "Stack Overflow" ELSE NoError

PushErrorEarly(words, i) ==
    IF words[i].type = "integer" /\ RangeError(words[i].v) # NoError
    THEN RangeError(words[i].v)
    ELSE IF i >= MaxStack THEN "Stack Overflow" ELSE NoError

\* Why stackPush refuses words[i] on top of the words before it.
PushError(words, i) ==
    IF words[i].type = "integer" /\ RangeError(words[i].v) # NoError
    THEN RangeError(words[i].v)
    ELSE IF i > MaxStack THEN "Stack Overflow" ELSE NoError

RefusedPushes(words, kept) ==
    {i \in (kept + 1)..Len(words) : PushError(words, i) # NoError}

\* A push that is refused leaves the words before it on the stack.
Call ==
    /\ Executing({"CAL"})
    /\ LET target  == Fetched.operand
           info    == Calls[target]
           kept    == Below(info.parameterSlotCount)
           grown   == kept \o FrameSlots(info) \o Linkage(info.lexicalLevel, pc + 1)
           refused == RefusedPushes(grown, Len(kept))
       IN  \/ /\ CallError(target) # NoError
              /\ Fail(CallError(target), stack)
           \/ /\ CallError(target) = NoError
              /\ \E i \in refused :
                    /\ \A j \in refused : i <= j
                    /\ Fail(PushError(grown, i), SubSeq(grown, 1, i - 1))
           \/ /\ CallError(target) = NoError
              /\ refused = {}
              /\ pc' = target
              /\ stack' = grown
              /\ frame' = [bp |-> Len(kept), slots |-> info.frameSlotCount,
                           returnOffset |-> info.returnOffset,
                           returnSlots |-> info.returnSlotCount,
                           structured |-> info.structuredReturn,
                           level |-> info.lexicalLevel]
              /\ display' = [display EXCEPT ![info.lexicalLevel] =
                               [active |-> TRUE, bp |-> Len(kept),
                                slots |-> info.frameSlotCount]]
              /\ callDepth' = callDepth + 1
              /\ UNCHANGED <<prog, memory, output, stopped, error, result>>

\* Word w of the linkage over a frame's slots.
Word(held, w)   == stack[held.bp + held.slots + w]
Saved(held, w)  == AsInteger(Word(held, w))
Count(n)        == IF n < 0 THEN 0 ELSE n

\* Mutant of CallerOf: the level is taken from the word beside it.
CallerOfNextWord(held) ==
    [bp           |-> Count(Saved(held, 1)),
     slots        |-> Count(Saved(held, 2)),
     returnOffset |-> Saved(held, 3),
     returnSlots  |-> Count(Saved(held, 4)),
     structured   |-> Saved(held, 5) # 0,
     level        |-> Saved(held, 7)]

\* What the linkage of a frame says its caller's registers were.
CallerOf(held) ==
    [bp           |-> Count(Saved(held, 1)),
     slots        |-> Count(Saved(held, 2)),
     returnOffset |-> Saved(held, 3),
     returnSlots  |-> Count(Saved(held, 4)),
     structured   |-> Saved(held, 5) # 0,
     level        |-> Saved(held, 6)]

\* Mutant of DisplacedBy: a return clears the display entry.
DisplacedByNone(held) == NoEntry

DisplacedBy(held) ==
    [active |-> Saved(held, 8) # 0,
     bp     |-> Count(Saved(held, 9)),
     slots  |-> Count(Saved(held, 10))]

\* Mutant of ReturnsValue: a result at offset 0 is taken for none.
ReturnsValueAboveZero == frame.returnOffset > 0 /\ frame.returnSlots > 0

ReturnsValue == frame.returnOffset >= 0 /\ frame.returnSlots > 0

ReturnedSlots ==
    IF ReturnsValue
    THEN SubSeq(stack, frame.bp + frame.returnOffset + 1,
                frame.bp + frame.returnOffset + frame.returnSlots)
    ELSE <<>>

ReturnError ==
    IF Len(stack) # frame.bp + frame.slots + LinkageWords
    THEN "Stack Corruption"
    ELSE IF \E w \in 1..LinkageWords : ~IsNumeric(Word(frame, w))
         THEN "Stack Corruption"
    ELSE IF Saved(frame, LinkageWords) # Canary
         THEN "Stack Corruption"
    ELSE IF ReturnsValue /\ frame.returnOffset + frame.returnSlots > frame.slots
         THEN "Function return slot range is invalid"
    ELSE IF ReturnsValue /\ ~frame.structured
            /\ \E i \in 1..frame.returnSlots : ReturnedSlots[i].type = "none"
         THEN "Function return value is uninitialized"
    ELSE NoError

\* The returned slots fit: there is room for them where they came from.
Return ==
    /\ Executing({"RET"})
    /\ \/ /\ callDepth = 0
          /\ stopped' = TRUE
          /\ UNCHANGED <<prog, pc, stack, memory, frame, display, callDepth,
                         output, error, result>>
       \/ /\ callDepth > 0
          /\ ReturnError # NoError
          /\ Fail(ReturnError, stack)
       \/ /\ callDepth > 0
          /\ ReturnError = NoError
          /\ stack' = SubSeq(stack, 1, frame.bp) \o ReturnedSlots
          /\ frame' = CallerOf(frame)
          /\ display' = IF frame.level \in Levels
                        THEN [display EXCEPT ![frame.level] = DisplacedBy(frame)]
                        ELSE display
          /\ callDepth' = callDepth - 1
          /\ \/ /\ ~IsTarget(Saved(frame, 12))
                /\ error' = "Invalid Return Target"
                /\ result' = "false"
                /\ pc' = pc
             \/ /\ IsTarget(Saved(frame, 12))
                /\ pc' = Saved(frame, 12)
                /\ UNCHANGED <<error, result>>
          /\ UNCHANGED <<prog, memory, output, stopped>>

\* Mutant of Leave: a subprogram left open is not noticed.
LeaveUnchecked ==
    /\ result = "running"
    /\ ~InLoop
    /\ result' = "true"
    /\ UNCHANGED <<prog, pc, stack, memory, frame, display, callDepth,
                   output, stopped, error>>

\* The loop ends: at a RET of the main program, or past the last instruction.
Leave ==
    /\ result = "running"
    /\ ~InLoop
    /\ \/ /\ ~stopped /\ callDepth > 0
          /\ Fail("Stack Corruption", stack)
       \/ /\ stopped \/ callDepth = 0
          /\ result' = "true"
          /\ UNCHANGED <<prog, pc, stack, memory, frame, display, callDepth,
                         output, stopped, error>>

------------------------------------------------------------------------------
(* OPR. *)

\* executeNeg, executeArithmetic, executeComparison, executeToReal, executeToChar.
Operate(codes) ==
    /\ Operating(codes)
    /\ LET n == Arity(Fetched.operand)
       IN  Replace(n, Outcome(Fetched.operand, [i \in 1..n |-> Operand(n, i)]))

Negate        == Operate({OPR_NEG})
Calculate     == Operate(ArithmeticCodes)
Compare       == Operate(ComparisonCodes)
ConvertToReal == Operate({OPR_TO_REAL})
ConvertToChar == Operate({OPR_TO_CHAR})

\* The text of a value is what its type and payload say; the buffer of 256
\* bytes it is formatted in is abstracted.
Write ==
    /\ Operating({OPR_WRT, OPR_WRTLN})
    /\ \/ Underflow(1)
       \/ /\ Len(stack) >= 1
          /\ Operand(1, 1).type = "none"
          /\ Fail("Uninitialized value cannot be written", Below(1))
       \/ /\ Len(stack) >= 1
          /\ Operand(1, 1).type # "none"
          /\ output' = Append(output, [value   |-> Operand(1, 1),
                                       newline |-> Fetched.operand = OPR_WRTLN])
          /\ Continue(pc + 1, Below(1))
          /\ UNCHANGED memory

\* The generated check jumps over this operation when the value is in bounds.
ReportRange ==
    /\ Operating({OPR_INDEX_ERROR, OPR_RANGE_ERROR})
    /\ \/ Underflow(3)
       \/ /\ Len(stack) >= 3
          /\ LET exception == IF Fetched.operand = OPR_INDEX_ERROR
                              THEN "IndexOutOfBoundsException"
                              ELSE "RangeCheckException"
             IN  Fail(RangeReport(exception, [i \in 1..3 |-> Operand(3, i)]).error,
                      Below(3))

Discard ==
    /\ Operating({OPR_POP})
    /\ \/ Underflow(1)
       \/ /\ Len(stack) >= 1
          /\ Continue(pc + 1, Below(1))
          /\ UNCHANGED <<memory, output>>

InvalidOperation ==
    /\ Executing({"OPR"})
    /\ Fetched.operand \notin 1..20
    /\ Fail("Invalid OPR Code", stack)

Instructions ==
    \/ Int_ \/ Literal \/ Load \/ Store
    \/ Jump \/ JumpIfZero \/ Call \/ Return
    \/ Negate \/ Calculate \/ Compare \/ ConvertToReal \/ ConvertToChar
    \/ Write \/ ReportRange \/ Discard \/ InvalidOperation

\* The executor has returned; nothing more happens to this run.
Finished == result # "running" /\ UNCHANGED vars

Next == Instructions \/ Leave \/ Finished

\* One thread runs the loop: nothing can hold back the next instruction.
Spec == Init /\ [][Next]_vars /\ WF_vars(Next)

------------------------------------------------------------------------------
(* What holds of every instruction list, generated or not. *)

FrameRecord == [bp : Nat, slots : Nat, returnOffset : Int, returnSlots : Int,
                structured : BOOLEAN, level : Int]

DisplayEntry == [active : BOOLEAN, bp : Nat, slots : Nat]

Written == [value : Value, newline : BOOLEAN]

\* The errors the executor sets, by what they are about.
StackErrors  == {"Stack Overflow", "Stack Underflow", "Stack Corruption"}
AccessErrors == {"Memory Access Out of Bounds", "Stack Frame Access Out of Bounds",
                 "Invalid lexical frame level", "Invalid addressing mode",
                 "address operand must be numeric", "Loaded value is uninitialized",
                 "INT memory allocation failed"}
ControlErrors == {"Invalid Jump Target", "Missing Call Metadata",
                  "Invalid Call Target", "Invalid Return Target",
                  "Function return slot range is invalid",
                  "Function return value is uninitialized", "Invalid OPR Code"}
ReportErrors  == {"Uninitialized value cannot be written",
                  "IndexOutOfBoundsException", "RangeCheckException",
                  "range operands must be numeric"}
Errors == StackErrors \cup AccessErrors \cup ControlErrors \cup ReportErrors
            \cup OperationErrors \cup {Silent}

\* Every variable keeps its type whatever code is run: the stack never outgrows
\* its limit, no integer outside Arion's range is ever on it or in memory, and
\* the program counter stays on the code or just past it.
TypeOK ==
    /\ prog \in DOMAIN Library
    /\ pc \in 0..Len(Code)
    /\ stack \in Seq(Value) /\ Len(stack) <= MaxStack
    /\ memory \in Seq(Value)
    /\ frame \in FrameRecord
    /\ display \in [Levels -> DisplayEntry]
    /\ callDepth \in 0..MaxCallDepth
    /\ output \in Seq(Written)
    /\ stopped \in BOOLEAN
    /\ error \in Errors \cup {NoError}
    /\ result \in {"running", "true", "false"}

\* "Stack Overflow" is the truth: a run it ends has the stack filled to its
\* limit, a call that did not fit included, or is at the limit of the call depth.
OverflowMeansFull ==
    error = "Stack Overflow" =>
        /\ result = "false"
        /\ Len(stack) = MaxStack \/ callDepth = MaxCallDepth

\* Only the main program stops the machine, and a run that is reported successful
\* ended in it: neither a RET too many nor code that runs out inside a subprogram
\* passes for success.
EndsInMain == stopped \/ result = "true" => callDepth = 0

\* The three are inductive together.
MachineInvariant == TypeOK /\ OverflowMeansFull /\ EndsInMain
=============================================================================
