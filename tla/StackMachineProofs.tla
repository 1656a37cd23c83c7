-------------------------- MODULE StackMachineProofs --------------------------
(***************************************************************************)
(* The executor keeps its state well typed, reports an overflow only when  *)
(* there is one, and succeeds only in the main program: whatever code it   *)
(* is given and whatever its limits are.                                   *)
(***************************************************************************)
EXTENDS StackMachine, OperationsProofs

-----------------------------------------------------------------------------
(* The addresses of frame slots, as the generator encodes and the executor *)
(* decodes them, for every base, stride and number of levels.              *)

\* A product is monotonic in a factor.
LEMMA ProductMonotonic ==
    ASSUME NEW a \in Int, NEW b \in Int, NEW s \in Nat, a <= b
    PROVE  a * s <= b * s
<1>1. PICK d \in Nat : b = a + d
  <2>1. b - a \in Nat /\ b = a + (b - a)
    OBVIOUS
  <2> QED
    BY <2>1
<1>2. d * s \in Nat /\ b * s = a * s + d * s
  BY <1>1
<1> QED
  BY <1>2

\* The quotient is the number of whole strides.
LEMMA WholeStrides ==
    ASSUME NEW s \in Nat \ {0}, NEW k \in Int, NEW n \in Int,
           k * s <= n, n < k * s + s
    PROVE  n \div s = k
<1>1. PICK q \in Int : q = n \div s /\ q * s <= n /\ n < q * s + s
  <2>1. n \div s \in Int /\ s * (n \div s) <= n /\ n < s * (n \div s) + s
    BY SMT
  <2>2. s * (n \div s) = (n \div s) * s
    BY <2>1
  <2> QED
    BY <2>1, <2>2
<1>2. CASE q < k
  <2>1. (q + 1) * s <= k * s
    BY <1>2, ProductMonotonic
  <2>2. (q + 1) * s = q * s + s
    OBVIOUS
  <2> QED
    BY <1>1, <2>1, <2>2
<1>3. CASE k < q
  <2>1. (k + 1) * s <= q * s
    BY <1>3, ProductMonotonic
  <2>2. (k + 1) * s = k * s + s
    OBVIOUS
  <2> QED
    BY <1>1, <2>1, <2>2
<1> QED
  BY <1>1, <1>2, <1>3

\* The executor finds the level and the offset the generator encoded, as long
\* as the offset is less than a stride.
THEOREM AddressRoundTrip ==
    ASSUME NEW level \in Levels, NEW offset \in 0..(LevelStride - 1)
    PROVE  LET address == FrameAddress(level, offset)
           IN  /\ IsFrameAddress(address)
               /\ DecodedLevel(address) = level
               /\ DecodedOffset(address) = offset
<1>1. level \in Nat \ {0} /\ LevelStride \in Nat \ {0} /\ FrameBase \in Int
  BY FrameAddressAssumption DEF Levels
<1>2. PICK band \in Int : band = level * LevelStride
  BY <1>1
<1>3. LevelStride <= band
  <2>1. 1 * LevelStride <= level * LevelStride
    BY <1>1, ProductMonotonic
  <2> QED
    BY <1>1, <1>2, <2>1
<1>4. PICK address \in Int : address = FrameAddress(level, offset)
                             /\ address = FrameBase - band + offset
  BY <1>1, <1>2 DEF FrameAddress
<1>5. address < FrameBase
  BY <1>1, <1>3, <1>4
<1>6. LevelOf(address) = level
  <2>1. PICK n \in Int : n = FrameBase - address + LevelStride - 1
    BY <1>1
  <2>2. level * LevelStride <= n /\ n < level * LevelStride + LevelStride
    BY <1>1, <1>2, <1>4, <2>1
  <2>3. n \div LevelStride = level
    BY <1>1, <2>2, WholeStrides
  <2> QED
    BY <2>1, <2>3 DEF LevelOf
<1>7. IsFrameAddress(address) /\ DecodedLevel(address) = level
  BY <1>1, <1>5, <1>6 DEF IsFrameAddress, DecodedLevel
<1>8. DecodedOffset(address) = offset
  BY <1>1, <1>2, <1>4, <1>5, <1>6 DEF DecodedOffset
<1> QED
  BY <1>4, <1>7, <1>8

\* The addresses of two slots are different: no slot of a level, and no slot of
\* the running frame, is reached through the address of another.
THEOREM AddressesAreDistinct ==
    ASSUME NEW level1 \in Levels, NEW offset1 \in 0..(LevelStride - 1),
           NEW level2 \in Levels, NEW offset2 \in 0..(LevelStride - 1),
           FrameAddress(level1, offset1) = FrameAddress(level2, offset2)
    PROVE  level1 = level2 /\ offset1 = offset2
BY AddressRoundTrip

\* An address decoded as one of a level's frame is below the base and encodes
\* the level and the offset found; the offset is within a stride.
THEOREM DecodingIsSound ==
    ASSUME NEW address \in Int, IsFrameAddress(address), address < FrameBase
    PROVE  /\ DecodedLevel(address) \in Levels
           /\ DecodedOffset(address) \in 0..(LevelStride - 1)
           /\ FrameAddress(DecodedLevel(address), DecodedOffset(address)) = address
<1>1. LevelStride \in Nat \ {0} /\ FrameBase \in Int /\ FrameBase < 0
  BY FrameAddressAssumption
<1>2. PICK level \in Int : level = LevelOf(address) /\ level \in Levels
  BY <1>1 DEF IsFrameAddress, Levels
<1>3. DecodedLevel(address) = level
  BY <1>1, <1>2 DEF DecodedLevel
<1>4. PICK band \in Int : band = level * LevelStride
  BY <1>1
<1>5. DecodedOffset(address) = band - (FrameBase - address)
  BY <1>1, <1>2, <1>4 DEF DecodedOffset
<1>6. PICK n \in Int : n = FrameBase - address + LevelStride - 1
  BY <1>1
<1>7. band <= n /\ n < band + LevelStride
  <2>1. level = n \div LevelStride
    BY <1>2, <1>6 DEF LevelOf
  <2>2. LevelStride * (n \div LevelStride) <= n
        /\ n < LevelStride * (n \div LevelStride) + LevelStride
    BY <1>1, SMT
  <2>3. LevelStride * level = band
    BY <1>1, <1>4
  <2> QED
    BY <2>1, <2>2, <2>3
<1>8. DecodedOffset(address) \in 0..(LevelStride - 1)
  BY <1>1, <1>5, <1>6, <1>7
<1>9. FrameAddress(level, DecodedOffset(address)) = address
  BY <1>1, <1>4, <1>5 DEF FrameAddress
<1> QED
  BY <1>2, <1>3, <1>8, <1>9

-----------------------------------------------------------------------------
(* The executor. *)

\* What lies below the n topmost elements of a sequence.
LEMMA PrefixProperties ==
    ASSUME NEW S, NEW s \in Seq(S), NEW n \in 0..Len(s)
    PROVE  /\ SubSeq(s, 1, n) \in Seq(S)
           /\ Len(SubSeq(s, 1, n)) = n
           /\ \A i \in 1..n : SubSeq(s, 1, n)[i] = s[i]
<1>1. Len(s) \in Nat /\ n \in Int
  BY LenProperties
<1>2. \A i \in 1..n : s[i] \in S
  BY <1>1, ElementOfSeq
<1>3. n \in Nat /\ n - 1 + 1 = n
  BY <1>1
<1> QED
  BY <1>1, <1>2, <1>3, SubSeqProperties

\* The operands popped and the stack left when n of them are popped.
LEMMA PoppedIsTyped ==
    ASSUME stack \in Seq(Value), NEW n \in 0..Len(stack)
    PROVE  /\ Below(n) \in Seq(Value)
           /\ Len(Below(n)) = Len(stack) - n
           /\ \A i \in 1..n : Operand(n, i) \in Value
<1>1. Len(stack) \in Nat
  BY LenProperties
<1>2. Below(n) \in Seq(Value) /\ Len(Below(n)) = Len(stack) - n
  BY <1>1, PrefixProperties DEF Below
<1>3. ASSUME NEW i \in 1..n PROVE Operand(n, i) \in Value
  <2>1. Len(stack) - n + i \in 1..Len(stack)
    BY <1>1
  <2> QED
    BY <2>1, ElementOfSeq DEF Operand
<1> QED
  BY <1>2, <1>3

\* The instruction under the program counter.
LEMMA FetchedIsTyped ==
    ASSUME TypeOK, InLoop
    PROVE  /\ Fetched \in Instruction
           /\ Code \in Seq(Instruction)
           /\ Len(Code) \in Nat
           /\ pc + 1 \in 0..Len(Code)
<1>1. Code \in Seq(Instruction)
  BY LibraryAssumption DEF TypeOK, Code, IsInstructionList
<1>2. Len(Code) \in Nat
  BY <1>1, LenProperties
<1>3. pc + 1 \in 1..Len(Code)
  BY <1>2 DEF TypeOK, InLoop
<1>4. Fetched \in Instruction
  BY <1>1, <1>3, ElementOfSeq DEF Fetched
<1> QED
  BY <1>1, <1>2, <1>3, <1>4

------------------------------------------------------------------------------
(* The ways an instruction ends. *)

\* A stack the machine may leave.
Fits(left) == left \in Seq(Value) /\ Len(left) <= MaxStack

\* An error that is what it says.
Truthful(kind, left) ==
    /\ kind \in Errors
    /\ kind = "Stack Overflow" => Len(left) = MaxStack \/ callDepth = MaxCallDepth

LEMMA InvariantAtInit == Init => MachineInvariant
<1> SUFFICES ASSUME Init PROVE MachineInvariant
  OBVIOUS
<1> USE DEF Init
<1>1. pc \in 0..Len(Code)
  <2>1. Code \in Seq(Instruction)
    BY LibraryAssumption DEF Code, IsInstructionList
  <2> QED
    BY <2>1, LenProperties
<1>2. stack \in Seq(Value) /\ Len(stack) <= MaxStack
  BY EmptySeq, StackMachineAssumption
<1>3. memory \in Seq(Value) /\ output \in Seq(Written)
  BY EmptySeq
<1>4. frame \in FrameRecord
  BY DEF NoFrame, FrameRecord
<1>5. display \in [Levels -> DisplayEntry]
  BY DEF NoEntry, DisplayEntry
<1>6. callDepth \in 0..MaxCallDepth
  BY StackMachineAssumption
<1>7. error \in Errors \cup {NoError}
  OBVIOUS
<1> QED
  BY <1>1, <1>2, <1>3, <1>4, <1>5, <1>6, <1>7
     DEF MachineInvariant, TypeOK, OverflowMeansFull, EndsInMain, NoError

LEMMA FailKeeps ==
    ASSUME MachineInvariant, result = "running",
           NEW kind, NEW left, Fits(left), Truthful(kind, left),
           Fail(kind, left)
    PROVE  MachineInvariant'
<1>1. TypeOK'
  BY DEF MachineInvariant, TypeOK, Fits, Truthful, Fail, Code
<1>2. OverflowMeansFull'
  BY DEF OverflowMeansFull, Truthful, Fail
<1>3. EndsInMain'
  BY DEF MachineInvariant, EndsInMain, Fail
<1> QED
  BY <1>1, <1>2, <1>3 DEF MachineInvariant

LEMMA ContinueKeeps ==
    ASSUME MachineInvariant, result = "running",
           NEW at \in 0..Len(Code), NEW left, Fits(left), Continue(at, left),
           memory' \in Seq(Value), output' \in Seq(Written)
    PROVE  MachineInvariant'
<1>1. TypeOK'
  BY DEF MachineInvariant, TypeOK, Fits, Continue, Code
<1>2. OverflowMeansFull'
  BY DEF MachineInvariant, OverflowMeansFull, Continue
<1>3. EndsInMain'
  BY DEF MachineInvariant, EndsInMain, Continue
<1> QED
  BY <1>1, <1>2, <1>3 DEF MachineInvariant

LEMMA BelowFits ==
    ASSUME TypeOK, NEW n \in 0..Len(stack)
    PROVE  Fits(Below(n))
<1>1. Len(stack) \in Nat
  BY LenProperties DEF TypeOK
<1> QED
  BY <1>1, PoppedIsTyped, StackMachineAssumption DEF TypeOK, Fits

LEMMA UnderflowKeeps ==
    ASSUME MachineInvariant, result = "running", NEW n \in Nat, Underflow(n)
    PROVE  MachineInvariant'
<1>1. Fits(<<>>)
  BY EmptySeq, StackMachineAssumption DEF Fits
<1>2. Truthful("Stack Underflow", <<>>)
  BY DEF Truthful, Errors, StackErrors
<1> QED
  BY <1>1, <1>2, FailKeeps DEF Underflow

LEMMA PushKeeps ==
    ASSUME MachineInvariant, InLoop, NEW left, Fits(left), NEW value \in Value,
           PushAndNext(left, value)
    PROVE  MachineInvariant'
<1>1. Len(left) \in Nat
  BY LenProperties DEF Fits
<1>2. CASE Len(left) >= MaxStack /\ Fail("Stack Overflow", left)
  <2>1. Len(left) = MaxStack
    <3>1. Len(left) >= MaxStack
      BY <1>2
    <3>2. Len(left) <= MaxStack
      BY DEF Fits
    <3> QED
      BY <1>1, <3>1, <3>2, StackMachineAssumption
  <2>2. Truthful("Stack Overflow", left)
    BY <2>1 DEF Truthful, Errors, StackErrors
  <2> QED
    BY <1>2, <2>2, FailKeeps DEF InLoop
<1>3. CASE /\ Len(left) < MaxStack
           /\ Continue(pc + 1, Append(left, value))
           /\ UNCHANGED <<memory, output>>
  <2>1. Fits(Append(left, value))
    BY <1>1, <1>3, AppendProperties, StackMachineAssumption DEF Fits
  <2>2. pc + 1 \in 0..Len(Code)
    BY FetchedIsTyped DEF MachineInvariant
  <2> QED
    BY <1>3, <2>1, <2>2, ContinueKeeps DEF MachineInvariant, TypeOK, InLoop
<1> QED
  BY <1>2, <1>3 DEF PushAndNext

LEMMA ReplaceKeeps ==
    ASSUME MachineInvariant, InLoop, NEW n \in Nat \ {0}, NEW outcome,
           Len(stack) >= n => Sound(outcome),
           Replace(n, outcome)
    PROVE  MachineInvariant'
<1>1. Len(stack) \in Nat
  BY LenProperties DEF MachineInvariant, TypeOK
<1>2. CASE Underflow(n)
  BY <1>2, UnderflowKeeps DEF InLoop
<1>3. ASSUME Len(stack) >= n
      PROVE  /\ Fits(Below(n))
             /\ Len(Below(n)) = Len(stack) - n
             /\ Len(stack) <= MaxStack
  BY <1>1, <1>3, BelowFits, PoppedIsTyped DEF MachineInvariant, TypeOK
<1>4. CASE Len(stack) >= n /\ outcome.error # NoError /\ Fail(outcome.error, Below(n))
  <2>1. Truthful(outcome.error, Below(n))
    BY <1>4 DEF Truthful, Errors, Sound, OperationErrors, NoError
  <2> QED
    BY <1>3, <1>4, <2>1, FailKeeps DEF InLoop
<1>5. CASE /\ Len(stack) >= n /\ outcome.error = NoError
           /\ Continue(pc + 1, Append(Below(n), outcome.value))
           /\ UNCHANGED <<memory, output>>
  <2>1. outcome.value \in Value
    BY <1>5 DEF Sound
  <2>2. Fits(Append(Below(n), outcome.value))
    BY <1>1, <1>3, <1>5, <2>1, AppendProperties, StackMachineAssumption DEF Fits
  <2>3. pc + 1 \in 0..Len(Code)
    BY FetchedIsTyped DEF MachineInvariant
  <2> QED
    BY <1>5, <2>2, <2>3, ContinueKeeps DEF MachineInvariant, TypeOK, InLoop
<1> QED
  BY <1>2, <1>4, <1>5 DEF Replace

------------------------------------------------------------------------------
(* One lemma per instruction. *)

\* Facts every instruction starts from.
LEMMA AtInstruction ==
    ASSUME MachineInvariant, InLoop
    PROVE  /\ TypeOK
           /\ result = "running"
           /\ stack \in Seq(Value) /\ Len(stack) \in Nat /\ Fits(stack)
           /\ memory \in Seq(Value) /\ Len(memory) \in Nat
           /\ output \in Seq(Written)
           /\ Fetched \in Instruction
           /\ pc + 1 \in 0..Len(Code)
BY FetchedIsTyped, LenProperties DEF MachineInvariant, InLoop, TypeOK, Fits

LEMMA IntKeeps == MachineInvariant /\ Int_ => MachineInvariant'
<1> SUFFICES ASSUME MachineInvariant, Int_ PROVE MachineInvariant'
  OBVIOUS
<1>1. InLoop
  BY DEF Int_, Executing
<1>2. CASE Fetched.operand < 0 /\ Fail("INT memory allocation failed", stack)
  <2>1. Truthful("INT memory allocation failed", stack)
    BY DEF Truthful, Errors, AccessErrors
  <2> QED
    BY <1>1, <1>2, <2>1, AtInstruction, FailKeeps
<1>3. CASE /\ Fetched.operand >= 0
           /\ memory' = [cell \in 1..Fetched.operand |-> None]
           /\ Continue(pc + 1, stack)
           /\ UNCHANGED output
  <2>1. Fetched.operand \in Nat
    BY <1>1, <1>3, AtInstruction DEF Instruction
  <2>2. None \in Value
    BY ValuesAreValues
  <2>3. [cell \in 1..Fetched.operand |-> None] \in [1..Fetched.operand -> Value]
    BY <2>2
  <2>4. memory' \in Seq(Value)
    BY <1>3, <2>1, <2>3, SeqDef
  <2>5. output' \in Seq(Written)
    BY <1>1, <1>3, AtInstruction
  <2> QED
    BY <1>1, <1>3, <2>4, <2>5, AtInstruction, ContinueKeeps
<1> QED
  BY <1>2, <1>3 DEF Int_

LEMMA LiteralKeeps == MachineInvariant /\ Literal => MachineInvariant'
<1> SUFFICES ASSUME MachineInvariant, Literal PROVE MachineInvariant'
  OBVIOUS
<1>1. InLoop
  BY DEF Literal, Executing
<1>2. Fetched.literal \in LiteralValue
  BY <1>1, AtInstruction DEF Instruction
<1>3. CASE LiteralError # NoError /\ Fail(LiteralError, stack)
  <2>1. LiteralError \in {"Numerical Overflow", "Numerical Underflow"}
    BY <1>3 DEF LiteralError, RangeError, NoError
  <2>2. Truthful(LiteralError, stack)
    BY <2>1 DEF Truthful, Errors, OperationErrors
  <2> QED
    BY <1>1, <1>3, <2>2, AtInstruction, FailKeeps
<1>4. CASE LiteralError = NoError /\ PushAndNext(stack, Fetched.literal)
  <2>1. CASE Fetched.literal \in Value
    BY <1>1, <1>4, <2>1, AtInstruction, PushKeeps
  <2>2. CASE Fetched.literal \in [type : {"integer"}, v : Int]
    <3>1. PICK n \in Int : Fetched.literal = Integer(n)
      BY <2>2 DEF Integer
    <3>2. RangeError(n) = NoError
      BY <1>4, <3>1 DEF LiteralError, Integer
    <3>3. Fetched.literal \in Value
      BY <3>1, <3>2, RangeErrorIsRange, ValuesAreValues
    <3> QED
      BY <2>1, <3>3
  <2> QED
    BY <1>2, <2>1, <2>2 DEF LiteralValue
<1> QED
  BY <1>3, <1>4 DEF Literal

LEMMA JumpToKeeps ==
    ASSUME MachineInvariant, InLoop, NEW target \in Int, NEW left, Fits(left),
           JumpTo(target, left)
    PROVE  MachineInvariant'
<1>1. CASE ~IsTarget(target) /\ Fail("Invalid Jump Target", left)
  <2>1. Truthful("Invalid Jump Target", left)
    BY DEF Truthful, Errors, ControlErrors
  <2> QED
    BY <1>1, <2>1, AtInstruction, FailKeeps
<1>2. CASE IsTarget(target) /\ Continue(target, left) /\ UNCHANGED <<memory, output>>
  <2>1. target \in 0..Len(Code)
    BY <1>2, FetchedIsTyped DEF IsTarget, MachineInvariant
  <2>2. memory' \in Seq(Value) /\ output' \in Seq(Written)
    BY <1>2, AtInstruction
  <2> QED
    BY <1>2, <2>1, <2>2, AtInstruction, ContinueKeeps
<1> QED
  BY <1>1, <1>2 DEF JumpTo

LEMMA JumpKeeps == MachineInvariant /\ (Jump \/ JumpIfZero) => MachineInvariant'
<1> SUFFICES ASSUME MachineInvariant, Jump \/ JumpIfZero PROVE MachineInvariant'
  OBVIOUS
<1>1. InLoop
  BY DEF Jump, JumpIfZero, Executing
<1>2. Fetched.operand \in Int
  BY <1>1, AtInstruction DEF Instruction
<1>3. CASE Jump
  BY <1>1, <1>2, <1>3, AtInstruction, JumpToKeeps DEF Jump
<1>4. CASE JumpIfZero
  <2>1. CASE Underflow(1)
    BY <1>1, <2>1, AtInstruction, UnderflowKeeps
  <2>2. ASSUME Len(stack) >= 1 PROVE Fits(Below(1))
    <3>1. 1 \in 0..Len(stack)
      BY <1>1, <2>2, AtInstruction
    <3> QED
      BY <1>1, <3>1, AtInstruction, BelowFits
  <2>3. CASE Len(stack) >= 1 /\ JumpTo(Fetched.operand, Below(1))
    BY <1>1, <1>2, <2>2, <2>3, JumpToKeeps
  <2>4. CASE Len(stack) >= 1 /\ Continue(pc + 1, Below(1)) /\ UNCHANGED <<memory, output>>
    BY <1>1, <2>2, <2>4, AtInstruction, ContinueKeeps
  <2> QED
    BY <1>4, <2>1, <2>3, <2>4 DEF JumpIfZero
<1> QED
  BY <1>3, <1>4

LEMMA OperateKeeps ==
    ASSUME MachineInvariant, NEW codes \in SUBSET ValueCodes, Operate(codes)
    PROVE  MachineInvariant'
<1>1. InLoop
  BY DEF Operate, Operating, Executing
<1> DEFINE n        == Arity(Fetched.operand)
           operands == [i \in 1..n |-> Operand(n, i)]
           outcome  == Outcome(Fetched.operand, operands)
<1>2. Fetched.operand \in ValueCodes
  BY DEF Operate, Operating
<1>3. n \in {1, 2}
  BY DEF Arity
<1>4. ASSUME Len(stack) >= n PROVE Sound(outcome)
  <2>1. n \in 0..Len(stack)
    BY <1>1, <1>3, <1>4, AtInstruction
  <2>2. operands \in [1..n -> Value]
    BY <1>1, <2>1, AtInstruction, PoppedIsTyped
  <2> QED
    BY <1>2, <2>2, OutcomeIsSound
<1>5. Replace(n, outcome)
  BY DEF Operate
<1> HIDE DEF n, outcome
<1> QED
  BY <1>1, <1>3, <1>4, <1>5, ReplaceKeeps

LEMMA WriteKeeps == MachineInvariant /\ Write => MachineInvariant'
<1> SUFFICES ASSUME MachineInvariant, Write PROVE MachineInvariant'
  OBVIOUS
<1>1. InLoop
  BY DEF Write, Operating, Executing
<1>2. CASE Underflow(1)
  BY <1>1, <1>2, AtInstruction, UnderflowKeeps
<1>3. ASSUME Len(stack) >= 1 PROVE Fits(Below(1)) /\ Operand(1, 1) \in Value
  <2>1. 1 \in 0..Len(stack)
    BY <1>1, <1>3, AtInstruction
  <2> QED
    BY <1>1, <2>1, AtInstruction, BelowFits, PoppedIsTyped
<1>4. CASE Len(stack) >= 1 /\ Fail("Uninitialized value cannot be written", Below(1))
  <2>1. Truthful("Uninitialized value cannot be written", Below(1))
    BY DEF Truthful, Errors, ReportErrors
  <2> QED
    BY <1>1, <1>3, <1>4, <2>1, AtInstruction, FailKeeps
<1>5. CASE /\ Len(stack) >= 1
           /\ output' = Append(output, [value   |-> Operand(1, 1),
                                        newline |-> Fetched.operand = OPR_WRTLN])
           /\ Continue(pc + 1, Below(1))
           /\ UNCHANGED memory
  <2>1. [value |-> Operand(1, 1), newline |-> Fetched.operand = OPR_WRTLN] \in Written
    BY <1>3, <1>5 DEF Written
  <2>2. output' \in Seq(Written) /\ memory' \in Seq(Value)
    BY <1>1, <1>5, <2>1, AtInstruction, AppendProperties
  <2> QED
    BY <1>1, <1>3, <1>5, <2>2, AtInstruction, ContinueKeeps
<1> QED
  BY <1>2, <1>4, <1>5 DEF Write

LEMMA ReportRangeKeeps == MachineInvariant /\ ReportRange => MachineInvariant'
<1> SUFFICES ASSUME MachineInvariant, ReportRange PROVE MachineInvariant'
  OBVIOUS
<1>1. InLoop
  BY DEF ReportRange, Operating, Executing
<1>2. CASE Underflow(3)
  BY <1>1, <1>2, AtInstruction, UnderflowKeeps
<1>3. CASE ~Underflow(3)
  <2>1. PICK exception \in {"IndexOutOfBoundsException", "RangeCheckException"} :
           /\ Len(stack) >= 3
           /\ Fail(RangeReport(exception, [i \in 1..3 |-> Operand(3, i)]).error, Below(3))
    BY <1>3 DEF ReportRange
  <2> DEFINE kind == RangeReport(exception, [i \in 1..3 |-> Operand(3, i)]).error
  <2>2. kind \in {"IndexOutOfBoundsException", "RangeCheckException",
                  "range operands must be numeric"}
    BY DEF RangeReport, Refuse
  <2> HIDE DEF kind
  <2>3. Truthful(kind, Below(3))
    BY <2>2 DEF Truthful, Errors, ReportErrors
  <2>4. Fits(Below(3))
    <3>1. 3 \in 0..Len(stack)
      BY <1>1, <2>1, AtInstruction
    <3> QED
      BY <1>1, <3>1, AtInstruction, BelowFits
  <2> QED
    BY <1>1, <2>1, <2>3, <2>4, AtInstruction, FailKeeps DEF kind
<1> QED
  BY <1>2, <1>3

LEMMA DiscardKeeps == MachineInvariant /\ Discard => MachineInvariant'
<1> SUFFICES ASSUME MachineInvariant, Discard PROVE MachineInvariant'
  OBVIOUS
<1>1. InLoop
  BY DEF Discard, Operating, Executing
<1>2. CASE Underflow(1)
  BY <1>1, <1>2, AtInstruction, UnderflowKeeps
<1>3. CASE Len(stack) >= 1 /\ Continue(pc + 1, Below(1)) /\ UNCHANGED <<memory, output>>
  <2>1. 1 \in 0..Len(stack)
    BY <1>1, <1>3, AtInstruction
  <2>2. Fits(Below(1))
    BY <1>1, <2>1, AtInstruction, BelowFits
  <2> QED
    BY <1>1, <1>3, <2>2, AtInstruction, ContinueKeeps
<1> QED
  BY <1>2, <1>3 DEF Discard

LEMMA InvalidOperationKeeps == MachineInvariant /\ InvalidOperation => MachineInvariant'
<1> SUFFICES ASSUME MachineInvariant, InvalidOperation PROVE MachineInvariant'
  OBVIOUS
<1>1. InLoop /\ Fail("Invalid OPR Code", stack)
  BY DEF InvalidOperation, Executing
<1>2. Truthful("Invalid OPR Code", stack)
  BY DEF Truthful, Errors, ControlErrors
<1> QED
  BY <1>1, <1>2, AtInstruction, FailKeeps

LEMMA LeaveKeeps == MachineInvariant /\ Leave => MachineInvariant'
<1> SUFFICES ASSUME MachineInvariant, Leave PROVE MachineInvariant'
  OBVIOUS
<1>1. result = "running"
  BY DEF Leave
<1>2. CASE Fail("Stack Corruption", stack)
  <2>1. Truthful("Stack Corruption", stack)
    BY DEF Truthful, Errors, StackErrors
  <2>2. Fits(stack)
    BY DEF MachineInvariant, TypeOK, Fits
  <2> QED
    BY <1>1, <1>2, <2>1, <2>2, FailKeeps
<1>3. CASE /\ stopped \/ callDepth = 0
           /\ result' = "true"
           /\ UNCHANGED <<prog, pc, stack, memory, frame, display, callDepth,
                          output, stopped, error>>
  <2>1. TypeOK'
    BY <1>3 DEF MachineInvariant, TypeOK, Code
  <2>2. OverflowMeansFull'
    BY <1>1, <1>3 DEF MachineInvariant, OverflowMeansFull
  <2>3. EndsInMain'
    BY <1>3 DEF MachineInvariant, EndsInMain
  <2> QED
    BY <2>1, <2>2, <2>3 DEF MachineInvariant
<1> QED
  BY <1>2, <1>3 DEF Leave

\* A word of the linkage that RET has found intact.
LEMMA SavedIsTyped ==
    ASSUME TypeOK, ReturnError = NoError
    PROVE  /\ \A w \in 1..LinkageWords : Saved(frame, w) \in Int
           /\ CallerOf(frame) \in FrameRecord
           /\ DisplacedBy(frame) \in DisplayEntry
<1>1. /\ Len(stack) = frame.bp + frame.slots + LinkageWords
      /\ \A w \in 1..LinkageWords : IsNumeric(Word(frame, w))
  BY DEF ReturnError, NoError
<1>2. frame.bp \in Nat /\ frame.slots \in Nat
  BY DEF TypeOK, FrameRecord
<1>3. ASSUME NEW w \in 1..LinkageWords PROVE Saved(frame, w) \in Int
  <2>1. frame.bp + frame.slots + w \in 1..Len(stack)
    <3>1. PICK base \in Nat : base = frame.bp + frame.slots
      BY <1>2
    <3>2. base + w \in 1..(base + LinkageWords)
      BY DEF LinkageWords
    <3> QED
      BY <1>1, <3>1, <3>2
  <2>2. Word(frame, w) \in Value
    BY <2>1, ElementOfSeq DEF Word, TypeOK
  <2> QED
    BY <1>1, <2>2, NumericViews DEF Saved
<1>4. \A n \in Int : Count(n) \in Nat
  BY DEF Count
<1>5. /\ Saved(frame, 1) \in Int /\ Saved(frame, 2) \in Int /\ Saved(frame, 3) \in Int
      /\ Saved(frame, 4) \in Int /\ Saved(frame, 6) \in Int
      /\ Saved(frame, 9) \in Int /\ Saved(frame, 10) \in Int
  BY <1>3 DEF LinkageWords
<1>6. CallerOf(frame) \in FrameRecord
  BY <1>4, <1>5 DEF CallerOf, FrameRecord
<1>7. DisplacedBy(frame) \in DisplayEntry
  BY <1>4, <1>5 DEF DisplacedBy, DisplayEntry
<1> QED
  BY <1>3, <1>6, <1>7

\* The stack a return leaves: what was below the frame, and the slots returned.
LEMMA ReturnedFits ==
    ASSUME TypeOK, ReturnError = NoError
    PROVE  LET left == SubSeq(stack, 1, frame.bp) \o ReturnedSlots
           IN  /\ Fits(left)
               /\ Len(left) = frame.bp + (IF ReturnsValue THEN frame.returnSlots ELSE 0)
               /\ \A i \in 1..frame.bp : left[i] = stack[i]
<1>1. PICK bp \in Nat, slots \in Nat, offset \in Int, count \in Int, size \in Nat :
         /\ bp = frame.bp /\ slots = frame.slots
         /\ offset = frame.returnOffset /\ count = frame.returnSlots
         /\ size = Len(stack)
  <2>1. Len(stack) \in Nat
    BY LenProperties DEF TypeOK
  <2> QED
    BY <2>1 DEF TypeOK, FrameRecord
<1>2. size = bp + slots + LinkageWords /\ size <= MaxStack
  BY <1>1 DEF ReturnError, NoError, TypeOK
<1> DEFINE below == SubSeq(stack, 1, bp)
<1>3. /\ below \in Seq(Value) /\ Len(below) = bp
      /\ \A i \in 1..bp : below[i] = stack[i]
  <2>1. bp \in 0..size
    BY <1>2 DEF LinkageWords
  <2> QED
    BY <1>1, <2>1, PrefixProperties DEF TypeOK
<1>4. CASE ReturnsValue
  <2>1. offset >= 0 /\ count > 0
    BY <1>1, <1>4 DEF ReturnsValue
  <2>2. offset + count <= slots
    <3>1. ~(offset + count > slots)
      BY <1>1, <1>4 DEF ReturnError, NoError
    <3> QED
      BY <3>1
  <2>3. PICK first \in Int, last \in Int : first = bp + offset + 1 /\ last = bp + offset + count
    OBVIOUS
  <2>4. ReturnedSlots = SubSeq(stack, first, last)
    BY <1>1, <1>4, <2>3 DEF ReturnedSlots
  <2>5. \A i \in first..last : i \in 1..size
    BY <1>2, <2>1, <2>2, <2>3 DEF LinkageWords
  <2>6. \A i \in first..last : stack[i] \in Value
    BY <1>1, <2>5, ElementOfSeq DEF TypeOK
  <2>7. ReturnedSlots \in Seq(Value)
    BY <2>4, <2>6, SubSeqProperties
  <2>8. Len(ReturnedSlots) = count
    <3>1. Len(ReturnedSlots) = IF first <= last THEN last - first + 1 ELSE 0
      BY <2>4, <2>6, SubSeqProperties
    <3>2. first <= last /\ last - first + 1 = count
      BY <2>1, <2>3
    <3> QED
      BY <3>1, <3>2
  <2> HIDE DEF below
  <2>9. /\ below \o ReturnedSlots \in Seq(Value)
        /\ Len(below \o ReturnedSlots) = bp + count
        /\ \A i \in 1..bp : (below \o ReturnedSlots)[i] = stack[i]
    <3>1. \A i \in 1..bp : i \in 1..(bp + count) /\ i <= bp
      BY <2>1
    <3> QED
      BY <1>3, <2>7, <2>8, <3>1, ConcatProperties
  <2>10. bp + count <= MaxStack
    BY <1>2, <2>1, <2>2, StackMachineAssumption DEF LinkageWords
  <2>11. Fits(below \o ReturnedSlots)
    BY <2>9, <2>10 DEF Fits
  <2> QED
    BY <1>1, <1>4, <2>9, <2>11 DEF below
<1>5. CASE ~ReturnsValue
  <2>1. ReturnedSlots = <<>>
    BY <1>5 DEF ReturnedSlots
  <2>2. bp <= MaxStack
    BY <1>2, StackMachineAssumption DEF LinkageWords
  <2> HIDE DEF below
  <2>3. below \o <<>> = below
    BY <1>3, ConcatEmptySeq
  <2>4. /\ Fits(below \o ReturnedSlots) /\ Len(below \o ReturnedSlots) = bp + 0
        /\ \A i \in 1..bp : (below \o ReturnedSlots)[i] = stack[i]
    BY <1>3, <2>1, <2>2, <2>3 DEF Fits
  <2> QED
    BY <1>1, <1>5, <2>4 DEF below
<1> QED
  BY <1>4, <1>5

LEMMA ReturnKeeps == MachineInvariant /\ Return => MachineInvariant'
<1> SUFFICES ASSUME MachineInvariant, Return PROVE MachineInvariant'
  OBVIOUS
<1>1. InLoop
  BY DEF Return, Executing
<1>2. TypeOK /\ OverflowMeansFull /\ EndsInMain /\ result = "running"
  BY <1>1, AtInstruction DEF MachineInvariant
<1>3. CASE /\ callDepth = 0
           /\ stopped' = TRUE
           /\ UNCHANGED <<prog, pc, stack, memory, frame, display, callDepth,
                          output, error, result>>
  <2>1. TypeOK'
    BY <1>2, <1>3 DEF TypeOK, Code
  <2>2. OverflowMeansFull' /\ EndsInMain'
    BY <1>2, <1>3 DEF OverflowMeansFull, EndsInMain
  <2> QED
    BY <2>1, <2>2 DEF MachineInvariant
<1>4. CASE callDepth > 0 /\ ReturnError # NoError /\ Fail(ReturnError, stack)
  <2>1. ReturnError \in {"Stack Corruption", "Function return slot range is invalid",
                         "Function return value is uninitialized"}
    BY <1>4 DEF ReturnError
  <2>2. Truthful(ReturnError, stack)
    BY <2>1 DEF Truthful, Errors, StackErrors, ControlErrors
  <2> QED
    BY <1>1, <1>4, <2>2, AtInstruction, FailKeeps
<1>5. CASE /\ callDepth > 0
           /\ ReturnError = NoError
           /\ stack' = SubSeq(stack, 1, frame.bp) \o ReturnedSlots
           /\ frame' = CallerOf(frame)
           /\ display' = IF frame.level \in Levels
                         THEN [display EXCEPT ![frame.level] = DisplacedBy(frame)]
                         ELSE display
           /\ callDepth' = callDepth - 1
           /\ \/ /\ ~IsTarget(Saved(frame, 12))
                 /\ error' = "Invalid Return Target"
                 /\ result' = "false"
                 /\ pc' = pc
              \/ /\ IsTarget(Saved(frame, 12))
                 /\ pc' = Saved(frame, 12)
                 /\ UNCHANGED <<error, result>>
           /\ UNCHANGED <<prog, memory, output, stopped>>
  <2>1. stack' \in Seq(Value) /\ Len(stack') <= MaxStack
    BY <1>2, <1>5, ReturnedFits DEF Fits
  <2>2. frame' \in FrameRecord /\ display' \in [Levels -> DisplayEntry]
    BY <1>2, <1>5, SavedIsTyped DEF TypeOK
  <2>3. callDepth' \in 0..MaxCallDepth
    <3>1. callDepth > 0 /\ callDepth' = callDepth - 1
      BY <1>5
    <3>2. callDepth \in 0..MaxCallDepth
      BY <1>2 DEF TypeOK
    <3> QED
      BY <3>1, <3>2, StackMachineAssumption
  <2>4. pc' \in 0..Len(Code)
    <3>1. pc \in 0..Len(Code) /\ Len(Code) \in Nat
      BY <1>1, <1>2, FetchedIsTyped DEF TypeOK
    <3>2. pc' = pc \/ pc' \in 0..(Len(Code) - 1)
      BY <1>5 DEF IsTarget
    <3> QED
      BY <3>1, <3>2
  <2>5. error' \in Errors \cup {NoError} /\ result' \in {"running", "true", "false"}
    BY <1>2, <1>5 DEF TypeOK, Errors, ControlErrors
  <2>6. TypeOK'
    BY <1>2, <1>5, <2>1, <2>2, <2>3, <2>4, <2>5 DEF TypeOK, Code
  <2>7. OverflowMeansFull'
    BY <1>2, <1>5 DEF OverflowMeansFull
  <2>8. EndsInMain'
    BY <1>1, <1>5 DEF EndsInMain, InLoop
  <2> QED
    BY <2>6, <2>7, <2>8 DEF MachineInvariant
<1> QED
  BY <1>3, <1>4, <1>5 DEF Return

------------------------------------------------------------------------------
\* A place found is a cell of memory or a position of the stack left; a place not
\* found comes with the reason.
SoundPlace(place, left) ==
    /\ place.error \in AccessErrors \cup {Silent, NoError}
    /\ place.error = NoError => place.area \in {"memory", "stack"}
    /\ place.area = "memory" => place.at \in 1..Len(memory)
    /\ place.area = "stack"  => place.at \in 1..Len(left)

LEMMA NoPlaceIsSound ==
    ASSUME NEW left, NEW kind \in AccessErrors \cup {Silent}
    PROVE  SoundPlace(NoPlace(kind), left)
BY DEF SoundPlace, NoPlace, NoError, AccessErrors, Silent

LEMMA MemoryPlaceIsSound ==
    ASSUME TypeOK, NEW left, NEW address \in Int
    PROVE  SoundPlace(MemoryPlace(address), left)
<1>1. PICK size \in Nat : size = Len(memory)
  BY LenProperties DEF TypeOK
<1>2. CASE 0 <= address /\ address < Len(memory)
  <2>1. MemoryPlace(address) = Place("memory", address)
    BY <1>2 DEF MemoryPlace
  <2>2. address + 1 \in 1..Len(memory)
    BY <1>1, <1>2
  <2> QED
    BY <2>1, <2>2 DEF SoundPlace, Place, NoError
<1>3. CASE ~(0 <= address /\ address < Len(memory))
  <2>1. MemoryPlace(address) = NoPlace("Memory Access Out of Bounds")
    BY <1>3 DEF MemoryPlace
  <2>2. "Memory Access Out of Bounds" \in AccessErrors
    BY DEF AccessErrors
  <2> QED
    BY <2>1, <2>2, NoPlaceIsSound
<1> QED
  BY <1>2, <1>3

LEMMA FramePlaceIsSound ==
    ASSUME NEW held, held.bp \in Nat, NEW left \in Seq(Value), NEW offset \in Nat
    PROVE  SoundPlace(FramePlace(held, left, offset), left)
<1>1. PICK size \in Nat : size = Len(left)
  BY LenProperties
<1>2. PICK at \in Nat : at = held.bp + offset
  OBVIOUS
<1>3. CASE held.active /\ offset < held.slots /\ held.bp + offset < Len(left)
  <2>1. FramePlace(held, left, offset) = Place("stack", at)
    BY <1>2, <1>3 DEF FramePlace
  <2>2. at + 1 \in 1..Len(left)
    BY <1>1, <1>2, <1>3
  <2> QED
    BY <2>1, <2>2 DEF SoundPlace, Place, NoError
<1>4. CASE ~(held.active /\ offset < held.slots /\ held.bp + offset < Len(left))
  <2>1. FramePlace(held, left, offset) = NoPlace("Stack Frame Access Out of Bounds")
    BY <1>4 DEF FramePlace
  <2>2. "Stack Frame Access Out of Bounds" \in AccessErrors
    BY DEF AccessErrors
  <2> QED
    BY <2>1, <2>2, NoPlaceIsSound
<1> QED
  BY <1>3, <1>4

LEMMA LevelPlaceIsSound ==
    ASSUME TypeOK, NEW level \in Int, NEW left \in Seq(Value), NEW offset \in Nat
    PROVE  SoundPlace(LevelPlace(level, left, offset), left)
<1>1. CASE level \in Levels
  <2>1. display[level].bp \in Nat
    BY <1>1 DEF TypeOK, DisplayEntry
  <2> QED
    BY <1>1, <2>1, FramePlaceIsSound DEF LevelPlace
<1>2. CASE level \notin Levels
  <2>1. "Invalid lexical frame level" \in AccessErrors
    BY DEF AccessErrors
  <2> QED
    BY <1>2, <2>1, NoPlaceIsSound DEF LevelPlace
<1> QED
  BY <1>1, <1>2

LEMMA AddressedPlaceIsSound ==
    ASSUME TypeOK, NEW address \in Int, NEW left \in Seq(Value)
    PROVE  SoundPlace(AddressedPlace(address, left), left)
<1>1. CASE ~IsFrameAddress(address)
  BY <1>1, MemoryPlaceIsSound DEF AddressedPlace
<1>2. CASE IsFrameAddress(address) /\ FrameBase <= address
  <2>1. DecodedLevel(address) = RunningFrame
    BY <1>2 DEF DecodedLevel
  <2>2. DecodedOffset(address) \in Nat
    BY <1>2, FrameAddressAssumption DEF DecodedOffset
  <2> DEFINE held == [active |-> callDepth > 0, bp |-> frame.bp, slots |-> frame.slots]
  <2>3. held.bp \in Nat
    BY DEF TypeOK, FrameRecord
  <2>4. AddressedPlace(address, left) = FramePlace(held, left, DecodedOffset(address))
    BY <1>2, <2>1 DEF AddressedPlace, RunningPlace
  <2> HIDE DEF held
  <2> QED
    BY <2>2, <2>3, <2>4, FramePlaceIsSound
<1>3. CASE IsFrameAddress(address) /\ address < FrameBase
  <2>1. /\ DecodedLevel(address) \in Levels
        /\ DecodedOffset(address) \in 0..(LevelStride - 1)
    BY <1>3, DecodingIsSound
  <2>2. DecodedLevel(address) # RunningFrame /\ DecodedLevel(address) \in Int
    BY <2>1, FrameAddressAssumption DEF Levels, RunningFrame
  <2>3. DecodedOffset(address) \in Nat
    BY <2>1, FrameAddressAssumption
  <2> QED
    BY <1>3, <2>2, <2>3, LevelPlaceIsSound DEF AddressedPlace
<1> QED
  BY <1>1, <1>2, <1>3, FrameAddressAssumption

LEMMA PlaceIsSound ==
    ASSUME TypeOK, NEW level \in Int, NEW operand \in Int, NEW address \in Int,
           NEW left \in Seq(Value)
    PROVE  SoundPlace(PlaceOf(level, operand, address, left), left)
<1>1. CASE level >= 2
  <2>1. PlaceOf(level, operand, address, left) =
          IF operand < 0 THEN NoPlace(Silent) ELSE LevelPlace(level - 1, left, operand)
    <3>1. level # 1 /\ level # 0 /\ ~(level < 0)
      BY <1>1
    <3> QED
      BY <1>1, <3>1, Zenon DEF PlaceOf
  <2>2. CASE operand < 0
    BY <2>1, <2>2, NoPlaceIsSound
  <2>3. CASE ~(operand < 0)
    <3>1. operand \in Nat /\ level - 1 \in Int
      BY <2>3
    <3> QED
      BY <2>1, <2>3, <3>1, LevelPlaceIsSound
  <2> QED
    BY <2>2, <2>3
<1>2. CASE level = 1
  BY <1>2, AddressedPlaceIsSound DEF PlaceOf
<1>3. CASE level = 0
  BY <1>3, MemoryPlaceIsSound DEF PlaceOf
<1>4. CASE level < 0
  <2>1. PlaceOf(level, operand, address, left) = NoPlace("Invalid addressing mode")
    BY <1>4 DEF PlaceOf
  <2>2. "Invalid addressing mode" \in AccessErrors
    BY DEF AccessErrors
  <2> QED
    BY <2>1, <2>2, NoPlaceIsSound
<1> QED
  BY <1>1, <1>2, <1>3, <1>4

\* The errors of a load or a store say what they mean.
LEMMA AccessErrorIsTruthful ==
    ASSUME NEW kind \in AccessErrors \cup {Silent}, NEW left
    PROVE  Truthful(kind, left)
BY DEF Truthful, Errors, AccessErrors, Silent

LEMMA AddressErrorIsAccessError ==
    /\ AddressError \in AccessErrors \cup {NoError}
    /\ AddressError = NoError /\ Indirect /\ stack # <<>> => IsNumeric(Operand(1, 1))
BY DEF AddressError, AccessErrors, NoError

LEMMA PoppedAddressIsTyped ==
    ASSUME TypeOK, AddressError = NoError, Indirect => stack # <<>>
    PROVE  PoppedAddress \in Int
<1>1. CASE Indirect
  <2>1. Len(stack) \in Nat \ {0}
    BY <1>1, EmptySeq DEF TypeOK
  <2>2. Operand(1, 1) \in Value
    <3>1. 1 \in 0..Len(stack)
      BY <2>1
    <3> QED
      BY <3>1, PoppedIsTyped DEF TypeOK
  <2>3. AsInteger(Operand(1, 1)) \in Int
    BY <1>1, <2>2, AddressErrorIsAccessError, NumericViews
  <2> QED
    BY <1>1, <2>3 DEF PoppedAddress
<1>2. CASE ~Indirect
  BY <1>2 DEF PoppedAddress
<1> QED
  BY <1>1, <1>2

LEMMA LoadKeeps == MachineInvariant /\ Load => MachineInvariant'
<1> SUFFICES ASSUME MachineInvariant, Load PROVE MachineInvariant'
  OBVIOUS
<1>1. InLoop
  BY DEF Load, Executing
<1>2. PICK pops \in {0, 1} : pops = IF Indirect THEN 1 ELSE 0
  OBVIOUS
<1> DEFINE left  == Below(pops)
           place == PlaceOf(Fetched.level, Fetched.operand, PoppedAddress, left)
<1>3. CASE Underflow(pops)
  BY <1>1, <1>3, AtInstruction, UnderflowKeeps
<1>4. ASSUME Len(stack) >= pops PROVE Fits(left)
  <2>1. pops \in 0..Len(stack)
    BY <1>1, <1>4, AtInstruction
  <2> QED
    BY <1>1, <2>1, AtInstruction, BelowFits
<1>5. ASSUME Len(stack) >= pops, AddressError = NoError
      PROVE  SoundPlace(place, left)
  <2>1. Indirect => stack # <<>>
    BY <1>1, <1>2, <1>5, AtInstruction, EmptySeq
  <2>2. PoppedAddress \in Int
    BY <1>1, <1>5, <2>1, AtInstruction, PoppedAddressIsTyped
  <2>3. Fetched.level \in Int /\ Fetched.operand \in Int
    BY <1>1, AtInstruction DEF Instruction
  <2>4. left \in Seq(Value)
    BY <1>4, <1>5 DEF Fits
  <2> QED
    BY <1>1, <2>2, <2>3, <2>4, AtInstruction, PlaceIsSound
<1> HIDE DEF left, place
<1>6. CASE Len(stack) >= pops /\ AddressError # NoError /\ Fail(AddressError, left)
  <2>1. Truthful(AddressError, left)
    BY <1>6, AddressErrorIsAccessError, AccessErrorIsTruthful
  <2> QED
    BY <1>1, <1>4, <1>6, <2>1, AtInstruction, FailKeeps
<1>7. CASE /\ Len(stack) >= pops /\ AddressError = NoError
           /\ place.error # NoError /\ Fail(place.error, left)
  <2>1. Truthful(place.error, left)
    BY <1>5, <1>7, AccessErrorIsTruthful DEF SoundPlace
  <2> QED
    BY <1>1, <1>4, <1>7, <2>1, AtInstruction, FailKeeps
<1>8. CASE Len(stack) >= pops /\ Fail("Loaded value is uninitialized", left)
  <2>1. Truthful("Loaded value is uninitialized", left)
    BY AccessErrorIsTruthful DEF AccessErrors
  <2> QED
    BY <1>1, <1>4, <1>8, <2>1, AtInstruction, FailKeeps
<1>9. CASE /\ Len(stack) >= pops /\ AddressError = NoError /\ place.error = NoError
           /\ PushAndNext(left, ValueAt(place, left))
  <2>1. CASE place.area = "memory"
    <3>1. ValueAt(place, left) \in Value
      BY <1>1, <1>5, <1>9, <2>1, AtInstruction, ElementOfSeq DEF SoundPlace, ValueAt
    <3> QED
      BY <1>1, <1>4, <1>9, <3>1, PushKeeps
  <2>2. CASE place.area = "stack"
    <3>1. ValueAt(place, left) \in Value
      BY <1>4, <1>5, <1>9, <2>2, ElementOfSeq DEF SoundPlace, ValueAt, Fits
    <3> QED
      BY <1>1, <1>4, <1>9, <3>1, PushKeeps
  <2> QED
    BY <1>5, <1>9, <2>1, <2>2 DEF SoundPlace
<1> QED
  BY <1>2, <1>3, <1>6, <1>7, <1>8, <1>9 DEF Load, left, place

LEMMA StoreKeeps == MachineInvariant /\ Store => MachineInvariant'
<1> SUFFICES ASSUME MachineInvariant, Store PROVE MachineInvariant'
  OBVIOUS
<1>1. InLoop
  BY DEF Store, Executing
<1>2. PICK pops \in {1, 2} : pops = IF Indirect THEN 2 ELSE 1
  OBVIOUS
<1> DEFINE left  == Below(pops)
           value == Operand(pops, 1)
           place == PlaceOf(Fetched.level, Fetched.operand, PoppedAddress, left)
<1>3. CASE AddressError # NoError /\ Fail(AddressError, Below(1))
  <2>1. Truthful(AddressError, Below(1))
    BY <1>3, AddressErrorIsAccessError, AccessErrorIsTruthful
  <2>2. Fits(Below(1))
    <3>1. stack # <<>>
      BY <1>3 DEF AddressError
    <3>2. 1 \in 0..Len(stack)
      BY <1>1, <3>1, AtInstruction, EmptySeq
    <3> QED
      BY <1>1, <3>2, AtInstruction, BelowFits
  <2> QED
    BY <1>1, <1>3, <2>1, <2>2, AtInstruction, FailKeeps
<1>4. CASE AddressError = NoError /\ Underflow(pops)
  BY <1>1, <1>4, AtInstruction, UnderflowKeeps
<1>5. ASSUME Len(stack) >= pops PROVE Fits(left) /\ value \in Value
  <2>1. pops \in 0..Len(stack) /\ 1 \in 1..pops
    BY <1>1, <1>5, AtInstruction
  <2> QED
    BY <1>1, <2>1, AtInstruction, BelowFits, PoppedIsTyped
<1>6. ASSUME Len(stack) >= pops, AddressError = NoError
      PROVE  SoundPlace(place, left)
  <2>1. Indirect => stack # <<>>
    BY <1>1, <1>2, <1>6, AtInstruction, EmptySeq
  <2>2. PoppedAddress \in Int
    BY <1>1, <1>6, <2>1, AtInstruction, PoppedAddressIsTyped
  <2>3. Fetched.level \in Int /\ Fetched.operand \in Int
    BY <1>1, AtInstruction DEF Instruction
  <2>4. left \in Seq(Value)
    BY <1>5, <1>6 DEF Fits
  <2> QED
    BY <1>1, <2>2, <2>3, <2>4, AtInstruction, PlaceIsSound
<1> HIDE DEF left, value, place
<1>7. CASE /\ AddressError = NoError /\ Len(stack) >= pops
           /\ place.error # NoError /\ Fail(place.error, left)
  <2>1. Truthful(place.error, left)
    BY <1>6, <1>7, AccessErrorIsTruthful DEF SoundPlace
  <2> QED
    BY <1>1, <1>5, <1>7, <2>1, AtInstruction, FailKeeps
<1>8. CASE /\ AddressError = NoError /\ Len(stack) >= pops
           /\ place.area = "memory"
           /\ memory' = [memory EXCEPT ![place.at] = value]
           /\ Continue(pc + 1, left)
           /\ UNCHANGED output
  <2>1. place.at \in 1..Len(memory)
    BY <1>6, <1>8 DEF SoundPlace
  <2>2. memory' \in Seq(Value) /\ output' \in Seq(Written)
    BY <1>1, <1>5, <1>8, <2>1, AtInstruction, ExceptSeq
  <2> QED
    BY <1>1, <1>5, <1>8, <2>2, AtInstruction, ContinueKeeps
<1>9. CASE /\ AddressError = NoError /\ Len(stack) >= pops
           /\ place.area = "stack"
           /\ Continue(pc + 1, [left EXCEPT ![place.at] = value])
           /\ UNCHANGED <<memory, output>>
  <2>1. place.at \in 1..Len(left)
    BY <1>6, <1>9 DEF SoundPlace
  <2>2. Fits([left EXCEPT ![place.at] = value])
    BY <1>5, <1>9, <2>1, ExceptSeq DEF Fits
  <2> QED
    BY <1>1, <1>9, <2>2, AtInstruction, ContinueKeeps
<1> QED
  BY <1>2, <1>3, <1>4, <1>7, <1>8, <1>9 DEF Store, left, value, place

------------------------------------------------------------------------------
(* CAL. *)

LEMMA CallErrorIsTruthful ==
    ASSUME TypeOK, NEW target, CallError(target) # NoError
    PROVE  Truthful(CallError(target), stack)
<1>1. CASE CallError(target) = "Stack Overflow"
  <2>1. callDepth >= MaxCallDepth
    BY <1>1 DEF CallError, Silent, NoError
  <2>2. callDepth = MaxCallDepth
    BY <2>1, StackMachineAssumption DEF TypeOK
  <2> QED
    BY <1>1, <2>2 DEF Truthful, Errors, StackErrors
<1>2. CASE CallError(target) # "Stack Overflow"
  <2>1. CallError(target) \in {"Invalid Jump Target", "Missing Call Metadata",
                               "Invalid Call Target", "Stack Underflow", Silent}
    BY <1>2 DEF CallError
  <2> QED
    BY <1>2, <2>1 DEF Truthful, Errors, StackErrors, ControlErrors
<1> QED
  BY <1>1, <1>2

\* What the checks of CAL establish.
LEMMA CallIsChecked ==
    ASSUME TypeOK, NEW target, CallError(target) = NoError
    PROVE  /\ IsTarget(target)
           /\ callDepth < MaxCallDepth
           /\ Calls[target] \in CallInfo
           /\ Calls[target].lexicalLevel \in Levels
           /\ Calls[target].frameSlotCount \in Nat
           /\ Calls[target].parameterSlotCount \in 0..Len(stack)
<1>1. /\ IsTarget(target)
      /\ ~(callDepth >= MaxCallDepth)
      /\ target \in DOMAIN Calls
      /\ Calls[target].lexicalLevel \in Levels
      /\ ~(Calls[target].parameterSlotCount < 0)
      /\ ~(Calls[target].frameSlotCount < Calls[target].parameterSlotCount)
      /\ ~(Len(stack) < Calls[target].parameterSlotCount)
  BY DEF CallError, NoError
<1>2. Calls[target] \in CallInfo
  BY <1>1, LibraryAssumption DEF TypeOK, Calls, IsInstructionList
<1>3. /\ Calls[target].frameSlotCount \in Int
      /\ Calls[target].parameterSlotCount \in Int
  BY <1>2 DEF CallInfo
<1>4. callDepth < MaxCallDepth
  BY <1>1, StackMachineAssumption DEF TypeOK
<1>5. Len(stack) \in Nat
  BY LenProperties DEF TypeOK
<1> QED
  BY <1>1, <1>2, <1>3, <1>4, <1>5

\* The slots of the callee hold parameters or nothing.
LEMMA FrameSlotsAreValues ==
    ASSUME stack \in Seq(Value), NEW info, info.frameSlotCount \in Nat,
           info.parameterSlotCount \in 0..Len(stack)
    PROVE  /\ FrameSlots(info) \in Seq(Value)
           /\ Len(FrameSlots(info)) = info.frameSlotCount
<1>1. PICK slots \in Nat, count \in 0..Len(stack) :
         slots = info.frameSlotCount /\ count = info.parameterSlotCount
  OBVIOUS
<1>2. ASSUME NEW slot \in 1..slots PROVE FrameSlots(info)[slot] \in Value
  <2>1. CASE \E p \in 1..count : info.parameterOffsets[p] = slot - 1
    <3>1. PICK q \in 1..count :
             q = CHOOSE p \in 1..count : info.parameterOffsets[p] = slot - 1
      BY <2>1
    <3>2. FrameSlots(info)[slot] = Operand(count, q)
      BY <1>1, <2>1, <3>1 DEF FrameSlots
    <3> QED
      BY <3>1, <3>2, PoppedIsTyped
  <2>2. CASE ~ \E p \in 1..count : info.parameterOffsets[p] = slot - 1
    <3>1. FrameSlots(info)[slot] = None
      BY <1>1, <2>2 DEF FrameSlots
    <3> QED
      BY <3>1, ValuesAreValues
  <2> QED
    BY <2>1, <2>2
<1>3. FrameSlots(info) \in [1..slots -> Value]
  <2>1. FrameSlots(info) = [slot \in 1..slots |-> FrameSlots(info)[slot]]
    BY <1>1 DEF FrameSlots
  <2> QED
    BY <1>2, <2>1
<1>4. FrameSlots(info) \in Seq(Value)
  BY <1>3, SeqDef
<1>5. Len(FrameSlots(info)) = slots
  BY <1>3, <1>4, LenProperties
<1> QED
  BY <1>1, <1>4, <1>5

\* The words of a linkage are integers, before their range has been checked.
WideValue == Value \cup [type : {"integer"}, v : Int]

LEMMA LinkageIsWide ==
    ASSUME TypeOK, NEW level \in Levels, NEW returnPc \in Int
    PROVE  /\ Linkage(level, returnPc) \in Seq(WideValue)
           /\ Len(Linkage(level, returnPc)) = LinkageWords
           /\ \A w \in 1..LinkageWords :
                 \E n \in Int : Linkage(level, returnPc)[w] = Integer(n)
<1> DEFINE flag(b) == IF b THEN 1 ELSE 0
           words   == <<frame.bp, frame.slots, frame.returnOffset, frame.returnSlots,
                        flag(frame.structured), frame.level, -1,
                        flag(display[level].active), display[level].bp,
                        display[level].slots, -1, returnPc, Canary>>
<1>1. /\ frame.bp \in Int /\ frame.slots \in Int /\ frame.returnOffset \in Int
      /\ frame.returnSlots \in Int /\ flag(frame.structured) \in Int
      /\ frame.level \in Int
  BY DEF TypeOK, FrameRecord
<1>2. /\ flag(display[level].active) \in Int /\ display[level].bp \in Int
      /\ display[level].slots \in Int
  BY DEF TypeOK, DisplayEntry
<1>3. Canary \in Int /\ -1 \in Int
  BY StackMachineAssumption
<1> HIDE DEF flag
<1>4. \A w \in 1..LinkageWords : words[w] \in Int
  <2> SUFFICES ASSUME NEW w \in 1..LinkageWords PROVE words[w] \in Int
    OBVIOUS
  <2>1. w \in {1, 2, 3, 4, 5, 6, 7, 8, 9, 10, 11, 12, 13}
    BY DEF LinkageWords
  <2> QED
    BY <1>1, <1>2, <1>3, <2>1
<1>5. Linkage(level, returnPc) = [w \in 1..LinkageWords |-> Integer(words[w])]
  BY DEF Linkage, flag
<1> HIDE DEF words
<1>6. \A w \in 1..LinkageWords : Linkage(level, returnPc)[w] = Integer(words[w])
  BY <1>5
<1>7. \A n \in Int : Integer(n) \in WideValue
  BY DEF WideValue, Integer
<1>8. Linkage(level, returnPc) \in [1..LinkageWords -> WideValue]
  BY <1>4, <1>5, <1>7
<1>9. Linkage(level, returnPc) \in Seq(WideValue)
  BY <1>8, SeqDef DEF LinkageWords
<1>10. Len(Linkage(level, returnPc)) = LinkageWords
  BY <1>8, <1>9, LenProperties DEF LinkageWords
<1> QED
  BY <1>4, <1>6, <1>9, <1>10

\* A word stackPush takes is a value, and there was room for it.
LEMMA PushErrorIsSound ==
    ASSUME NEW words \in Seq(WideValue), NEW i \in 1..Len(words)
    PROVE  /\ PushError(words, i) = NoError => words[i] \in Value /\ i <= MaxStack
           /\ PushError(words, i) \in {"Stack Overflow", "Numerical Overflow",
                                       "Numerical Underflow", NoError}
           /\ PushError(words, i) = "Stack Overflow" => i > MaxStack
<1>1. Len(words) \in Nat /\ words[i] \in WideValue
  BY LenProperties, ElementOfSeq
<1>2. CASE words[i].type = "integer" /\ RangeError(words[i].v) # NoError
  <2>1. PushError(words, i) = RangeError(words[i].v)
    BY <1>2 DEF PushError
  <2>2. RangeError(words[i].v) \in {"Numerical Overflow", "Numerical Underflow"}
    BY <1>2 DEF RangeError, NoError
  <2> QED
    BY <1>2, <2>1, <2>2
<1>3. CASE ~(words[i].type = "integer" /\ RangeError(words[i].v) # NoError)
  <2>1. PushError(words, i) = IF i > MaxStack THEN "Stack Overflow" ELSE NoError
    BY <1>3 DEF PushError
  <2>2. words[i] \in Value
    <3>1. CASE words[i] \in Value
      BY <3>1
    <3>2. CASE words[i] \in [type : {"integer"}, v : Int]
      <4>1. PICK n \in Int : words[i] = Integer(n)
        BY <3>2 DEF Integer
      <4>2. RangeError(n) = NoError
        BY <1>3, <4>1 DEF Integer
      <4> QED
        BY <4>1, <4>2, RangeErrorIsRange, ValuesAreValues
    <3> QED
      BY <1>1, <3>1, <3>2 DEF WideValue
  <2>3. CASE i > MaxStack
    BY <2>1, <2>3 DEF NoError
  <2>4. CASE ~(i > MaxStack)
    <3>1. i <= MaxStack
      BY <1>1, <2>4, StackMachineAssumption
    <3> QED
      BY <2>1, <2>2, <2>4, <3>1 DEF NoError
  <2> QED
    BY <2>3, <2>4
<1> QED
  BY <1>2, <1>3

\* The words up to the first one refused make a stack.
LEMMA PushedFits ==
    ASSUME NEW grown \in Seq(WideValue), NEW kept \in 0..Len(grown), kept <= MaxStack,
           \A i \in 1..kept : grown[i] \in Value,
           NEW last \in kept..Len(grown),
           \A i \in (kept + 1)..last : PushError(grown, i) = NoError
    PROVE  /\ Fits(SubSeq(grown, 1, last))
           /\ Len(SubSeq(grown, 1, last)) = last
<1>1. Len(grown) \in Nat
  BY LenProperties
<1>2. \A i \in (kept + 1)..last : grown[i] \in Value /\ i <= MaxStack
  <2> SUFFICES ASSUME NEW i \in (kept + 1)..last PROVE grown[i] \in Value /\ i <= MaxStack
    OBVIOUS
  <2>1. i \in 1..Len(grown)
    BY <1>1
  <2> QED
    BY <2>1, PushErrorIsSound
<1>3. \A i \in 1..last : grown[i] \in Value
  <2> SUFFICES ASSUME NEW i \in 1..last PROVE grown[i] \in Value
    OBVIOUS
  <2>1. i \in 1..kept \/ i \in (kept + 1)..last
    BY <1>1
  <2> QED
    BY <1>2, <2>1
<1>4. last <= MaxStack
  <2>1. CASE last = kept
    BY <2>1
  <2>2. CASE last # kept
    <3>1. last \in (kept + 1)..last
      BY <1>1, <2>2
    <3> QED
      BY <1>2, <3>1
  <2> QED
    BY <2>1, <2>2
<1>5. last \in Nat /\ last - 1 + 1 = last
  BY <1>1
<1>6. SubSeq(grown, 1, last) \in Seq(Value) /\ Len(SubSeq(grown, 1, last)) = last
  BY <1>3, <1>5, SubSeqProperties
<1> QED
  BY <1>4, <1>6 DEF Fits

\* What is put on top of a sequence leaves it as it was.
LEMMA ConcatOnTop ==
    ASSUME NEW S, NEW s \in Seq(S), NEW t \in Seq(S), NEW u \in Seq(S)
    PROVE  /\ s \o t \o u \in Seq(S)
           /\ Len(s \o t \o u) = Len(s) + Len(t) + Len(u)
           /\ \A i \in 1..Len(s) : (s \o t \o u)[i] = s[i]
<1>1. Len(s) \in Nat /\ Len(t) \in Nat /\ Len(u) \in Nat
  BY LenProperties
<1>2. PICK st \in Seq(S) : st = s \o t
  BY ConcatProperties
<1>3. Len(st) = Len(s) + Len(t)
  BY <1>2, ConcatProperties
<1>4. ASSUME NEW i \in 1..Len(s) PROVE st[i] = s[i]
  <2>1. i \in 1..(Len(s) + Len(t)) /\ i <= Len(s)
    BY <1>1
  <2> QED
    BY <1>2, <2>1, ConcatProperties
<1>5. st \o u \in Seq(S) /\ Len(st \o u) = Len(st) + Len(u)
  BY ConcatProperties
<1>6. ASSUME NEW i \in 1..Len(s) PROVE (st \o u)[i] = s[i]
  <2>1. i \in 1..(Len(st) + Len(u)) /\ i <= Len(st)
    BY <1>1, <1>3
  <2>2. (st \o u)[i] = st[i]
    BY <2>1, ConcatProperties
  <2> QED
    BY <1>4, <2>2
<1> QED
  BY <1>2, <1>3, <1>5, <1>6

LEMMA CallKeeps == MachineInvariant /\ Call => MachineInvariant'
<1> SUFFICES ASSUME MachineInvariant, Call PROVE MachineInvariant'
  OBVIOUS
<1>1. InLoop
  BY DEF Call, Executing
<1>2. TypeOK /\ OverflowMeansFull /\ EndsInMain /\ result = "running"
  BY <1>1, AtInstruction DEF MachineInvariant
<1> DEFINE target  == Fetched.operand
           info    == Calls[target]
           kept    == Below(info.parameterSlotCount)
           grown   == kept \o FrameSlots(info) \o Linkage(info.lexicalLevel, pc + 1)
           refused == RefusedPushes(grown, Len(kept))
<1>3. CASE CallError(target) # NoError /\ Fail(CallError(target), stack)
  BY <1>1, <1>2, <1>3, AtInstruction, CallErrorIsTruthful, FailKeeps
<1>4. CASE CallError(target) = NoError
  <2>1. /\ IsTarget(target) /\ callDepth < MaxCallDepth
        /\ info \in CallInfo /\ info.lexicalLevel \in Levels
        /\ info.frameSlotCount \in Nat /\ info.parameterSlotCount \in 0..Len(stack)
    BY <1>2, <1>4, CallIsChecked
  <2>2. Fits(kept)
    BY <1>2, <2>1, BelowFits
  <2>3. /\ FrameSlots(info) \in Seq(Value)
        /\ Len(FrameSlots(info)) = info.frameSlotCount
    BY <1>2, <2>1, FrameSlotsAreValues DEF TypeOK
  <2>4. /\ Linkage(info.lexicalLevel, pc + 1) \in Seq(WideValue)
        /\ Len(Linkage(info.lexicalLevel, pc + 1)) = LinkageWords
    <3>1. pc + 1 \in Int
      BY <1>2, FetchedIsTyped, <1>1
    <3> QED
      BY <1>2, <2>1, <3>1, LinkageIsWide
  <2> HIDE DEF target, info, kept
  <2>5. Value \subseteq WideValue
    BY DEF WideValue
  <2>6. kept \in Seq(Value) /\ Len(kept) \in Nat /\ Len(kept) <= MaxStack
    BY <2>2, LenProperties DEF Fits
  <2>7. kept \in Seq(WideValue) /\ FrameSlots(info) \in Seq(WideValue)
    BY <2>3, <2>5, <2>6, SeqMonotonic
  <2>8. /\ grown \in Seq(WideValue)
        /\ Len(grown) = Len(kept) + info.frameSlotCount + LinkageWords
        /\ \A i \in 1..Len(kept) : grown[i] = kept[i]
    <3>1. PICK slots \in Seq(WideValue), linkage \in Seq(WideValue) :
             /\ slots = FrameSlots(info)
             /\ linkage = Linkage(info.lexicalLevel, pc + 1)
      BY <2>4, <2>7
    <3>2. Len(slots) = info.frameSlotCount /\ Len(linkage) = LinkageWords
      BY <2>3, <2>4, <3>1
    <3>3. grown = kept \o slots \o linkage
      BY <3>1
    <3> HIDE DEF grown
    <3>4. kept \o slots \o linkage \in Seq(WideValue)
      BY <2>7, ConcatOnTop
    <3>5. Len(kept \o slots \o linkage) = Len(kept) + Len(slots) + Len(linkage)
      BY <2>7, ConcatOnTop
    <3>6. \A i \in 1..Len(kept) : (kept \o slots \o linkage)[i] = kept[i]
      BY <2>7, ConcatOnTop
    <3> QED
      BY <3>2, <3>3, <3>4, <3>5, <3>6
  <2> HIDE DEF grown
  <2>9. Len(kept) \in 0..Len(grown) /\ Len(grown) \in Nat
    BY <2>1, <2>6, <2>8 DEF LinkageWords
  <2>10. \A i \in 1..Len(kept) : grown[i] \in Value
    BY <2>6, <2>8, ElementOfSeq
  <2>11. ASSUME NEW i \in refused, \A j \in refused : i <= j,
                Fail(PushError(grown, i), SubSeq(grown, 1, i - 1))
         PROVE  MachineInvariant'
    <3>1. i \in (Len(kept) + 1)..Len(grown) /\ PushError(grown, i) # NoError
      BY DEF RefusedPushes
    <3>2. i - 1 \in Len(kept)..Len(grown) /\ i \in 1..Len(grown)
      BY <2>9, <3>1
    <3>3. \A j \in (Len(kept) + 1)..(i - 1) : PushError(grown, j) = NoError
      <4> SUFFICES ASSUME NEW j \in (Len(kept) + 1)..(i - 1) PROVE PushError(grown, j) = NoError
        OBVIOUS
      <4>1. j \in (Len(kept) + 1)..Len(grown) /\ ~(i <= j)
        BY <2>9, <3>1
      <4> QED
        BY <2>11, <4>1 DEF RefusedPushes
    <3>4. /\ Fits(SubSeq(grown, 1, i - 1))
          /\ Len(SubSeq(grown, 1, i - 1)) = i - 1
      BY <2>6, <2>8, <2>9, <2>10, <3>2, <3>3, PushedFits
    <3>5. Truthful(PushError(grown, i), SubSeq(grown, 1, i - 1))
      <4>1. CASE PushError(grown, i) = "Stack Overflow"
        <5>1. i > MaxStack /\ i - 1 <= MaxStack
          BY <2>8, <3>2, <3>4, <4>1, PushErrorIsSound DEF Fits
        <5>2. Len(SubSeq(grown, 1, i - 1)) = MaxStack
          BY <2>9, <3>1, <3>4, <5>1, StackMachineAssumption
        <5> QED
          BY <4>1, <5>2 DEF Truthful, Errors, StackErrors
      <4>2. CASE PushError(grown, i) # "Stack Overflow"
        <5>1. PushError(grown, i) \in {"Numerical Overflow", "Numerical Underflow"}
          BY <2>8, <3>1, <3>2, <4>2, PushErrorIsSound
        <5> QED
          BY <4>2, <5>1 DEF Truthful, Errors, OperationErrors
      <4> QED
        BY <4>1, <4>2
    <3> QED
      BY <1>2, <2>11, <3>4, <3>5, FailKeeps
  <2>12. CASE /\ refused = {}
              /\ pc' = target
              /\ stack' = grown
              /\ frame' = [bp |-> Len(kept), slots |-> info.frameSlotCount,
                           returnOffset |-> info.returnOffset,
                           returnSlots |-> info.returnSlotCount,
                           structured |-> info.structuredReturn,
                           level |-> info.lexicalLevel]
              /\ display' = [display EXCEPT ![info.lexicalLevel] =
                               [active |-> TRUE, bp |-> Len(kept),
                                slots |-> info.frameSlotCount]]
              /\ callDepth' = callDepth + 1
              /\ UNCHANGED <<prog, memory, output, stopped, error, result>>
    <3>1. \A i \in (Len(kept) + 1)..Len(grown) : PushError(grown, i) = NoError
      BY <2>12 DEF RefusedPushes
    <3>2. Fits(SubSeq(grown, 1, Len(grown)))
      <4>1. Len(grown) \in Len(kept)..Len(grown)
        BY <2>9
      <4> QED
        BY <2>6, <2>8, <2>9, <2>10, <3>1, <4>1, PushedFits
    <3>3. Fits(grown)
      BY <2>8, <3>2, SubSeqFull
    <3>4. stack' \in Seq(Value) /\ Len(stack') <= MaxStack
      BY <2>12, <3>3 DEF Fits
    <3>5. frame' \in FrameRecord
      BY <2>1, <2>6, <2>12 DEF FrameRecord, CallInfo
    <3>6. display' \in [Levels -> DisplayEntry]
      BY <1>2, <2>1, <2>6, <2>12 DEF TypeOK, DisplayEntry
    <3>7. callDepth' \in 0..MaxCallDepth
      <4>1. callDepth' = callDepth + 1
        BY <2>12
      <4>2. callDepth \in 0..MaxCallDepth
        BY <1>2 DEF TypeOK
      <4> QED
        BY <2>1, <4>1, <4>2, StackMachineAssumption
    <3>8. pc' \in 0..Len(Code)
      <4>1. Len(Code) \in Nat
        BY <1>1, <1>2, FetchedIsTyped
      <4>2. pc' \in 0..(Len(Code) - 1)
        BY <2>1, <2>12 DEF IsTarget
      <4> QED
        BY <4>1, <4>2
    <3>9. TypeOK'
      BY <1>2, <2>12, <3>4, <3>5, <3>6, <3>7, <3>8 DEF TypeOK, Code
    <3>10. OverflowMeansFull'
      BY <1>2, <2>12 DEF OverflowMeansFull
    <3>11. EndsInMain'
      BY <1>1, <1>2, <2>12 DEF EndsInMain, InLoop
    <3> QED
      BY <3>9, <3>10, <3>11 DEF MachineInvariant
  <2> QED
    BY <1>4, <2>11, <2>12 DEF Call, target, info, kept, grown
<1> QED
  BY <1>3, <1>4 DEF Call

------------------------------------------------------------------------------
LEMMA NextKeeps == MachineInvariant /\ [Next]_vars => MachineInvariant'
<1> SUFFICES ASSUME MachineInvariant, [Next]_vars PROVE MachineInvariant'
  OBVIOUS
<1>1. CASE Int_
  BY <1>1, IntKeeps
<1>2. CASE Literal
  BY <1>2, LiteralKeeps
<1>3. CASE Load
  BY <1>3, LoadKeeps
<1>4. CASE Store
  BY <1>4, StoreKeeps
<1>5. CASE Jump \/ JumpIfZero
  BY <1>5, JumpKeeps
<1>6. CASE Call
  BY <1>6, CallKeeps
<1>7. CASE Return
  BY <1>7, ReturnKeeps
<1>8. CASE Negate \/ Calculate \/ Compare \/ ConvertToReal \/ ConvertToChar
  <2>1. /\ {OPR_NEG} \in SUBSET ValueCodes
        /\ ArithmeticCodes \in SUBSET ValueCodes
        /\ ComparisonCodes \in SUBSET ValueCodes
        /\ {OPR_TO_REAL} \in SUBSET ValueCodes
        /\ {OPR_TO_CHAR} \in SUBSET ValueCodes
    BY DEF ValueCodes, UnaryCodes
  <2> QED
    BY <1>8, <2>1, OperateKeeps
       DEF Negate, Calculate, Compare, ConvertToReal, ConvertToChar
<1>9. CASE Write
  BY <1>9, WriteKeeps
<1>10. CASE ReportRange
  BY <1>10, ReportRangeKeeps
<1>11. CASE Discard
  BY <1>11, DiscardKeeps
<1>12. CASE InvalidOperation
  BY <1>12, InvalidOperationKeeps
<1>13. CASE Leave
  BY <1>13, LeaveKeeps
<1>14. CASE Finished \/ UNCHANGED vars
  <2>1. UNCHANGED vars
    BY <1>14 DEF Finished
  <2> QED
    BY <2>1 DEF vars, MachineInvariant, TypeOK, OverflowMeansFull, EndsInMain, Code
<1> QED
  BY <1>1, <1>2, <1>3, <1>4, <1>5, <1>6, <1>7, <1>8, <1>9, <1>10, <1>11, <1>12,
     <1>13, <1>14 DEF Next, Instructions

\* Whatever instruction list the executor is given, and whatever its limits are,
\* every variable keeps its type: the stack never outgrows its limit, no integer
\* outside Arion's range gets onto it or into memory, and the program counter
\* never leaves the code.
THEOREM TypeCorrect == Spec => []TypeOK
<1>1. Init => MachineInvariant
  BY InvariantAtInit
<1>2. MachineInvariant /\ [Next]_vars => MachineInvariant'
  BY NextKeeps
<1>3. MachineInvariant => TypeOK
  BY DEF MachineInvariant
<1> QED
  BY <1>1, <1>2, <1>3, PTL DEF Spec

\* "Stack Overflow" is only ever reported by a run that has filled the stack or
\* is at the limit of the call depth.
THEOREM OverflowIsReal == Spec => []OverflowMeansFull
<1>1. Init => MachineInvariant
  BY InvariantAtInit
<1>2. MachineInvariant /\ [Next]_vars => MachineInvariant'
  BY NextKeeps
<1>3. MachineInvariant => OverflowMeansFull
  BY DEF MachineInvariant
<1> QED
  BY <1>1, <1>2, <1>3, PTL DEF Spec

\* Only the main program ends a run successfully.
THEOREM SuccessIsInMain == Spec => []EndsInMain
<1>1. Init => MachineInvariant
  BY InvariantAtInit
<1>2. MachineInvariant /\ [Next]_vars => MachineInvariant'
  BY NextKeeps
<1>3. MachineInvariant => EndsInMain
  BY DEF MachineInvariant
<1> QED
  BY <1>1, <1>2, <1>3, PTL DEF Spec

------------------------------------------------------------------------------
\* What meets on the stack are values of the runtime.
LEMMA MetAreValues ==
    ASSUME TypeOK
    PROVE  /\ \A pair \in Met : pair[1] \in Value /\ pair[2] \in Value
           /\ \A i \in DOMAIN stack : stack[i] \in Value
<1>1. stack \in Seq(Value) /\ Len(stack) \in Nat /\ DOMAIN stack = 1..Len(stack)
  BY LenProperties DEF TypeOK
<1>2. \A i \in DOMAIN stack : stack[i] \in Value
  BY <1>1, ElementOfSeq
<1>3. ASSUME NEW pair \in Met PROVE pair[1] \in Value /\ pair[2] \in Value
  <2>1. Len(stack) >= 2 /\ pair = <<stack[Len(stack) - 1], stack[Len(stack)]>>
    BY <1>1, <1>3 DEF Met
  <2>2. Len(stack) - 1 \in DOMAIN stack /\ Len(stack) \in DOMAIN stack
    BY <1>1, <2>1
  <2> QED
    BY <1>2, <2>1, <2>2
<1> QED
  BY <1>2, <1>3

\* Whatever operands a program brings together, of whatever types and at whatever end
\* of the integer range, an operation leaves a value in range or reports an error of
\* its own.
THEOREM OutcomesStaySound == Spec => []OutcomesAreSound
<1>1. TypeOK => OutcomesAreSound
  BY MetAreValues, EveryOutcomeIsSound DEF OutcomesAreSound
<1> QED
  BY <1>1, TypeCorrect, PTL

\* DIV rounds towards zero and MOD is the remainder that is never negative, for every
\* two integers of Arion's range; a zero divisor is refused by both.
THEOREM DivisionStaysExact == Spec => []DivisionIsExact
<1>1. TypeOK => DivisionIsExact
  <2> SUFFICES ASSUME TypeOK, NEW pair \in MetIntegers
               PROVE  DividesExactly(pair[1], pair[2])
    BY DEF DivisionIsExact
  <2>1. /\ pair[1] \in Value /\ pair[2] \in Value
        /\ pair[1].type = "integer" /\ pair[2].type = "integer"
    BY MetAreValues DEF MetIntegers
  <2> QED
    BY <2>1, IntegersDivideExactly
<1> QED
  BY <1>1, TypeCorrect, PTL

\* The sum, the difference and the product of two integers are the same numbers when
\* one of them was converted to real first.
THEOREM PromotionStaysExact == Spec => []PromotionAgrees
<1>1. TypeOK => PromotionAgrees
  <2> SUFFICES ASSUME TypeOK, NEW pair \in MetIntegers
               PROVE  PromotesExactly(pair[1], pair[2])
    BY DEF PromotionAgrees
  <2>1. /\ pair[1] \in Value /\ pair[2] \in Value
        /\ pair[1].type = "integer" /\ pair[2].type = "integer"
    BY MetAreValues DEF MetIntegers
  <2> QED
    BY <2>1, IntegersPromoteExactly
<1> QED
  BY <1>1, TypeCorrect, PTL

\* The six comparisons describe one order of the values: numbers of any types among
\* each other, strings by their first difference.
THEOREM ComparisonsStayAnOrder == Spec => []ComparisonsAreAnOrder
<1>1. TypeOK => ComparisonsAreAnOrder
  BY MetAreValues, ValuesCompareInOrder DEF ComparisonsAreAnOrder
<1> QED
  BY <1>1, TypeCorrect, PTL
=============================================================================
