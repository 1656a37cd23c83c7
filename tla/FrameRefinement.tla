---------------------------- MODULE FrameRefinement ----------------------------
(***************************************************************************)
(* The executor, with all its frames in one stack, implements the machine  *)
(* in which every call has a record of its own.  The mapping cuts the      *)
(* stack into the frames of the calls that have not returned, each one's   *)
(* operands reaching to the next one's slots.                              *)
(***************************************************************************)
EXTENDS FrameDiscipline

\* The main program's operands are at the bottom of the stack; a call's record
\* is its slots, and its operands above the linkage.
MainRecord ==
    [level |-> 0, locals |-> <<>>,
     operands |-> SubSeq(stack, 1, IF callDepth = 0 THEN Len(stack) ELSE FrameOf(1).bp),
     resume |-> 0, result |-> [offset |-> -1, slots |-> 0, structured |-> FALSE]]

RecordOf(i) ==
    LET held == FrameOf(i)
    IN  [level    |-> held.level,
         locals   |-> SubSeq(stack, held.bp + 1, held.bp + held.slots),
         operands |-> SubSeq(stack, OperandBase(held) + 1, OperandEnd(i)),
         resume   |-> Saved(held, 12),
         result   |-> [offset |-> held.returnOffset, slots |-> held.returnSlots,
                       structured |-> held.structured]]

Records ==
    IF result = "false" THEN <<>> ELSE <<MainRecord>> \o [i \in Alive |-> RecordOf(i)]

Activation ==
    INSTANCE ActivationMachine WITH
        records <- Records, globals <- memory,
        status  <- IF stopped /\ result = "running" THEN "stopped" ELSE result

\* Code the generator emits runs on the shared stack as it would run with an
\* activation record for every call: locals and pending operands of suspended
\* calls are out of reach, enclosing variables are found through any nesting,
\* and a return resumes the caller where and as the call left it.
ImplementsActivations == Activation!Spec
=============================================================================
