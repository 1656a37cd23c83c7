---------------------------- MODULE FrameDiscipline ----------------------------
(***************************************************************************)
(* What the frames in the operand stack must look like, and stay like,     *)
(* while the executor runs code the generator emitted.  The executor looks *)
(* at one frame at a time; the properties relate all the frames alive, the *)
(* display and the operands between the frames to what each call found.    *)
(*                                                                         *)
(* suspended is a history variable: what the registers, the display and    *)
(* the return point were at each call that has not returned.  No action    *)
(* reads it.                                                               *)
(***************************************************************************)
EXTENDS StackMachine

VARIABLE suspended

Track ==
    suspended' =
        IF callDepth' > callDepth
        THEN Append(suspended, [frame |-> frame, display |-> display, resume |-> pc + 1])
        ELSE IF callDepth' < callDepth
             THEN SubSeq(suspended, 1, Len(suspended) - 1)
             ELSE suspended

TrackedInit == Init /\ suspended = <<>>

TrackedNext == Next /\ Track

TrackedVars == <<vars, suspended>>

TrackedSpec ==
    TrackedInit /\ [][TrackedNext]_TrackedVars /\ WF_TrackedVars(TrackedNext)

\* The calls that have not returned, and the frame of each.
Alive == 1..callDepth

FrameOf(i) == IF i = callDepth THEN frame ELSE suspended[i + 1].frame

\* Where the operands of a frame begin: above its linkage; and where they end:
\* at the next frame's slots.
OperandBase(held) == held.bp + held.slots + LinkageWords
OperandEnd(i)     == IF i = callDepth THEN Len(stack) ELSE FrameOf(i + 1).bp

\* The linkage of every frame alive holds the registers, the display entry and
\* the return point its call found, under an intact canary, and the frames lie
\* one above the other: however calls nest, and wherever an error stopped the
\* machine, RET would find its way back through all of them.
LinkageIntact ==
    \A i \in Alive :
        LET held   == FrameOf(i)
            caller == suspended[i]
        IN  /\ caller.frame.bp <= held.bp
            /\ i > 1 => OperandBase(caller.frame) <= held.bp
            /\ OperandBase(held) <= OperandEnd(i)
            /\ \A w \in 1..LinkageWords : Word(held, w).type = "integer"
            /\ Saved(held, LinkageWords) = Canary
            /\ CallerOf(held) = caller.frame
            /\ held.level \in Levels
            /\ DisplacedBy(held) = caller.display[held.level]
            /\ Saved(held, 12) = caller.resume

\* An entry of the display is the latest frame of its level that is alive, and
\* inactive when there is none.  Only the callee's entry is saved and restored
\* by a call, so this is what makes access to enclosing variables right after
\* any nesting of calls and returns between levels.
DisplayHoldsLatest ==
    \A level \in Levels :
        LET at == {i \in Alive : FrameOf(i).level = level}
        IN  IF at = {}
            THEN ~display[level].active
            ELSE \E i \in at :
                    /\ \A j \in at : j <= i
                    /\ display[level] = [active |-> TRUE, bp |-> FrameOf(i).bp,
                                         slots |-> FrameOf(i).slots]

\* A return puts back every register and the whole display as the call found
\* them and goes on behind the call, whatever the callee and its callees did to
\* them in between.
ReturnRestoresCaller ==
    [][ callDepth' < callDepth =>
          LET caller == suspended[Len(suspended)]
          IN  /\ frame' = caller.frame
              /\ display' = caller.display
              /\ pc' = caller.resume ]_TrackedVars

\* The positions a step may write: the operands of the running frame, and the
\* slots of the frames the code can address.
SlotsOf(held) == (held.bp + 1)..(held.bp + held.slots)

Writable ==
    LET operands == IF callDepth = 0 THEN 1..Len(stack)
                                     ELSE (OperandBase(frame) + 1)..Len(stack)
    IN  operands \cup SlotsOf(frame)
          \cup UNION {SlotsOf(display[level]) : level \in
                        {visible \in Levels : display[visible].active}}

\* The caller's view of a call: until the frame returns, no step changes a
\* linkage word, a slot of a frame hidden from the running code, or an operand
\* a suspended caller left pending.
HiddenWordsStable ==
    [][ callDepth' >= callDepth =>
          \A i \in (1..Len(stack)) \ Writable :
              i <= Len(stack') /\ stack'[i] = stack[i] ]_vars

\* The errors a program can be stopped with; the others tell of code or a
\* frame that is not what the generator and CAL made it.
ProgramErrors ==
    {"Stack Overflow", "Numerical Overflow", "Numerical Underflow",
     "Division by Zero", "IndexOutOfBoundsException", "RangeCheckException",
     "Loaded value is uninitialized", "Function return value is uninitialized"}

\* Generated code never pops more than it pushed, leaves the frame areas, or
\* meets a corrupted linkage; and when it ends, every statement has left the
\* operand stack as it found it.
NoMachineFault ==
    /\ error \in ProgramErrors \cup {NoError}
    /\ result = "true" => stack = <<>> /\ callDepth = 0

\* Every frame takes thirteen words, so the stack is full before the call depth
\* reaches its own limit: that limit decides nothing.
DepthLimitIdle == LinkageWords * callDepth <= Len(stack)

\* Every run comes to an end: the unbounded recursions by the stack limit, the
\* loops by their conditions.
Termination == <>(result # "running")
=============================================================================
