----------------------------- MODULE BalancedCode -----------------------------
(***************************************************************************)
(* The frame discipline of every balanced instruction list.  The frames in *)
(* the stack, the display and the linkage words are related by an          *)
(* invariant that each instruction of balanced code keeps; the properties  *)
(* of FrameDiscipline follow from it.                                      *)
(***************************************************************************)
EXTENDS FrameDiscipline, OperandBalance

CONSTANT Heights        \* program name -> the pending operands of its lines

\* What the generator sees to: the lists it hands over are balanced.
ASSUME BalancedAssumption ==
    \A name \in DOMAIN Library : IsBalanced(Library[name], Heights[name])

-----------------------------------------------------------------------------
(* The contexts: what the executor knows of the main program and of each call *)
(* that has not returned, the running one last.  The frame of the context j   *)
(* is the one its call made, and resume the line it goes on at.               *)

\* The registers of a frame that returns no or some slots.
Registers == {held \in FrameRecord : held.returnSlots >= 0}

Context == [frame : Registers, display : [Levels -> DisplayEntry], resume : Nat]

Contexts == Append(suspended, [frame |-> frame, display |-> display, resume |-> pc])

\* Where the operands of a context begin; the main program has no frame.
Base(C, j) == IF j = 1 THEN 0 ELSE OperandBase(C[j].frame)

\* The linkage words of a frame of the level, called from the context.
SavedWord(caller, level, w) ==
    LET flag(b) == IF b THEN 1 ELSE 0
        words == <<caller.frame.bp, caller.frame.slots, caller.frame.returnOffset,
                   caller.frame.returnSlots, flag(caller.frame.structured),
                   caller.frame.level, -1, flag(caller.display[level].active),
                   caller.display[level].bp, caller.display[level].slots, -1,
                   caller.resume, Canary>>
    IN  Integer(words[w])

\* The frame is the one made by the CAL of the line, its parameters on top of
\* the operands that line has above base.
CalledFrom(list, heights, line, base, held) ==
    LET info == list.calls[list.code[line + 1].operand]
    IN  /\ line \in DOMAIN heights
        /\ list.code[line + 1].opcode = "CAL"
        /\ held = [bp |-> base + heights[line] - info.parameterSlotCount,
                   slots |-> info.frameSlotCount, returnOffset |-> info.returnOffset,
                   returnSlots |-> info.returnSlotCount,
                   structured |-> info.structuredReturn, level |-> info.lexicalLevel]

CallsStand(list, heights, C) ==
    \A j \in 2..Len(C) :
        CalledFrom(list, heights, C[j - 1].resume - 1, Base(C, j - 1), C[j].frame)

\* The frames lie one above the other, and each takes its thirteen words.
FramesApart(C) ==
    /\ \A j, k \in 2..Len(C) : j < k => Base(C, j) <= C[k].frame.bp
    /\ \A j \in 1..Len(C) : LinkageWords * (j - 1) <= Base(C, j)

LinkagesStand(C, words) ==
    \A j \in 2..Len(C) : \A w \in 1..LinkageWords :
        words[C[j].frame.bp + C[j].frame.slots + w] =
            SavedWord(C[j - 1], C[j].frame.level, w)

\* entry is the latest frame of the level among the contexts up to j.
IsLatest(C, j, level, entry) ==
    \/ /\ \A i \in 2..j : C[i].frame.level # level
       /\ entry = NoEntry
    \/ \E i \in 2..j :
          /\ C[i].frame.level = level
          /\ \A k \in 2..j : C[k].frame.level = level => k <= i
          /\ entry = [active |-> TRUE, bp |-> C[i].frame.bp, slots |-> C[i].frame.slots]

\* The display of a context, the suspended ones included.
DisplaysStand(C) ==
    \A j \in 1..Len(C) : \A level \in Levels :
        IsLatest(C, j, level, C[j].display[level])

FramesStand(list, heights, C, words) ==
    /\ C \in Seq(Context)
    /\ C[1].frame = NoFrame
    /\ CallsStand(list, heights, C)
    /\ FramesApart(C)
    /\ LinkagesStand(C, words)
    /\ DisplaysStand(C)
    /\ Base(C, Len(C)) <= Len(words)

\* Unless it failed, the machine is at a line of known height and has exactly
\* that many operands on top of the running frame.
AtHeight ==
    result # "false" =>
        /\ pc \in DOMAIN Heights[prog]
        /\ Len(stack) = Base(Contexts, callDepth + 1) + Heights[prog][pc]

\* The errors of code that is out of balance.
BalanceErrors ==
    {"Stack Underflow", "Stack Corruption", "Invalid Jump Target",
     "Missing Call Metadata", "Invalid Call Target", "Invalid Return Target",
     "Function return slot range is invalid", "Invalid OPR Code"}

\* Balanced code never underflows or corrupts its stack or leaves itself by a
\* jump, a call or a return, and when it ends it has nothing left on the stack.
EndsInBalance ==
    /\ error \notin BalanceErrors
    /\ result = "true" => stack = <<>> /\ callDepth = 0

\* The inductive invariant.
BalancedInvariant ==
    /\ MachineInvariant
    /\ suspended \in Seq(Context) /\ Len(suspended) = callDepth
    /\ FramesStand(Library[prog], Heights[prog], Contexts, stack)
    /\ AtHeight
    /\ stopped => Heights[prog][pc] = 0 /\ result # "false"
    /\ EndsInBalance
===============================================================================
