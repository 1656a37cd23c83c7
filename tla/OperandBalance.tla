---------------------------- MODULE OperandBalance ----------------------------
(***************************************************************************)
(* How many operands an instruction list has pending at each line.  The    *)
(* executor does not know these heights; the generator keeps to them: an   *)
(* expression leaves one operand per slot of its value, a statement leaves *)
(* none, and the paths that meet at a label bring the same number.         *)
(***************************************************************************)
EXTENDS Operations, FrameAddresses

Writes  == {OPR_WRT, OPR_WRTLN}
Reports == {OPR_INDEX_ERROR, OPR_RANGE_ERROR}

Returns(info) == info.returnOffset >= 0 /\ info.returnSlotCount > 0

\* The operands an instruction takes off the stack, and those it leaves.  A call
\* is one step here: it takes its parameters and leaves the slots of its result.
Pops(i, calls) ==
    CASE i.opcode \in {"LOD", "RLOD"}                     -> IF i.level = 1 THEN 1 ELSE 0
      [] i.opcode = "STO"                                 -> IF i.level = 1 THEN 2 ELSE 1
      [] i.opcode = "JPC"                                 -> 1
      [] i.opcode = "CAL"                                 -> calls[i.operand].parameterSlotCount
      [] i.opcode = "OPR" /\ i.operand \in ValueCodes     -> Arity(i.operand)
      [] i.opcode = "OPR" /\ i.operand \in Reports        -> 3
      [] i.opcode = "OPR" /\ i.operand \in Writes \cup {OPR_POP} -> 1
      [] OTHER                                            -> 0

Pushes(i, calls) ==
    CASE i.opcode \in {"LIT", "LOD", "RLOD"}              -> 1
      [] i.opcode = "OPR" /\ i.operand \in ValueCodes     -> 1
      [] i.opcode = "CAL" /\ Returns(calls[i.operand])    -> calls[i.operand].returnSlotCount
      [] OTHER                                            -> 0

\* The lines of the same subprogram that may be executed after a line.
Following(i, line) ==
    CASE i.opcode = "JMP"                                 -> {i.operand}
      [] i.opcode = "JPC"                                 -> {i.operand, line + 1}
      [] i.opcode = "RET"                                 -> {}
      [] i.opcode = "OPR" /\ i.operand \in Reports        -> {}
      [] OTHER                                            -> {line + 1}

\* The call metadata of a subprogram whose frame the executor can lay out.
IsLayout(info) ==
    /\ info.lexicalLevel \in Levels
    /\ info.parameterSlotCount \in 0..info.frameSlotCount
    /\ \A p \in 1..info.parameterSlotCount :
          info.parameterOffsets[p] \in 0..(info.frameSlotCount - 1)
    /\ info.returnSlotCount >= 0
    /\ Returns(info) => info.returnOffset + info.returnSlotCount <= info.frameSlotCount

\* A line never takes more operands than are pending, a subprogram is entered
\* and left with none, and every line it may go on at has the height it leaves.
IsBalancedAt(list, heights, line) ==
    LET i == list.code[line + 1]
    IN  /\ i.opcode = "CAL" => /\ i.operand \in DOMAIN list.calls
                               /\ IsLayout(list.calls[i.operand])
                               /\ i.operand \in DOMAIN heights
                               /\ heights[i.operand] = 0
        /\ i.opcode = "RET" => heights[line] = 0
        /\ i.opcode = "OPR" => i.operand \in 1..20
        /\ Pops(i, list.calls) <= heights[line]
        /\ \A next \in Following(i, line) :
              /\ next \in DOMAIN heights
              /\ heights[next] = heights[line] - Pops(i, list.calls) + Pushes(i, list.calls)

\* heights gives the pending operands of every line that can be reached.
IsBalanced(list, heights) ==
    /\ heights \in [DOMAIN heights -> Nat]
    /\ DOMAIN heights \subseteq 0..(Len(list.code) - 1)
    /\ 0 \in DOMAIN heights
    /\ heights[0] = 0
    /\ \A line \in DOMAIN heights : IsBalancedAt(list, heights, line)
===============================================================================
