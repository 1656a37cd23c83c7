--------------------------- MODULE InstructionLists ---------------------------
(***************************************************************************)
(* A notation for instruction lists: opcode, level where it matters and    *)
(* operand.  LITF is the literal of a frame address, given by the level    *)
(* and the offset it encodes, so that a list does not depend on the scale  *)
(* of the addresses.  Sub is the call metadata of a subprogram.            *)
(***************************************************************************)
EXTENDS OperandBalance, TLC

INT(n)        == Create("INT", 0, n)
LIT(n)        == CreateLiteral(Integer(n))
LITF(l, o)    == LIT(FrameAddress(l, o))
LOD(l, a)     == Create("LOD", l, a)
RLOD(l, a)    == Create("RLOD", l, a)
STO(l, a)     == Create("STO", l, a)
CAL(a)        == Create("CAL", 0, a)
JMP(a)        == Create("JMP", 0, a)
JPC(a)        == Create("JPC", 0, a)
OPR(c)        == Create("OPR", 0, c)
RET           == Create("RET", 0, 0)

Sub(level, slots, offsets, returnOffset, returnSlots, structured) ==
    [lexicalLevel |-> level, frameSlotCount |-> slots,
     parameterSlotCount |-> Len(offsets), parameterOffsets |-> offsets,
     returnOffset |-> returnOffset, returnSlotCount |-> returnSlots,
     structuredReturn |-> structured]

-----------------------------------------------------------------------------
(* The heights of a list.  Subprograms begin with no operand pending, and each *)
(* line hands on what it leaves.  The jumps back the generator makes lead to   *)
(* lines it has passed, so one walk down the list finds all the heights; the   *)
(* walk is halved to keep the recursion flat.                                  *)

HandOn(list, heights, line) ==
    IF line \notin DOMAIN heights THEN heights
    ELSE LET i    == list.code[line + 1]
             left == heights[line] - Pops(i, list.calls) + Pushes(i, list.calls)
         IN  heights @@ [next \in Following(i, line) |-> left]

RECURSIVE Walk(_, _, _, _)

Walk(list, first, last, heights) ==
    IF first = last THEN HandOn(list, heights, first)
    ELSE LET middle == (first + last) \div 2
             before == Walk(list, first, middle, heights)
         IN  IF before = heights THEN Walk(list, middle + 1, last, heights)
                                 ELSE Walk(list, middle + 1, last, before)

HeightsOf(list) ==
    Walk(list, 0, Len(list.code) - 1, [entry \in {0} \cup DOMAIN list.calls |-> 0])
===============================================================================
