------------------------------ MODULE MCAnyCode -------------------------------
(***************************************************************************)
(* The executor on every short instruction list over small alphabets, most *)
(* of which no generator would emit: its own checks are all that keeps it  *)
(* together.  A program is the sequence of its instructions' numbers in    *)
(* the alphabet that its first element names.                              *)
(***************************************************************************)
EXTENDS OperationLaws, InstructionLists, TLC

ScaledBase == -500

\* Jumps, calls and returns.  Of the entries, 1 is a procedure, 2 a function of
\* one parameter, 3 a function whose result does not fit its frame; 4 and 5 have
\* metadata CAL refuses, 0 has none.
Control == <<
    LIT(1), LIT(0), OPR(OPR_POP), RET, JMP(0), JMP(5), JMP(9), JPC(3),
    JPC(9), CAL(0), CAL(1), CAL(2), CAL(3), CAL(4), CAL(5)>>

ControlCalls ==
    (1 :> Sub(1, 1, <<>>, -1, 0, FALSE)) @@ (2 :> Sub(1, 2, <<1>>, 0, 1, FALSE))
        @@ (3 :> Sub(2, 1, <<>>, 0, 2, TRUE)) @@ (4 :> Sub(4, 0, <<>>, -1, 0, FALSE))
        @@ (5 :> Sub(1, 1, <<2>>, -1, 0, FALSE))

\* Two more lines make 4 and 5 targets, and let a call be the last instruction.
ControlEnd == <<4, 11>>

\* Loads and stores in every addressing mode, in and out of a frame.
Storage == <<
    INT(1), INT(-1), LIT(0), LITF(1, 0), LITF(1, 7), LIT(FrameBase), LIT(-950),
    CreateLiteral(String(<<>>)), LOD(0, 0), LOD(1, 0), LOD(2, 0), LOD(2, -1),
    LOD(9, 0), LOD(-1, 0), RLOD(1, 0), RLOD(2, 0), STO(0, 0), STO(1, 0),
    STO(2, 0), STO(2, -1), CAL(1), RLOD(0, 0), JMP(1)>>

StorageCalls == 1 :> Sub(1, 1, <<>>, -1, 0, FALSE)

\* Operations on operands of every type, at the ends of the integer range.
Values == <<
    LIT(IntMin), LIT(-7), LIT(IntMax), LIT(IntMax + 1), CreateLiteral(Real(<<-3, 2>>)),
    CreateLiteral(Boolean(FALSE)), CreateLiteral(Char(98)),
    CreateLiteral(String(<<97>>)), CreateLiteral(String(<<97, 98>>)), RLOD(0, 0)>>

\* More operands for the laws: beside the ends of the range and around zero, fractions
\* between the integers, and strings that differ in length or in one character.
MoreValues == <<
    LIT(IntMin + 1), LIT(-3), LIT(-2), LIT(-1), LIT(0), LIT(1), LIT(2), LIT(3), LIT(7),
    LIT(IntMax - 1), CreateLiteral(Real(<<-1, 2>>)), CreateLiteral(Real(<<0, 4>>)),
    CreateLiteral(Real(<<2, 4>>)), CreateLiteral(Real(<<IntMax + 1, 1>>)),
    CreateLiteral(Boolean(TRUE)), CreateLiteral(Char(0)), CreateLiteral(Char(255)),
    CreateLiteral(String(<<>>)), CreateLiteral(String(<<98>>)),
    CreateLiteral(String(<<97, 97>>)), CreateLiteral(String(<<98, 97>>))>>

Alphabets == [
    control |-> [code |-> Control, calls |-> ControlCalls],
    storage |-> [code |-> Storage, calls |-> StorageCalls],
    values  |-> [code |-> Values \o [c \in 1..21 |-> OPR(c)] \o <<INT(1)>>,
                 calls |-> <<>>],
    laws    |-> [code |-> Values \o MoreValues, calls |-> <<>>]]

\* Over the values alphabet: allocate a cell, load operands, operate.
Loads      == 1..Len(Values)
OPRs       == (Len(Values) + 1)..(Len(Values) + 21)
Allocation == Len(Values) + 22

\* Three of these are compared with one another.
Ordered == {1, 2, 3, 5, 8, 9} \cup {Len(Values) + i : i \in {5, 13, 18, 19, 20, 21}}

Ranges     == {Len(Values) + OPR_INDEX_ERROR, Len(Values) + OPR_RANGE_ERROR}

Programs ==
    [alphabet : {"control"},
     lines : {lines \o ControlEnd : lines \in [1..4 -> 1..Len(Control)]}]
      \cup [alphabet : {"storage"},
            lines : {<<first, x, y, z>> : first \in {1, 3, 21},
                                          x \in 1..21, y \in 1..21, z \in 1..21}
              \cup {<<1, 22, 23>>}]
      \cup [alphabet : {"values"},
            lines : {<<Allocation, x, y, op>> : x \in Loads, y \in Loads, op \in OPRs}
              \cup {<<op>> : op \in OPRs} \cup {<<1, op>> : op \in OPRs}
              \cup {<<x, 1, x, op>> : x \in Loads, op \in Ranges}]
      \cup [alphabet : {"laws"},
            lines : {<<x, y>> : x, y \in 1..Len(Values \o MoreValues)}
              \cup {<<x, y, z>> : x, y, z \in Ordered}]

AnyCode ==
    [p \in Programs |->
        [code  |-> [i \in DOMAIN p.lines |-> Alphabets[p.alphabet].code[p.lines[i]]],
         calls |-> Alphabets[p.alphabet].calls]]

===============================================================================
