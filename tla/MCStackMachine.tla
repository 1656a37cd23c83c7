---------------------------- MODULE MCStackMachine ----------------------------
(***************************************************************************)
(* The executor on generated code, at a scale TLC can explore: instruction *)
(* lists the code generator emits for a set of small Arion programs, as    *)
(* its listing shows them.                                                 *)
(***************************************************************************)
EXTENDS FrameRefinement, BalancedCode, InstructionLists

ScaledBase == -500


\* f := n * f(n - 1): a recursive call with an operand pending below it.
FactProgram ==
    [code |-> <<
        INT(6), JMP(18), JMP(3), LOD(2, 1), LIT(1), OPR(12), JPC(10),
        LIT(1), STO(2, 0), JMP(17), LOD(2, 1), LOD(2, 1), LIT(1), OPR(3),
        CAL(2), OPR(4), STO(2, 0), RET, LIT(5), CAL(2), OPR(14), RET >>,
     calls |-> (2 :> Sub(1, 2, <<1>>, 0, 1, FALSE))]

\* P(3), where P calls its own Q, Q writes P's local and calls P again.
NestedProgram ==
    [code |-> <<
        INT(7), JMP(30), JMP(21), JMP(4), LOD(2, 1), LOD(3, 0), OPR(2),
        STO(2, 1), LOD(3, 0), LIT(1), OPR(11), JPC(20), LOD(3, 0), LIT(1),
        OPR(3), CAL(2), LOD(2, 1), LIT(10), OPR(2), STO(2, 1), RET,
        LOD(2, 0), STO(2, 1), LOD(2, 0), CAL(3), LOD(0, 3), LOD(2, 1),
        OPR(2), STO(0, 3), RET, LIT(0), STO(0, 3), LIT(3), CAL(2),
        LOD(0, 3), OPR(14), RET >>,
     calls |-> (2 :> Sub(1, 2, <<0>>, -1, 0, FALSE)) @@ (3 :> Sub(2, 1, <<0>>, -1, 0, FALSE))]

\* a[i] := 7 on a local array for i = 2, 3, 4, ...: stops at the bound.
IndexProgram ==
    [code |-> <<
        INT(6), JMP(56), JMP(3), LIT(7), LITF(1, 1), LOD(2, 0), STO(0, 4),
        LOD(0, 4), LIT(1), OPR(10), JPC(16), LOD(0, 4), LIT(3), OPR(12),
        JPC(16), JMP(20), LOD(0, 4), LIT(1), LIT(3), OPR(17), LOD(0, 4),
        LIT(1), OPR(3), LIT(1), OPR(4), OPR(2), STO(1, 0), LITF(1, 1),
        LOD(2, 0), STO(0, 4), LOD(0, 4), LIT(1), OPR(10), JPC(39),
        LOD(0, 4), LIT(3), OPR(12), JPC(39), JMP(43), LOD(0, 4), LIT(1),
        LIT(3), OPR(17), LOD(0, 4), LIT(1), OPR(3), LIT(1), OPR(4), OPR(2),
        LOD(1, 0), OPR(14), LOD(2, 0), LIT(1), OPR(2), CAL(2), RET,
        LIT(2), CAL(2), RET >>,
     calls |-> (2 :> Sub(1, 4, <<0>>, -1, 0, FALSE))]

\* for over chars, for downto with a case, repeat and while.
LoopsProgram ==
    [code |-> <<
        INT(9), JMP(2), LIT(0), STO(0, 4), CreateLiteral(Char(97)),
        STO(0, 5), LOD(0, 5), CreateLiteral(Char(99)), OPR(12), JPC(24),
        LOD(0, 5), OPR(13), LOD(0, 5), LIT(1), OPR(2), STO(0, 8),
        LOD(0, 8), CreateLiteral(Char(99)), OPR(12), JPC(24), LOD(0, 8),
        OPR(19), STO(0, 5), JMP(6), LIT(3), STO(0, 3), LOD(0, 3), LIT(1),
        OPR(10), JPC(70), LOD(0, 3), STO(0, 6), LOD(0, 6), LIT(1), OPR(7),
        JPC(41), LOD(0, 4), LIT(1), OPR(2), STO(0, 4), JMP(59), LOD(0, 6),
        LIT(2), OPR(7), JPC(50), LOD(0, 4), LIT(10), OPR(2), STO(0, 4),
        JMP(59), LOD(0, 6), LIT(3), OPR(7), JPC(59), LOD(0, 4), LIT(10),
        OPR(2), STO(0, 4), JMP(59), LOD(0, 3), LIT(1), OPR(3), STO(0, 8),
        LOD(0, 8), LIT(1), OPR(10), JPC(70), LOD(0, 8), STO(0, 3), JMP(26),
        LOD(0, 4), LIT(5), OPR(3), STO(0, 4), LOD(0, 4), LIT(10), OPR(9),
        JPC(70), LOD(0, 4), LIT(0), OPR(11), JPC(87), LOD(0, 4), LIT(2),
        OPR(5), STO(0, 4), JMP(78), LOD(0, 4), OPR(14), RET >>,
     calls |-> <<>>]

\* reals, strings, booleans, and a function called as a statement.
MixedProgram ==
    [code |-> <<
        INT(9), JMP(8), JMP(3), LOD(2, 1), OPR(14), LIT(4), STO(2, 0),
        RET, CreateLiteral(String(<<97,98,99>>)), STO(0, 4), LIT(3),
        OPR(16), STO(0, 3), LOD(0, 3), LIT(2), OPR(15), LIT(1), CAL(2),
        OPR(3), STO(0, 3), LOD(0, 4),
        CreateLiteral(String(<<120,121,122>>)), OPR(7), STO(0, 7),
        LOD(0, 7), LIT(0), OPR(10), JPC(33), LOD(0, 7), LIT(1), OPR(12),
        JPC(33), JMP(37), LOD(0, 7), LIT(0), LIT(1), OPR(18), LOD(0, 7),
        STO(0, 5), LOD(0, 3), LIT(0), OPR(9), JPC(47), LOD(0, 5),
        CreateLiteral(Boolean(FALSE)), OPR(7), JMP(48),
        CreateLiteral(Boolean(FALSE)), JPC(52), LOD(0, 3), OPR(1), OPR(14),
        LOD(0, 4), OPR(14), LIT(2), CAL(2), OPR(20), RET >>,
     calls |-> (2 :> Sub(1, 2, <<1>>, 0, 1, FALSE))]

\* a procedure that calls itself for ever.
RunawayProgram ==
    [code |-> <<
        INT(6), JMP(8), JMP(3), LOD(2, 0), LIT(1), OPR(2), CAL(2), RET,
        LIT(1), CAL(2), RET >>,
     calls |-> (2 :> Sub(1, 1, <<0>>, -1, 0, FALSE))]

\* a function that on one path assigns no result.
UninitProgram ==
    [code |-> <<
        INT(6), JMP(13), JMP(3), LOD(2, 1), LIT(0), OPR(11), JPC(12),
        LOD(2, 1), LIT(1), OPR(3), CAL(2), STO(2, 0), RET, LIT(2),
        CAL(2), OPR(14), RET >>,
     calls |-> (2 :> Sub(1, 2, <<1>>, 0, 1, FALSE))]

\* a local read on a path that never assigned it.
UnsetProgram ==
    [code |-> <<
        INT(6), JMP(16), JMP(3), LOD(2, 0), LIT(1), OPR(11), JPC(9),
        LOD(2, 0), STO(2, 2), LOD(2, 2), STO(2, 1), LOD(2, 0), LIT(1),
        OPR(3), CAL(2), RET, LIT(3), CAL(2), RET >>,
     calls |-> (2 :> Sub(1, 3, <<0>>, -1, 0, FALSE))]

\* div and mod, by a negative number and by zero.
ZeroProgram ==
    [code |-> <<
        INT(6), JMP(12), JMP(3), LIT(10), LOD(2, 1), OPR(6), STO(2, 0),
        LIT(10), LOD(2, 1), OPR(5), STO(2, 0), RET, LIT(3), OPR(1),
        CAL(2), OPR(14), LIT(0), CAL(2), OPR(14), RET >>,
     calls |-> (2 :> Sub(1, 2, <<1>>, 0, 1, FALSE))]

\* i := i * i for ever: stops at the largest integer.
GrowProgram ==
    [code |-> <<
        INT(7), JMP(8), JMP(3), LOD(2, 1), LOD(2, 1), OPR(4), STO(2, 0),
        RET, LIT(3), STO(0, 3), LOD(0, 3), LIT(0), OPR(11), JPC(18),
        LOD(0, 3), CAL(2), STO(0, 3), JMP(10), RET >>,
     calls |-> (2 :> Sub(1, 2, <<1>>, 0, 1, FALSE))]

\* a subrange parameter incremented past its bound.
RangeProgram ==
    [code |-> <<
        INT(7), JMP(23), JMP(3), LOD(2, 0), LIT(1), OPR(2), STO(0, 5),
        LOD(0, 5), LIT(1), OPR(10), JPC(16), LOD(0, 5), LIT(3), OPR(12),
        JPC(16), JMP(20), LOD(0, 5), LIT(1), LIT(3), OPR(18), LOD(0, 5),
        CAL(2), RET, LIT(2), STO(0, 5), LOD(0, 5), LIT(1), OPR(10),
        JPC(34), LOD(0, 5), LIT(3), OPR(12), JPC(34), JMP(38), LOD(0, 5),
        LIT(1), LIT(3), OPR(18), LOD(0, 5), STO(0, 3), LOD(0, 3),
        STO(0, 5), LOD(0, 5), LIT(1), OPR(10), JPC(51), LOD(0, 5), LIT(3),
        OPR(12), JPC(51), JMP(55), LOD(0, 5), LIT(1), LIT(3), OPR(18),
        LOD(0, 5), CAL(2), RET >>,
     calls |-> (2 :> Sub(1, 1, <<0>>, -1, 0, FALSE))]

\* a record passed and returned by value; a nested procedure assigns the result.
RecordProgram ==
    [code |-> <<
        INT(8), JMP(23), JMP(13), JMP(4), LITF(1, 2), LIT(1), OPR(2),
        LOD(1, 0), LITF(1, 0), LIT(0), OPR(2), STO(1, 0), RET, CAL(3),
        LITF(1, 2), LIT(0), OPR(2), LOD(1, 0), LITF(1, 0), LIT(1), OPR(2),
        STO(1, 0), RET, LIT(1), LIT(3), LIT(0), OPR(2), STO(1, 0),
        LIT(2), LIT(3), LIT(1), OPR(2), STO(1, 0), LIT(3), RLOD(1, 0),
        LIT(3), LIT(1), OPR(2), RLOD(1, 0), CAL(2), LIT(3), LIT(1), OPR(2),
        STO(1, 0), LIT(3), STO(1, 0), LIT(3), LIT(0), OPR(2), LOD(1, 0),
        LIT(3), LIT(1), OPR(2), LOD(1, 0), OPR(3), OPR(14), RET >>,
     calls |-> (3 :> Sub(2, 0, <<>>, -1, 0, FALSE)) @@ (2 :> Sub(1, 4, <<2, 3>>, 0, 2, TRUE))]

Generated ==
    ("fact" :> FactProgram)
    @@ ("nested" :> NestedProgram)
    @@ ("index" :> IndexProgram)
    @@ ("loops" :> LoopsProgram)
    @@ ("mixed" :> MixedProgram)
    @@ ("runaway" :> RunawayProgram)
    @@ ("uninit" :> UninitProgram)
    @@ ("unset" :> UnsetProgram)
    @@ ("zero" :> ZeroProgram)
    @@ ("grow" :> GrowProgram)
    @@ ("range" :> RangeProgram)
    @@ ("record" :> RecordProgram)

GeneratedHeights == [name \in DOMAIN Generated |-> HeightsOf(Generated[name])]
===============================================================================
