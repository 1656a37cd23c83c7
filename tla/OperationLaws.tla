---------------------------- MODULE OperationLaws -----------------------------
(***************************************************************************)
(* What the arithmetic and the comparisons of the executor promise of the  *)
(* two operands on top of its stack, whatever program put them there.      *)
(***************************************************************************)
EXTENDS StackMachine, FiniteSets

\* The operands an operation would take now: none while there are not two.
Met == IF Len(stack) < 2 THEN {} ELSE {<<stack[Len(stack) - 1], stack[Len(stack)]>>}

MetIntegers == {pair \in Met : pair[1].type = "integer" /\ pair[2].type = "integer"}

Number(q) == AsFraction(q)
Holds(code, l, r) == Outcome(code, <<l, r>>) = Result(Boolean(TRUE))

-----------------------------------------------------------------------------
SoundOn(x, y) == \A code \in ValueCodes : Sound(Outcome(code, <<x, y>>))

\* No operation wraps around or leaves a value outside Arion's types, and each
\* error is one of its own: whatever the types and sizes of the operands.
OutcomesAreSound == \A pair \in Met : SoundOn(pair[1], pair[2])

-----------------------------------------------------------------------------
DividesExactly(x, y) ==
    LET quotient  == Outcome(OPR_DIV, <<x, y>>)
        remainder == Outcome(OPR_MOD, <<x, y>>)
    IN  IF y.v = 0
        THEN {quotient.error, remainder.error} = {"Division by Zero"}
        ELSE /\ quotient.error = NoError =>
                  LET rest == x.v - quotient.value.v * y.v
                  IN  Magnitude(rest) < Magnitude(y.v) /\ rest * x.v >= 0
             /\ remainder.error = NoError
             /\ remainder.value.v \in 0..(Magnitude(y.v) - 1)
             /\ (x.v - remainder.value.v) % Magnitude(y.v) = 0

\* DIV rounds towards zero; MOD is the remainder that is never negative, whatever
\* the signs, so that the two differ on a negative dividend; and both refuse a
\* zero divisor.
DivisionIsExact == \A pair \in MetIntegers : DividesExactly(pair[1], pair[2])

-----------------------------------------------------------------------------
PromotesExactly(x, y) ==
    \A code \in {OPR_ADD, OPR_SUB, OPR_MUL} :
        LET exact    == Outcome(code, <<x, y>>)
            promoted == Outcome(code, <<Outcome(OPR_TO_REAL, <<x>>).value, y>>)
        IN  /\ promoted.error = NoError
            /\ exact.error = NoError => Same(Number(exact.value), Number(promoted.value))

\* Converting the operands to real does not change what is computed: a sum, a
\* difference or a product that fits is the same number either way.
PromotionAgrees == \A pair \in MetIntegers : PromotesExactly(pair[1], pair[2])

-----------------------------------------------------------------------------
Comparable(x, y) == \/ IsNumeric(x) /\ IsNumeric(y)
                    \/ x.type = "string" /\ y.type = "string"

ComparesInOrder(x, y) ==
    Comparable(x, y) =>
        /\ Cardinality({code \in {OPR_LSS, OPR_EQL, OPR_GTR} : Holds(code, x, y)}) = 1
        /\ Holds(OPR_NEQ, x, y) <=> ~Holds(OPR_EQL, x, y)
        /\ Holds(OPR_LEQ, x, y) <=> ~Holds(OPR_GTR, x, y)
        /\ Holds(OPR_GEQ, x, y) <=> ~Holds(OPR_LSS, x, y)
        /\ Holds(OPR_LSS, x, y) <=> Holds(OPR_GTR, y, x)
        /\ \A i \in DOMAIN stack :
              Holds(OPR_LSS, x, y) /\ Holds(OPR_LSS, y, stack[i]) => Holds(OPR_LSS, x, stack[i])

\* The six comparisons describe one order: of two comparable values exactly one
\* is less, equal or greater, the others are their combinations, turning the
\* operands round turns the order round, and the order is transitive.  Values
\* of different types are in it as the numbers they stand for.
ComparisonsAreAnOrder == \A pair \in Met : ComparesInOrder(pair[1], pair[2])
=============================================================================
