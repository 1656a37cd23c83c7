----------------------------- MODULE Operations ------------------------------
(***************************************************************************)
(* What an OPR instruction computes from the operands it popped: either a  *)
(* value to push or the error that stops the machine.                      *)
(***************************************************************************)
EXTENDS IntermediateCode

NoError == "none"

Result(value) == [error |-> NoError, value |-> value]
Refuse(error) == [error |-> error, value |-> None]

\* The range check of stackPush and checkedIntResult.
RangeError(n) ==
    CASE n > IntMax -> "Numerical Overflow"
      [] n < IntMin -> "Numerical Underflow"
      [] OTHER      -> NoError

\* Mutant of CheckedInteger: only the upper end of the range is checked.
CheckedAbove(n) == IF n > IntMax THEN Refuse("Numerical Overflow") ELSE Result(Integer(n))

CheckedInteger(n) ==
    IF RangeError(n) = NoError THEN Result(Integer(n)) ELSE Refuse(RangeError(n))

------------------------------------------------------------------------------
(* Fractions <<n, d>>, d > 0. *)

Less(p, q)  == p[1] * q[2] < q[1] * p[2]
Same(p, q)  == p[1] * q[2] = q[1] * p[2]
Plus(p, q)  == <<p[1] * q[2] + q[1] * p[2], p[2] * q[2]>>
\* Mutant of Minus: the operands in the order they are popped.
MinusSwapped(p, q) == <<q[1] * p[2] - p[1] * q[2], p[2] * q[2]>>

Minus(p, q) == <<p[1] * q[2] - q[1] * p[2], p[2] * q[2]>>
Times(p, q) == <<p[1] * q[1], p[2] * q[2]>>
Over(p, q)  == IF q[1] > 0 THEN <<p[1] * q[2], p[2] * q[1]>>
                           ELSE <<-(p[1] * q[2]), -(p[2] * q[1])>>

\* Mutant of Before: a proper prefix is not smaller.
BeforeAtDifference(s, t) ==
    \E i \in 1..Len(t) :
        /\ i <= Len(s)
        /\ \A j \in 1..(i - 1) : s[j] = t[j]
        /\ s[i] < t[i]

\* strcmp(s, t) < 0.
Before(s, t) ==
    \E i \in 1..Len(t) :
        /\ i <= Len(s) + 1
        /\ \A j \in 1..(i - 1) : s[j] = t[j]
        /\ i <= Len(s) => s[i] < t[i]

------------------------------------------------------------------------------
\* The one integer without a negation, IntMin, overflows in the range check.
Negated(x) ==
    CASE ~IsNumeric(x)   -> Refuse("NEG requires numeric operand")
      [] x.type = "real" -> Result(Real(<<-x.v[1], x.v[2]>>))
      [] OTHER           -> CheckedInteger(-x.v)

\* Mutant of Modulo: a negative remainder stays negative.
ModuloOfC(l, r) == l - Magnitude(r) * TruncDiv(l, Magnitude(r))

\* MOD takes the remainder C leaves and lifts a negative one by the divisor.
Modulo(l, r) ==
    LET remainder == l - Magnitude(r) * TruncDiv(l, Magnitude(r))
    IN  IF remainder < 0 THEN remainder + Magnitude(r) ELSE remainder

IntegerArithmetic(code, l, r) ==
    CASE code = OPR_ADD -> CheckedInteger(l + r)
      [] code = OPR_SUB -> CheckedInteger(l - r)
      [] code = OPR_MUL -> CheckedInteger(l * r)
      [] code = OPR_DIV -> IF r = 0 THEN Refuse("Division by Zero")
                                    ELSE CheckedInteger(TruncDiv(l, r))
      [] code = OPR_MOD -> IF r = 0 THEN Refuse("Division by Zero")
                                    ELSE CheckedInteger(Modulo(l, r))

RealArithmetic(code, p, q) ==
    CASE code = OPR_ADD -> Result(Real(Plus(p, q)))
      [] code = OPR_SUB -> Result(Real(Minus(p, q)))
      [] code = OPR_MUL -> Result(Real(Times(p, q)))
      [] code \in {OPR_DIV, OPR_RDIV} ->
            IF q[1] = 0 THEN Refuse("Division by Zero") ELSE Result(Real(Over(p, q)))
      [] code = OPR_MOD -> Refuse("MOD requires integer operands")

ArithmeticCodes == {OPR_ADD, OPR_SUB, OPR_MUL, OPR_DIV, OPR_RDIV, OPR_MOD}

Arithmetic(code, x, y) ==
    IF code = OPR_ADD /\ x.type = "string" /\ y.type = "string"
    THEN Result(String(x.v \o y.v))
    ELSE IF ~(IsNumeric(x) /\ IsNumeric(y))
         THEN Refuse("numeric operands required")
         ELSE IF code = OPR_RDIV \/ x.type = "real" \/ y.type = "real"
              THEN RealArithmetic(code, AsFraction(x), AsFraction(y))
              ELSE IntegerArithmetic(code, x.v, y.v)

ComparisonCodes == {OPR_EQL, OPR_NEQ, OPR_LSS, OPR_GEQ, OPR_GTR, OPR_LEQ}

\* The verdict of a comparison, from whether the operands are equal and ordered.
Verdict(code, equal, less) ==
    CASE code = OPR_EQL -> equal
      [] code = OPR_NEQ -> ~equal
      [] code = OPR_LSS -> less
      [] code = OPR_GEQ -> ~less
      [] code = OPR_GTR -> ~less /\ ~equal
      [] code = OPR_LEQ -> less \/ equal

Comparison(code, x, y) ==
    CASE IsNumeric(x) /\ IsNumeric(y) ->
            Result(Boolean(Verdict(code, Same(AsFraction(x), AsFraction(y)),
                                         Less(AsFraction(x), AsFraction(y)))))
      [] x.type = "string" /\ y.type = "string" ->
            Result(Boolean(Verdict(code, x.v = y.v, Before(x.v, y.v))))
      [] OTHER -> Refuse("operands are incompatible")

ToReal(x) ==
    IF IsNumeric(x) THEN Result(Real(AsFraction(x)))
                    ELSE Refuse("TO_REAL requires numeric operand")

ToChar(x) ==
    IF ~IsNumeric(x)
    THEN Refuse("TO_CHAR requires numeric operand")
    ELSE IF AsInteger(x) \in 0..255
         THEN Result(Char(AsInteger(x)))
         ELSE Refuse("TO_CHAR code point outside range")

\* INDEX_ERROR and RANGE_ERROR only ever report: value, low and high bound.
RangeReport(exception, operands) ==
    IF \A i \in 1..3 : IsNumeric(operands[i])
    THEN Refuse(exception)
    ELSE Refuse("range operands must be numeric")

\* The operations that leave a value: how many operands they take, and what
\* executeOpr makes of them.
UnaryCodes == {OPR_NEG, OPR_TO_REAL, OPR_TO_CHAR}
ValueCodes == UnaryCodes \cup ArithmeticCodes \cup ComparisonCodes

Arity(code) == IF code \in UnaryCodes THEN 1 ELSE 2

Outcome(code, operands) ==
    CASE code = OPR_NEG           -> Negated(operands[1])
      [] code = OPR_TO_REAL       -> ToReal(operands[1])
      [] code = OPR_TO_CHAR       -> ToChar(operands[1])
      [] code \in ArithmeticCodes -> Arithmetic(code, operands[1], operands[2])
      [] code \in ComparisonCodes -> Comparison(code, operands[1], operands[2])

\* The errors those operations report.
OperationErrors ==
    {"Numerical Overflow", "Numerical Underflow", "Division by Zero",
     "NEG requires numeric operand", "MOD requires integer operands",
     "numeric operands required", "operands are incompatible",
     "TO_REAL requires numeric operand", "TO_CHAR requires numeric operand",
     "TO_CHAR code point outside range"}

\* An outcome is a value of the runtime, or one of the errors of the operations.
Sound(outcome) ==
    /\ outcome.error = NoError => outcome.value \in Value
    /\ outcome.error \in OperationErrors \cup {NoError}
=============================================================================
