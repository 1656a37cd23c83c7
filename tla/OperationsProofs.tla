--------------------------- MODULE OperationsProofs ---------------------------
(* What the operations compute, for every pair of operands. *)
EXTENDS OperationLaws, FiniteSetTheorems, SequenceTheorems,
        WellFoundedInduction, TLAPS

\* A quotient rounded towards zero is an integer.
LEMMA TruncDivInt ==
    ASSUME NEW n \in Int, NEW d \in Int, d # 0
    PROVE  TruncDiv(n, d) \in Int
<1>1. Magnitude(n) \in Nat /\ Magnitude(d) \in Nat \ {0}
  BY DEF Magnitude
<1>2. Magnitude(n) \div Magnitude(d) \in Nat
  BY <1>1
<1> QED
  BY <1>2 DEF TruncDiv

\* MOD as the code computes it is the mathematical remainder: never negative,
\* below the magnitude of the divisor, and congruent to the dividend.
THEOREM ModuloIsRemainder ==
    ASSUME NEW l \in Int, NEW r \in Int, r # 0
    PROVE  /\ Modulo(l, r) \in 0..(Magnitude(r) - 1)
           /\ \E k \in Int : l = k * Magnitude(r) + Modulo(l, r)
<1>1. PICK m \in Nat \ {0} : m = Magnitude(r)
  BY DEF Magnitude
<1>2. Magnitude(l) \in Nat /\ Magnitude(m) = m
  BY DEF Magnitude
<1>3. PICK q \in Nat : /\ q = Magnitude(l) \div m
                       /\ m * q <= Magnitude(l)
                       /\ Magnitude(l) < m * q + m
  BY <1>2
<1>4. PICK p \in Nat : p = m * q
  OBVIOUS
<1>5. p <= Magnitude(l) /\ Magnitude(l) < p + m
  BY <1>3, <1>4
<1> SUFFICES /\ Modulo(l, r) \in 0..(m - 1)
             /\ \E k \in Int : l = k * m + Modulo(l, r)
  BY <1>1
<1>6. Modulo(l, r) = LET remainder == l - m * TruncDiv(l, m)
                     IN  IF remainder < 0 THEN remainder + m ELSE remainder
  BY <1>1 DEF Modulo
<1>7. CASE l >= 0
  <2>1. Magnitude(l) = l /\ TruncDiv(l, m) = q
    BY <1>2, <1>3, <1>7 DEF TruncDiv, Magnitude
  <2>2. Modulo(l, r) = l - p
    BY <1>4, <1>5, <1>6, <2>1
  <2>3. l = q * m + Modulo(l, r)
    BY <1>4, <2>2
  <2> QED
    BY <1>5, <2>1, <2>2, <2>3
<1>8. CASE l < 0
  <2>1. Magnitude(l) = -l /\ TruncDiv(l, m) = -q
    BY <1>2, <1>3, <1>8 DEF TruncDiv, Magnitude
  <2>2. m * (-q) = -p /\ (-q) * m = -p /\ (-q - 1) * m = -p - m
    BY <1>4
  <2>3. Modulo(l, r) = IF l + p < 0 THEN l + p + m ELSE l + p
    BY <1>6, <2>1, <2>2
  <2>4. CASE l + p < 0
    <3>1. l = (-q - 1) * m + Modulo(l, r)
      BY <2>2, <2>3, <2>4
    <3>2. Modulo(l, r) \in 0..(m - 1)
      BY <1>5, <2>1, <2>3, <2>4
    <3>3. -q - 1 \in Int
      OBVIOUS
    <3> QED
      BY <3>1, <3>2, <3>3, Zenon
  <2>5. CASE ~(l + p < 0)
    <3>1. l = (-q) * m + Modulo(l, r)
      BY <2>2, <2>3, <2>5
    <3>2. Modulo(l, r) \in 0..(m - 1)
      BY <1>5, <2>1, <2>3, <2>5
    <3>3. -q \in Int
      OBVIOUS
    <3> QED
      BY <3>1, <3>2, <3>3, Zenon
  <2> QED
    BY <2>4, <2>5
<1> QED
  BY <1>7, <1>8

\* A value is what its type says it is.
LEMMA ValueCases ==
    ASSUME NEW x \in Value
    PROVE  /\ x.type = "integer" => x.v \in IntMin..IntMax
           /\ x.type = "real"    => x.v \in Fraction
           /\ x.type = "boolean" => x.v \in {0, 1}
           /\ x.type = "char"    => x.v \in 0..255
           /\ x.type = "string"  => x.v \in Seq(0..255)
           /\ x.type \in {"integer", "real", "boolean", "char", "string", "none"}
<1>1. CASE x \in IntegerValue
  BY <1>1 DEF IntegerValue
<1>2. CASE x \in [type : {"real"}, v : Fraction]
  BY <1>2
<1>3. CASE x \in [type : {"boolean"}, v : {0, 1}]
  BY <1>3
<1>4. CASE x \in [type : {"char"}, v : 0..255]
  BY <1>4
<1>5. CASE x \in [type : {"string"}, v : Seq(0..255)]
  BY <1>5
<1>6. CASE x = None
  BY <1>6 DEF None
<1> QED
  BY <1>1, <1>2, <1>3, <1>4, <1>5, <1>6 DEF Value

\* The numeric values seen as integers and as fractions.
LEMMA NumericViews ==
    ASSUME NEW x \in Value, IsNumeric(x)
    PROVE  /\ AsInteger(x) \in Int
           /\ AsFraction(x) \in Fraction
           /\ x.type # "real" => x.v \in Int
<1>1. CASE x.type = "real"
  <2>1. x.v \in Fraction
    BY <1>1, ValueCases
  <2>2. x.v[1] \in Int /\ x.v[2] \in Nat \ {0}
    BY <2>1 DEF Fraction
  <2>3. TruncDiv(x.v[1], x.v[2]) \in Int
    BY <2>2, TruncDivInt
  <2> QED
    BY <1>1, <2>1, <2>3 DEF AsInteger, AsFraction
<1>2. CASE x.type # "real"
  <2>1. \/ x.v \in IntMin..IntMax
        \/ x.v \in {0, 1}
        \/ x.v \in 0..255
    BY <1>2, ValueCases, Zenon DEF IsNumeric
  <2>2. x.v \in Int
    BY <2>1, IntRangeAssumption DEF IntMin
  <2>3. <<x.v, 1>> \in Fraction
    BY <2>2 DEF Fraction
  <2> QED
    BY <1>2, <2>2, <2>3 DEF AsInteger, AsFraction
<1> QED
  BY <1>1, <1>2

------------------------------------------------------------------------------
\* A value of each type is a value.
LEMMA ValuesAreValues ==
    /\ \A n \in IntMin..IntMax : Integer(n) \in Value
    /\ \A q \in Fraction : Real(q) \in Value
    /\ \A b \in BOOLEAN : Boolean(b) \in Value
    /\ \A c \in 0..255 : Char(c) \in Value
    /\ \A s \in Seq(0..255) : String(s) \in Value
    /\ None \in Value
<1>1. ASSUME NEW n \in IntMin..IntMax PROVE Integer(n) \in Value
  <2>1. Integer(n) \in IntegerValue
    BY DEF Integer, IntegerValue
  <2> QED
    BY <2>1, Zenon DEF Value
<1>2. ASSUME NEW q \in Fraction PROVE Real(q) \in Value
  <2>1. Real(q) \in [type : {"real"}, v : Fraction]
    BY DEF Real
  <2> QED
    BY <2>1, Zenon DEF Value
<1>3. ASSUME NEW b \in BOOLEAN PROVE Boolean(b) \in Value
  <2>1. Boolean(b) \in [type : {"boolean"}, v : {0, 1}]
    BY DEF Boolean
  <2> QED
    BY <2>1, Zenon DEF Value
<1>4. ASSUME NEW c \in 0..255 PROVE Char(c) \in Value
  <2>1. Char(c) \in [type : {"char"}, v : 0..255]
    BY DEF Char
  <2> QED
    BY <2>1, Zenon DEF Value
<1>5. ASSUME NEW s \in Seq(0..255) PROVE String(s) \in Value
  <2>1. String(s) \in [type : {"string"}, v : Seq(0..255)]
    BY DEF String
  <2> QED
    BY <2>1, Zenon DEF Value
<1>6. None \in Value
  BY Zenon DEF Value
<1> QED
  BY <1>1, <1>2, <1>3, <1>4, <1>5, <1>6, Zenon

\* The range check lets exactly the integers of Arion's range pass.
LEMMA RangeErrorIsRange ==
    ASSUME NEW n \in Int
    PROVE  /\ RangeError(n) = NoError <=> n \in IntMin..IntMax
           /\ RangeError(n) \in {NoError, "Numerical Overflow", "Numerical Underflow"}
BY IntRangeAssumption, SMTT(30) DEF RangeError, NoError, IntMin

LEMMA ResultIsSound ==
    ASSUME NEW value \in Value PROVE Sound(Result(value))
BY DEF Sound, Result

LEMMA RefuseIsSound ==
    ASSUME NEW kind \in OperationErrors PROVE Sound(Refuse(kind))
BY DEF Sound, Refuse, OperationErrors, NoError

LEMMA CheckedIntegerIsSound ==
    ASSUME NEW n \in Int PROVE Sound(CheckedInteger(n))
<1>1. CASE RangeError(n) = NoError
  <2>1. Integer(n) \in Value
    BY <1>1, RangeErrorIsRange, ValuesAreValues
  <2> QED
    BY <1>1, <2>1, ResultIsSound DEF CheckedInteger
<1>2. CASE RangeError(n) # NoError
  <2>1. RangeError(n) \in OperationErrors
    BY <1>2, RangeErrorIsRange DEF OperationErrors
  <2> QED
    BY <1>2, <2>1, RefuseIsSound DEF CheckedInteger
<1> QED
  BY <1>1, <1>2

------------------------------------------------------------------------------
LEMMA PositiveProduct ==
    ASSUME NEW a \in Nat \ {0}, NEW b \in Nat \ {0}
    PROVE  a * b \in Nat \ {0}
OBVIOUS

\* Arithmetic on fractions stays in the fractions.
LEMMA FractionsAreClosed ==
    ASSUME NEW p \in Fraction, NEW q \in Fraction
    PROVE  /\ Plus(p, q) \in Fraction
           /\ Minus(p, q) \in Fraction
           /\ Times(p, q) \in Fraction
           /\ q[1] # 0 => Over(p, q) \in Fraction
<1>1. /\ p[1] \in Int /\ p[2] \in Nat \ {0}
      /\ q[1] \in Int /\ q[2] \in Nat \ {0}
  BY DEF Fraction
<1>2. p[2] * q[2] \in Nat \ {0}
  BY <1>1, PositiveProduct
<1>3. /\ p[1] * q[2] + q[1] * p[2] \in Int
      /\ p[1] * q[2] - q[1] * p[2] \in Int
      /\ p[1] * q[1] \in Int
  BY <1>1
<1>4. Plus(p, q) \in Fraction /\ Minus(p, q) \in Fraction /\ Times(p, q) \in Fraction
  BY <1>2, <1>3 DEF Plus, Minus, Times, Fraction
<1>5. ASSUME q[1] # 0 PROVE Over(p, q) \in Fraction
  <2>1. CASE q[1] > 0
    <3>1. p[2] * q[1] \in Nat \ {0}
      BY <1>1, <2>1, PositiveProduct
    <3>2. p[1] * q[2] \in Int
      BY <1>1
    <3> QED
      BY <2>1, <3>1, <3>2 DEF Over, Fraction
  <2>2. CASE ~(q[1] > 0)
    <3>1. p[2] * (-q[1]) \in Nat \ {0}
      BY <1>1, <1>5, <2>2, PositiveProduct
    <3>2. p[2] * (-q[1]) = -(p[2] * q[1])
      BY <1>1
    <3>3. -(p[1] * q[2]) \in Int
      BY <1>1
    <3> QED
      BY <2>2, <3>1, <3>2, <3>3 DEF Over, Fraction
  <2> QED
    BY <2>1, <2>2
<1> QED
  BY <1>4, <1>5

LEMMA RealArithmeticIsSound ==
    ASSUME NEW code \in ArithmeticCodes, NEW p \in Fraction, NEW q \in Fraction
    PROVE  Sound(RealArithmetic(code, p, q))
<1> USE DEF OPR_ADD, OPR_SUB, OPR_MUL, OPR_DIV, OPR_RDIV, OPR_MOD
<1>1. CASE code = OPR_ADD
  <2>1. RealArithmetic(code, p, q) = Result(Real(Plus(p, q)))
    BY <1>1 DEF RealArithmetic
  <2> QED
    BY <2>1, FractionsAreClosed, ValuesAreValues, ResultIsSound
<1>2. CASE code = OPR_SUB
  <2>1. RealArithmetic(code, p, q) = Result(Real(Minus(p, q)))
    BY <1>2 DEF RealArithmetic
  <2> QED
    BY <2>1, FractionsAreClosed, ValuesAreValues, ResultIsSound
<1>3. CASE code = OPR_MUL
  <2>1. RealArithmetic(code, p, q) = Result(Real(Times(p, q)))
    BY <1>3 DEF RealArithmetic
  <2> QED
    BY <2>1, FractionsAreClosed, ValuesAreValues, ResultIsSound
<1>4. CASE code \in {OPR_DIV, OPR_RDIV}
  <2>1. RealArithmetic(code, p, q) =
          IF q[1] = 0 THEN Refuse("Division by Zero") ELSE Result(Real(Over(p, q)))
    <3>1. CASE code = OPR_DIV
      BY <3>1 DEF RealArithmetic
    <3>2. CASE code = OPR_RDIV
      BY <3>2 DEF RealArithmetic
    <3> QED
      BY <1>4, <3>1, <3>2
  <2>2. "Division by Zero" \in OperationErrors
    BY DEF OperationErrors
  <2>3. CASE q[1] = 0
    BY <2>1, <2>2, <2>3, RefuseIsSound
  <2>4. CASE q[1] # 0
    BY <2>1, <2>4, FractionsAreClosed, ValuesAreValues, ResultIsSound
  <2> QED
    BY <2>3, <2>4
<1>5. CASE code = OPR_MOD
  <2>1. "MOD requires integer operands" \in OperationErrors
    BY DEF OperationErrors
  <2>2. RealArithmetic(code, p, q) = Refuse("MOD requires integer operands")
    BY <1>5 DEF RealArithmetic
  <2> QED
    BY <2>1, <2>2, RefuseIsSound
<1> QED
  BY <1>1, <1>2, <1>3, <1>4, <1>5 DEF ArithmeticCodes

LEMMA IntegerArithmeticIsSound ==
    ASSUME NEW code \in ArithmeticCodes \ {OPR_RDIV}, NEW l \in Int, NEW r \in Int
    PROVE  Sound(IntegerArithmetic(code, l, r))
<1> USE DEF OPR_ADD, OPR_SUB, OPR_MUL, OPR_DIV, OPR_RDIV, OPR_MOD
<1>1. "Division by Zero" \in OperationErrors
  BY DEF OperationErrors
<1>2. CASE code = OPR_ADD
  BY <1>2, CheckedIntegerIsSound DEF IntegerArithmetic
<1>3. CASE code = OPR_SUB
  BY <1>3, CheckedIntegerIsSound DEF IntegerArithmetic
<1>4. CASE code = OPR_MUL
  <2>1. l * r \in Int
    OBVIOUS
  <2> QED
    BY <1>4, <2>1, CheckedIntegerIsSound DEF IntegerArithmetic
<1>5. CASE code = OPR_DIV
  <2>1. IntegerArithmetic(code, l, r) =
          IF r = 0 THEN Refuse("Division by Zero") ELSE CheckedInteger(TruncDiv(l, r))
    BY <1>5 DEF IntegerArithmetic
  <2>2. CASE r = 0
    BY <1>1, <2>1, <2>2, RefuseIsSound
  <2>3. CASE r # 0
    BY <2>1, <2>3, TruncDivInt, CheckedIntegerIsSound
  <2> QED
    BY <2>2, <2>3
<1>6. CASE code = OPR_MOD
  <2>1. IntegerArithmetic(code, l, r) =
          IF r = 0 THEN Refuse("Division by Zero") ELSE CheckedInteger(Modulo(l, r))
    BY <1>6 DEF IntegerArithmetic
  <2>2. CASE r = 0
    BY <1>1, <2>1, <2>2, RefuseIsSound
  <2>3. CASE r # 0
    <3>1. Magnitude(r) \in Nat
      BY DEF Magnitude
    <3>2. Modulo(l, r) \in Int
      BY <2>3, <3>1, ModuloIsRemainder
    <3> QED
      BY <2>1, <2>3, <3>2, CheckedIntegerIsSound
  <2> QED
    BY <2>2, <2>3
<1> QED
  BY <1>2, <1>3, <1>4, <1>5, <1>6 DEF ArithmeticCodes

LEMMA NegatedIsSound ==
    ASSUME NEW x \in Value
    PROVE  Sound(Negated(x))
<1>1. CASE ~IsNumeric(x)
  <2>1. "NEG requires numeric operand" \in OperationErrors
    BY DEF OperationErrors
  <2>2. Negated(x) = Refuse("NEG requires numeric operand")
    BY <1>1 DEF Negated, IsNumeric
  <2> QED
    BY <2>1, <2>2, RefuseIsSound
<1>2. CASE IsNumeric(x) /\ x.type = "real"
  <2>1. Negated(x) = Result(Real(<<-x.v[1], x.v[2]>>))
    BY <1>2 DEF Negated
  <2>2. <<-x.v[1], x.v[2]>> \in Fraction
    BY <1>2, ValueCases DEF Fraction
  <2> QED
    BY <2>1, <2>2, ValuesAreValues, ResultIsSound
<1>3. CASE IsNumeric(x) /\ x.type # "real"
  <2>1. Negated(x) = CheckedInteger(-x.v)
    BY <1>3 DEF Negated
  <2>2. -x.v \in Int
    BY <1>3, NumericViews
  <2> QED
    BY <2>1, <2>2, CheckedIntegerIsSound
<1> QED
  BY <1>1, <1>2, <1>3

LEMMA ArithmeticIsSound ==
    ASSUME NEW code \in ArithmeticCodes, NEW x \in Value, NEW y \in Value
    PROVE  Sound(Arithmetic(code, x, y))
<1>1. CASE code = OPR_ADD /\ x.type = "string" /\ y.type = "string"
  <2>1. x.v \o y.v \in Seq(0..255)
    BY <1>1, ValueCases
  <2> QED
    BY <1>1, <2>1, ValuesAreValues, ResultIsSound DEF Arithmetic
<1>2. CASE ~(IsNumeric(x) /\ IsNumeric(y))
  <2>1. "numeric operands required" \in OperationErrors
    BY DEF OperationErrors
  <2> QED
    BY <1>1, <1>2, <2>1, RefuseIsSound DEF Arithmetic
<1>3. CASE IsNumeric(x) /\ IsNumeric(y)
  <2>1. x.type # "string"
    BY <1>3 DEF IsNumeric
  <2>2. CASE code = OPR_RDIV \/ x.type = "real" \/ y.type = "real"
    <3>1. AsFraction(x) \in Fraction /\ AsFraction(y) \in Fraction
      BY <1>3, NumericViews
    <3> QED
      BY <1>3, <2>1, <2>2, <3>1, RealArithmeticIsSound DEF Arithmetic
  <2>3. CASE ~(code = OPR_RDIV \/ x.type = "real" \/ y.type = "real")
    <3>1. x.v \in Int /\ y.v \in Int
      BY <1>3, <2>3, NumericViews
    <3> QED
      BY <1>3, <2>1, <2>3, <3>1, IntegerArithmeticIsSound DEF Arithmetic
  <2> QED
    BY <2>2, <2>3
<1> QED
  BY <1>2, <1>3

LEMMA ComparisonIsSound ==
    ASSUME NEW code \in ComparisonCodes, NEW x \in Value, NEW y \in Value
    PROVE  Sound(Comparison(code, x, y))
<1> USE DEF OPR_EQL, OPR_NEQ, OPR_LSS, OPR_GEQ, OPR_GTR, OPR_LEQ
<1>1. \A equal, less \in BOOLEAN : Verdict(code, equal, less) \in BOOLEAN
  BY DEF Verdict, ComparisonCodes
<1>2. CASE IsNumeric(x) /\ IsNumeric(y)
  <2> DEFINE p == AsFraction(x)
             q == AsFraction(y)
  <2>1. Comparison(code, x, y) = Result(Boolean(Verdict(code, Same(p, q), Less(p, q))))
    BY <1>2 DEF Comparison, IsNumeric
  <2>2. Same(p, q) \in BOOLEAN /\ Less(p, q) \in BOOLEAN
    BY DEF Same, Less
  <2>3. Verdict(code, Same(p, q), Less(p, q)) \in BOOLEAN
    BY <1>1, <2>2
  <2> HIDE DEF p, q
  <2> QED
    BY <2>1, <2>3, ValuesAreValues, ResultIsSound
<1>3. CASE ~(IsNumeric(x) /\ IsNumeric(y)) /\ x.type = "string" /\ y.type = "string"
  <2>1. Comparison(code, x, y) =
          Result(Boolean(Verdict(code, x.v = y.v, Before(x.v, y.v))))
    BY <1>3 DEF Comparison
  <2>2. Before(x.v, y.v) \in BOOLEAN
    BY DEF Before
  <2> QED
    BY <1>1, <2>1, <2>2, ValuesAreValues, ResultIsSound
<1>4. CASE /\ ~(IsNumeric(x) /\ IsNumeric(y))
           /\ ~(x.type = "string" /\ y.type = "string")
  <2>1. "operands are incompatible" \in OperationErrors
    BY DEF OperationErrors
  <2>2. Comparison(code, x, y) = Refuse("operands are incompatible")
    BY <1>4 DEF Comparison
  <2> QED
    BY <2>1, <2>2, RefuseIsSound
<1> QED
  BY <1>2, <1>3, <1>4

LEMMA ConversionsAreSound ==
    ASSUME NEW x \in Value
    PROVE  Sound(ToReal(x)) /\ Sound(ToChar(x))
<1>1. /\ "TO_REAL requires numeric operand" \in OperationErrors
      /\ "TO_CHAR requires numeric operand" \in OperationErrors
      /\ "TO_CHAR code point outside range" \in OperationErrors
  BY DEF OperationErrors
<1>2. CASE ~IsNumeric(x)
  BY <1>1, <1>2, RefuseIsSound DEF ToReal, ToChar
<1>3. CASE IsNumeric(x)
  <2>1. Sound(ToReal(x))
    BY <1>3, NumericViews, ValuesAreValues, ResultIsSound DEF ToReal
  <2>2. CASE AsInteger(x) \in 0..255
    BY <1>3, <2>1, <2>2, ValuesAreValues, ResultIsSound DEF ToChar
  <2>3. CASE AsInteger(x) \notin 0..255
    BY <1>1, <1>3, <2>1, <2>3, RefuseIsSound DEF ToChar
  <2> QED
    BY <2>2, <2>3
<1> QED
  BY <1>2, <1>3

\* Whatever an operation is given, it leaves a value of the runtime, an integer
\* within Arion's range, or reports one of its errors: nothing wraps around.
THEOREM OutcomeIsSound ==
    ASSUME NEW code \in ValueCodes, NEW operands \in [1..Arity(code) -> Value]
    PROVE  Sound(Outcome(code, operands))
<1>1. operands[1] \in Value
  BY DEF Arity
<1> USE DEF OPR_NEG, OPR_ADD, OPR_SUB, OPR_MUL, OPR_DIV, OPR_MOD, OPR_EQL, OPR_NEQ,
            OPR_LSS, OPR_GEQ, OPR_GTR, OPR_LEQ, OPR_RDIV, OPR_TO_REAL, OPR_TO_CHAR
<1>2. CASE code = OPR_NEG
  <2>1. Outcome(code, operands) = Negated(operands[1])
    BY <1>2 DEF Outcome, ArithmeticCodes, ComparisonCodes
  <2> QED
    BY <1>1, <2>1, NegatedIsSound
<1>3. CASE code = OPR_TO_REAL
  <2>1. Outcome(code, operands) = ToReal(operands[1])
    BY <1>3 DEF Outcome, ArithmeticCodes, ComparisonCodes
  <2> QED
    BY <1>1, <2>1, ConversionsAreSound
<1>4. CASE code = OPR_TO_CHAR
  <2>1. Outcome(code, operands) = ToChar(operands[1])
    BY <1>4 DEF Outcome, ArithmeticCodes, ComparisonCodes
  <2> QED
    BY <1>1, <2>1, ConversionsAreSound
<1>5. CASE code \in ArithmeticCodes
  <2>1. Outcome(code, operands) = Arithmetic(code, operands[1], operands[2])
    BY <1>5 DEF Outcome, ArithmeticCodes, ComparisonCodes
  <2>2. operands[2] \in Value
    BY <1>5 DEF Arity, UnaryCodes, ArithmeticCodes
  <2> QED
    BY <1>1, <1>5, <2>1, <2>2, ArithmeticIsSound
<1>6. CASE code \in ComparisonCodes
  <2>1. Outcome(code, operands) = Comparison(code, operands[1], operands[2])
    BY <1>6 DEF Outcome, ArithmeticCodes, ComparisonCodes
  <2>2. operands[2] \in Value
    BY <1>6 DEF Arity, UnaryCodes, ComparisonCodes
  <2> QED
    BY <1>1, <1>6, <2>1, <2>2, ComparisonIsSound
<1> QED
  BY <1>2, <1>3, <1>4, <1>5, <1>6 DEF ValueCodes, UnaryCodes

------------------------------------------------------------------------------
(* The laws of OperationLaws, for two operands each. *)

LEMMA EveryOutcomeIsSound ==
    ASSUME NEW x \in Value, NEW y \in Value
    PROVE  SoundOn(x, y)
<1> SUFFICES ASSUME NEW code \in ValueCodes PROVE Sound(Outcome(code, <<x, y>>))
  BY DEF SoundOn
<1>1. CASE code \in UnaryCodes
  <2>1. <<x>> \in [1..Arity(code) -> Value]
    BY <1>1 DEF Arity
  <2>2. Sound(Outcome(code, <<x>>))
    BY <2>1, OutcomeIsSound
  <2>3. <<x>>[1] = x /\ <<x, y>>[1] = x
    OBVIOUS
  <2>4. Outcome(code, <<x, y>>) = Outcome(code, <<x>>)
    <3> USE DEF OPR_NEG, OPR_ADD, OPR_SUB, OPR_MUL, OPR_DIV, OPR_MOD, OPR_EQL, OPR_NEQ,
                OPR_LSS, OPR_GEQ, OPR_GTR, OPR_LEQ, OPR_RDIV, OPR_TO_REAL, OPR_TO_CHAR
    <3>1. CASE code = OPR_NEG
      BY <3>1, <2>3 DEF Outcome, ArithmeticCodes, ComparisonCodes
    <3>2. CASE code = OPR_TO_REAL
      BY <3>2, <2>3 DEF Outcome, ArithmeticCodes, ComparisonCodes
    <3>3. CASE code = OPR_TO_CHAR
      BY <3>3, <2>3 DEF Outcome, ArithmeticCodes, ComparisonCodes
    <3> QED
      BY <1>1, <3>1, <3>2, <3>3 DEF UnaryCodes
  <2> QED
    BY <2>2, <2>4
<1>2. CASE code \notin UnaryCodes
  <2>1. <<x, y>> \in [1..Arity(code) -> Value]
    BY <1>2 DEF Arity
  <2> QED
    BY <2>1, OutcomeIsSound
<1> QED
  BY <1>1, <1>2

\* The remainder of a multiple of the divisor is zero.
LEMMA MultipleHasNoRemainder ==
    ASSUME NEW m \in Nat \ {0}, NEW k \in Int
    PROVE  (k * m) % m = 0
<1>1. PICK n \in Int : n = k * m
  OBVIOUS
<1>2. PICK q \in Int, r \in Int : /\ q = n \div m /\ r = n % m
                                /\ n = m * q + r /\ 0 <= r /\ r < m
  OBVIOUS
<1>3. m * (k - q) = r
  BY <1>1, <1>2
<1>4. CASE k - q >= 1
  <2>1. m * (k - q) >= m
    BY <1>4
  <2> QED
    BY <1>2, <1>3, <2>1
<1>5. CASE k - q <= -1
  <2>1. m * (k - q) <= -m
    BY <1>5
  <2> QED
    BY <1>2, <1>3, <2>1
<1>6. CASE k - q = 0
  BY <1>1, <1>2, <1>3, <1>6
<1> QED
  BY <1>4, <1>5, <1>6

\* A division rounded towards zero leaves a rest below the divisor, with the sign of
\* the dividend.
LEMMA TruncatedRest ==
    ASSUME NEW l \in Int, NEW r \in Int, r # 0
    PROVE  /\ Magnitude(l - TruncDiv(l, r) * r) < Magnitude(r)
           /\ (l - TruncDiv(l, r) * r) * l >= 0
<1>1. PICK m \in Nat \ {0}, n \in Nat : m = Magnitude(r) /\ n = Magnitude(l)
  BY DEF Magnitude
<1>2. PICK q \in Nat : /\ q = n \div m
                       /\ m * q <= n
                       /\ n < m * q + m
  OBVIOUS
<1>3. PICK p \in Nat : p = m * q
  OBVIOUS
<1>4. TruncDiv(l, r) = IF (l < 0) = (r < 0) THEN q ELSE -q
  BY <1>1, <1>2 DEF TruncDiv
<1>5. TruncDiv(l, r) * r = IF l < 0 THEN -p ELSE p
  <2>1. CASE l < 0 /\ r < 0
    BY <2>1, <1>1, <1>3, <1>4 DEF Magnitude
  <2>2. CASE l < 0 /\ ~(r < 0)
    BY <2>2, <1>1, <1>3, <1>4 DEF Magnitude
  <2>3. CASE ~(l < 0) /\ r < 0
    BY <2>3, <1>1, <1>3, <1>4 DEF Magnitude
  <2>4. CASE ~(l < 0) /\ ~(r < 0)
    BY <2>4, <1>1, <1>3, <1>4 DEF Magnitude
  <2> QED
    BY <2>1, <2>2, <2>3, <2>4
<1>6. p <= n /\ n < p + m
  BY <1>2, <1>3
<1>7. PICK rest \in Int : rest = l - TruncDiv(l, r) * r
  BY <1>5
<1>8. CASE l < 0
  <2>1. rest <= 0 /\ -rest < m
    BY <1>1, <1>5, <1>6, <1>7, <1>8 DEF Magnitude
  <2>2. rest * l >= 0
    BY <1>8, <2>1
  <2> QED
    BY <1>1, <1>7, <2>1, <2>2 DEF Magnitude
<1>9. CASE ~(l < 0)
  <2>1. rest >= 0 /\ rest < m
    BY <1>1, <1>5, <1>6, <1>7, <1>9 DEF Magnitude
  <2>2. rest * l >= 0
    BY <1>9, <2>1
  <2> QED
    BY <1>1, <1>7, <2>1, <2>2 DEF Magnitude
<1> QED
  BY <1>8, <1>9

\* An integer is checked before it is pushed, and is itself when it passes.
LEMMA CheckedIntegerIsExact ==
    ASSUME NEW n \in Int
    PROVE  /\ CheckedInteger(n).error = NoError => CheckedInteger(n).value = Integer(n)
           /\ n \in IntMin..IntMax => CheckedInteger(n).error = NoError
BY RangeErrorIsRange DEF CheckedInteger, Result, Refuse, NoError

\* Two integers meet in the integer arithmetic.
LEMMA IntegersAreArithmetic ==
    ASSUME NEW x \in Value, NEW y \in Value, x.type = "integer", y.type = "integer",
           NEW code \in ArithmeticCodes \ {OPR_RDIV}
    PROVE  /\ Outcome(code, <<x, y>>) = IntegerArithmetic(code, x.v, y.v)
           /\ x.v \in IntMin..IntMax /\ y.v \in IntMin..IntMax
           /\ x.v \in Int /\ y.v \in Int
<1> USE DEF OPR_NEG, OPR_ADD, OPR_SUB, OPR_MUL, OPR_DIV, OPR_MOD, OPR_RDIV, OPR_TO_REAL,
            OPR_TO_CHAR
<1>1. <<x, y>>[1] = x /\ <<x, y>>[2] = y
  OBVIOUS
<1>2. Outcome(code, <<x, y>>) = Arithmetic(code, x, y)
  BY <1>1 DEF Outcome, ArithmeticCodes, ComparisonCodes, OPR_EQL, OPR_NEQ, OPR_LSS, OPR_GEQ,
     OPR_GTR, OPR_LEQ
<1>3. Arithmetic(code, x, y) = IntegerArithmetic(code, x.v, y.v)
  BY DEF Arithmetic, IsNumeric
<1>4. x.v \in IntMin..IntMax /\ y.v \in IntMin..IntMax
  BY ValueCases
<1>5. x.v \in Int /\ y.v \in Int
  BY <1>4, IntRangeAssumption DEF IntMin
<1> QED
  BY <1>2, <1>3, <1>4, <1>5

LEMMA IntegersDivideExactly ==
    ASSUME NEW x \in Value, NEW y \in Value, x.type = "integer", y.type = "integer"
    PROVE  DividesExactly(x, y)
<1> DEFINE quotient  == Outcome(OPR_DIV, <<x, y>>)
           remainder == Outcome(OPR_MOD, <<x, y>>)
<1>1. /\ x.v \in IntMin..IntMax /\ y.v \in IntMin..IntMax /\ x.v \in Int /\ y.v \in Int
      /\ quotient = IntegerArithmetic(OPR_DIV, x.v, y.v)
      /\ remainder = IntegerArithmetic(OPR_MOD, x.v, y.v)
  BY IntegersAreArithmetic DEF ArithmeticCodes, OPR_ADD, OPR_SUB, OPR_MUL, OPR_DIV,
     OPR_MOD, OPR_RDIV
<1>2. /\ quotient = IF y.v = 0 THEN Refuse("Division by Zero")
                              ELSE CheckedInteger(TruncDiv(x.v, y.v))
      /\ remainder = IF y.v = 0 THEN Refuse("Division by Zero")
                               ELSE CheckedInteger(Modulo(x.v, y.v))
  <2>1. \A l, r : /\ IntegerArithmetic(OPR_DIV, l, r) =
                       IF r = 0 THEN Refuse("Division by Zero") ELSE CheckedInteger(TruncDiv(l, r))
                  /\ IntegerArithmetic(OPR_MOD, l, r) =
                       IF r = 0 THEN Refuse("Division by Zero") ELSE CheckedInteger(Modulo(l, r))
    BY DEF IntegerArithmetic, OPR_ADD, OPR_SUB, OPR_MUL, OPR_DIV, OPR_MOD
  <2> HIDE DEF quotient, remainder
  <2> QED
    BY <1>1, <2>1, Zenon
<1>3. CASE y.v = 0
  <2>1. quotient.error = "Division by Zero" /\ remainder.error = "Division by Zero"
    <3> HIDE DEF quotient, remainder
    <3> QED
      BY <1>2, <1>3 DEF Refuse
  <2> QED
    BY <1>3, <2>1 DEF DividesExactly
<1>4. CASE y.v # 0
  <2>1. PICK m \in Nat \ {0} : m = Magnitude(y.v) /\ m - 1 <= IntMax
    <3>1. Magnitude(y.v) \in Nat \ {0} /\ Magnitude(y.v) - 1 <= IntMax
      BY <1>1, <1>4, IntRangeAssumption DEF Magnitude, IntMin
    <3> QED
      BY <3>1
  <2>2. PICK k \in Int, mod \in 0..(m - 1) : /\ mod = Modulo(x.v, y.v)
                                            /\ x.v = k * m + mod
    <3>1. Modulo(x.v, y.v) \in 0..(m - 1) /\ \E k \in Int : x.v = k * m + Modulo(x.v, y.v)
      BY <1>1, <1>4, <2>1, ModuloIsRemainder
    <3> QED
      BY <3>1
  <2>3. remainder.error = NoError /\ remainder.value.v = mod
    <3>1. mod \in Int /\ mod \in IntMin..IntMax
      BY <2>1, IntRangeAssumption DEF IntMin
    <3>2. CheckedInteger(mod).error = NoError /\ CheckedInteger(mod).value = Integer(mod)
      BY <3>1, CheckedIntegerIsExact
    <3>3. remainder = CheckedInteger(mod)
      BY <1>2, <1>4, <2>2
    <3> QED
      BY <3>2, <3>3 DEF Integer
  <2>4. (x.v - mod) % m = 0
    <3>1. x.v - mod = k * m
      BY <1>1, <2>2
    <3> QED
      BY <3>1, MultipleHasNoRemainder
  <2>5. ASSUME quotient.error = NoError
        PROVE  /\ Magnitude(x.v - quotient.value.v * y.v) < Magnitude(y.v)
               /\ (x.v - quotient.value.v * y.v) * x.v >= 0
    <3>1. quotient.value.v = TruncDiv(x.v, y.v)
      <4>1. TruncDiv(x.v, y.v) \in Int
        BY <1>1, <1>4, TruncDivInt
      <4>2. quotient = CheckedInteger(TruncDiv(x.v, y.v))
        BY <1>2, <1>4, Zenon
      <4> HIDE DEF quotient
      <4>3. quotient.value = Integer(TruncDiv(x.v, y.v))
        BY <2>5, <4>1, <4>2, CheckedIntegerIsExact
      <4> QED
        BY <4>3 DEF Integer
    <3> QED
      BY <1>1, <1>4, <3>1, TruncatedRest
  <2> HIDE DEF quotient, remainder
  <2>6. remainder.value.v \in 0..(Magnitude(y.v) - 1)
    BY <2>1, <2>3
  <2>7. (x.v - remainder.value.v) % Magnitude(y.v) = 0
    BY <2>1, <2>3, <2>4
  <2> USE DEF quotient, remainder
  <2> QED
    BY <1>4, <2>3, <2>5, <2>6, <2>7, Zenon DEF DividesExactly
<1> QED
  BY <1>3, <1>4

------------------------------------------------------------------------------
\* Two operands one of which is real meet in the real arithmetic.
LEMMA RealsAreArithmetic ==
    ASSUME NEW x, NEW y, x.type = "real", IsNumeric(y),
           NEW code \in ArithmeticCodes
    PROVE  Outcome(code, <<x, y>>) = RealArithmetic(code, x.v, AsFraction(y))
<1> USE DEF OPR_NEG, OPR_ADD, OPR_SUB, OPR_MUL, OPR_DIV, OPR_MOD, OPR_EQL, OPR_NEQ,
            OPR_LSS, OPR_GEQ, OPR_GTR, OPR_LEQ, OPR_RDIV, OPR_TO_REAL, OPR_TO_CHAR
<1>1. <<x, y>>[1] = x /\ <<x, y>>[2] = y
  OBVIOUS
<1>2. Outcome(code, <<x, y>>) = Arithmetic(code, x, y)
  BY <1>1 DEF Outcome, ArithmeticCodes, ComparisonCodes
<1>3. IsNumeric(x) /\ AsFraction(x) = x.v
  BY DEF IsNumeric, AsFraction
<1>4. Arithmetic(code, x, y) = RealArithmetic(code, AsFraction(x), AsFraction(y))
  BY <1>3 DEF Arithmetic
<1> QED
  BY <1>2, <1>3, <1>4

LEMMA IntegersPromoteExactly ==
    ASSUME NEW x \in Value, NEW y \in Value, x.type = "integer", y.type = "integer"
    PROVE  PromotesExactly(x, y)
<1> USE DEF OPR_NEG, OPR_ADD, OPR_SUB, OPR_MUL, OPR_DIV, OPR_MOD, OPR_EQL, OPR_NEQ,
            OPR_LSS, OPR_GEQ, OPR_GTR, OPR_LEQ, OPR_RDIV, OPR_TO_REAL, OPR_TO_CHAR
<1>1. IsNumeric(x) /\ IsNumeric(y) /\ AsFraction(x) = <<x.v, 1>> /\ AsFraction(y) = <<y.v, 1>>
  BY DEF IsNumeric, AsFraction
<1>2. Outcome(OPR_TO_REAL, <<x>>).value = Real(<<x.v, 1>>)
  <2>1. <<x>>[1] = x
    OBVIOUS
  <2>2. Outcome(OPR_TO_REAL, <<x>>) = ToReal(x)
    BY <2>1 DEF Outcome, ArithmeticCodes, ComparisonCodes
  <2> QED
    BY <1>1, <2>2 DEF ToReal, Result
<1> SUFFICES ASSUME NEW code \in {OPR_ADD, OPR_SUB, OPR_MUL}
             PROVE  LET exact    == Outcome(code, <<x, y>>)
                        promoted == Outcome(code, <<Real(<<x.v, 1>>), y>>)
                    IN  /\ promoted.error = NoError
                        /\ exact.error = NoError =>
                              Same(Number(exact.value), Number(promoted.value))
  BY <1>2, Zenon DEF PromotesExactly
<1>3. code \in ArithmeticCodes \ {OPR_RDIV}
  BY DEF ArithmeticCodes
<1>4. PICK a \in Int, b \in Int : a = x.v /\ b = y.v
  BY <1>3, IntegersAreArithmetic
<1>5. Outcome(code, <<x, y>>) = IntegerArithmetic(code, a, b)
  BY <1>3, <1>4, IntegersAreArithmetic
<1>6. Outcome(code, <<Real(<<a, 1>>), y>>) = RealArithmetic(code, <<a, 1>>, <<b, 1>>)
  <2>1. Real(<<a, 1>>).type = "real" /\ Real(<<a, 1>>).v = <<a, 1>>
    BY DEF Real
  <2>2. Outcome(code, <<Real(<<a, 1>>), y>>) =
          RealArithmetic(code, Real(<<a, 1>>).v, AsFraction(y))
    BY <1>1, <1>3, <2>1, RealsAreArithmetic
  <2> QED
    BY <1>1, <1>4, <2>1, <2>2
<1>7. PICK n \in Int : /\ IntegerArithmetic(code, a, b) = CheckedInteger(n)
                       /\ RealArithmetic(code, <<a, 1>>, <<b, 1>>) = Result(Real(<<n, 1>>))
  <2>1. CASE code = OPR_ADD
    <3>1. IntegerArithmetic(code, a, b) = CheckedInteger(a + b)
      BY <2>1 DEF IntegerArithmetic
    <3>2. RealArithmetic(code, <<a, 1>>, <<b, 1>>) = Result(Real(Plus(<<a, 1>>, <<b, 1>>)))
      BY <2>1 DEF RealArithmetic
    <3>3. Plus(<<a, 1>>, <<b, 1>>) = <<a + b, 1>>
      BY DEF Plus
    <3> QED
      BY <3>1, <3>2, <3>3
  <2>2. CASE code = OPR_SUB
    <3>1. IntegerArithmetic(code, a, b) = CheckedInteger(a - b)
      BY <2>2 DEF IntegerArithmetic
    <3>2. RealArithmetic(code, <<a, 1>>, <<b, 1>>) = Result(Real(Minus(<<a, 1>>, <<b, 1>>)))
      BY <2>2 DEF RealArithmetic
    <3>3. Minus(<<a, 1>>, <<b, 1>>) = <<a - b, 1>>
      BY DEF Minus
    <3> QED
      BY <3>1, <3>2, <3>3
  <2>3. CASE code = OPR_MUL
    <3>1. IntegerArithmetic(code, a, b) = CheckedInteger(a * b)
      BY <2>3 DEF IntegerArithmetic
    <3>2. RealArithmetic(code, <<a, 1>>, <<b, 1>>) = Result(Real(Times(<<a, 1>>, <<b, 1>>)))
      BY <2>3 DEF RealArithmetic
    <3>3. Times(<<a, 1>>, <<b, 1>>) = <<a * b, 1>> /\ a * b \in Int
      BY DEF Times
    <3> QED
      BY <3>1, <3>2, <3>3
  <2> QED
    BY <2>1, <2>2, <2>3, Zenon
<1>8. CheckedInteger(n).error = NoError => Number(CheckedInteger(n).value) = <<n, 1>>
  <2>1. Number(Integer(n)) = <<n, 1>>
    BY DEF Number, AsFraction, Integer
  <2> QED
    BY <2>1, CheckedIntegerIsExact
<1>9. /\ Result(Real(<<n, 1>>)).error = NoError
      /\ Number(Result(Real(<<n, 1>>)).value) = <<n, 1>>
  BY DEF Number, AsFraction, Real, Result
<1>10. Same(<<n, 1>>, <<n, 1>>)
  BY DEF Same
<1> QED
  BY <1>4, <1>5, <1>6, <1>7, <1>8, <1>9, <1>10, Zenon

------------------------------------------------------------------------------
(* The order of the comparisons. *)

\* Every nonempty set of numbers has a least one.
LEMMA LeastNumber ==
    ASSUME NEW T, T \subseteq Nat, T # {}
    PROVE  \E m \in T : \A n \in T : m <= n
<1>1. IsWellFoundedOn({ss \in Nat \X Nat : ss[1] < ss[2]}, Nat)
  BY NatLessThanWellFounded DEF OpToRel
<1>2. PICK m \in T : \A n \in T : ~(<<n, m>> \in {ss \in Nat \X Nat : ss[1] < ss[2]})
  BY <1>1, WFMin
<1>3. \A n \in T : ~(n < m)
  BY <1>2
<1> QED
  BY <1>3

\* Two strings are equal, or differ at a first place; the one that ends there, or has
\* the smaller character, is before the other.
DiffersFirst(s, t, i) ==
    /\ i \in 1..(Len(s) + 1) /\ i \in 1..(Len(t) + 1)
    /\ i <= Len(s) \/ i <= Len(t)
    /\ \A j \in 1..(i - 1) : s[j] = t[j]
    /\ i <= Len(s) /\ i <= Len(t) => s[i] # t[i]

SmallerAt(s, t, i) == i <= Len(t) /\ (i <= Len(s) => s[i] < t[i])

LEMMA EqualOrDifferent ==
    ASSUME NEW s \in Seq(0..255), NEW t \in Seq(0..255), s # t
    PROVE  \E i \in Nat : DiffersFirst(s, t, i)
<1> DEFINE Differing == {i \in Nat \ {0} : /\ i <= Len(s) \/ i <= Len(t)
                                          /\ i <= Len(s) /\ i <= Len(t) => s[i] # t[i]}
<1>1. Differing # {}
  <2> SUFFICES ASSUME Differing = {} PROVE FALSE
    OBVIOUS
  <2>1. Len(s) = Len(t)
    <3>1. CASE Len(s) < Len(t)
      <4>1. Len(t) \in Differing
        BY <3>1
      <4> QED
        BY <4>1
    <3>2. CASE Len(t) < Len(s)
      <4>1. Len(s) \in Differing
        BY <3>2
      <4> QED
        BY <4>1
    <3> QED
      BY <3>1, <3>2
  <2>2. \A i \in 1..Len(s) : s[i] = t[i]
    <3> SUFFICES ASSUME NEW i \in 1..Len(s), s[i] # t[i] PROVE FALSE
      OBVIOUS
    <3>1. i \in Differing
      BY <2>1
    <3> QED
      BY <3>1
  <2> QED
    BY <2>1, <2>2, SeqEqual
<1>2. Differing \subseteq Nat
  OBVIOUS
<1>3. PICK m \in Differing : \A n \in Differing : m <= n
  <2> HIDE DEF Differing
  <2> QED
    BY <1>1, <1>2, LeastNumber
<1>4. \A j \in 1..(m - 1) : j <= Len(s) /\ j <= Len(t) /\ s[j] = t[j]
  <2> SUFFICES ASSUME NEW j \in 1..(m - 1) PROVE j <= Len(s) /\ j <= Len(t) /\ s[j] = t[j]
    OBVIOUS
  <2>1. j \in Nat \ {0} /\ j < m
    BY <1>2
  <2>2. j \notin Differing
    BY <1>2, <1>3, <2>1
  <2>3. j <= Len(s) \/ j <= Len(t)
    BY <1>3, <2>1
  <2> QED
    BY <2>1, <2>2, <2>3
<1>5. m \in 1..(Len(s) + 1) /\ m \in 1..(Len(t) + 1)
  <2>1. m \in Nat \ {0}
    OBVIOUS
  <2>2. CASE m = 1
    BY <2>2
  <2>3. CASE m # 1
    <3>1. m - 1 \in 1..(m - 1)
      BY <2>1, <2>3
    <3>2. m - 1 <= Len(s) /\ m - 1 <= Len(t)
      BY <1>4, <3>1
    <3> QED
      BY <2>1, <3>2
  <2> QED
    BY <2>2, <2>3
<1> QED
  BY <1>4, <1>5 DEF DiffersFirst

LEMMA CharactersAreNumbers ==
    ASSUME NEW s \in Seq(0..255)
    PROVE  Len(s) \in Nat /\ \A j \in 1..Len(s) : s[j] \in Int
<1>1. Len(s) \in Nat
  BY LenProperties
<1>2. ASSUME NEW j \in 1..Len(s) PROVE s[j] \in Int
  <2>1. s[j] \in 0..255
    BY ElementOfSeq
  <2>2. 0..255 \subseteq Int
    OBVIOUS
  <2> QED
    BY <2>1, <2>2, Zenon
<1> QED
  BY <1>1, <1>2

LEMMA FirstDifferenceDecides ==
    ASSUME NEW s \in Seq(0..255), NEW t \in Seq(0..255), NEW i \in Nat,
           DiffersFirst(s, t, i)
    PROVE  /\ s # t
           /\ Before(s, t) <=> SmallerAt(s, t, i)
           /\ Before(t, s) <=> ~SmallerAt(s, t, i)
<1>1. /\ Len(s) \in Nat /\ Len(t) \in Nat
      /\ \A j \in 1..Len(s) : s[j] \in Int
      /\ \A j \in 1..Len(t) : t[j] \in Int
  BY CharactersAreNumbers
<1>2. s # t
  BY DEF DiffersFirst
<1>3. SmallerAt(s, t, i) => Before(s, t)
  BY DEF DiffersFirst, SmallerAt, Before
<1>4. ~SmallerAt(s, t, i) => Before(t, s)
  BY <1>1 DEF DiffersFirst, SmallerAt, Before
<1>5. ~(Before(s, t) /\ Before(t, s))
  <2> SUFFICES ASSUME NEW k \in 1..Len(t), k <= Len(s) + 1,
                      \A j \in 1..(k - 1) : s[j] = t[j],
                      k <= Len(s) => s[k] < t[k],
                      NEW l \in 1..Len(s), l <= Len(t) + 1,
                      \A j \in 1..(l - 1) : t[j] = s[j],
                      l <= Len(t) => t[l] < s[l]
               PROVE  FALSE
    BY DEF Before
  <2>1. CASE k < l
    <3>1. k \in 1..(l - 1) /\ k <= Len(s)
      BY <1>1, <2>1
    <3>2. s[k] < t[k] /\ t[k] = s[k] /\ s[k] \in Int
      BY <1>1, <3>1
    <3> QED
      BY <3>2
  <2>2. CASE l < k
    <3>1. l \in 1..(k - 1) /\ l <= Len(t)
      BY <1>1, <2>2
    <3>2. t[l] < s[l] /\ t[l] = s[l] /\ s[l] \in Int
      BY <1>1, <3>1
    <3> QED
      BY <3>2
  <2>3. CASE k = l
    <3>1. k <= Len(s) /\ l <= Len(t)
      BY <1>1, <2>3
    <3>2. s[k] < t[k] /\ t[k] < s[k] /\ s[k] \in Int /\ t[k] \in Int
      BY <1>1, <2>3, <3>1
    <3> QED
      BY <3>2
  <2> QED
    BY <2>1, <2>2, <2>3
<1> QED
  BY <1>2, <1>3, <1>4, <1>5

LEMMA BeforeIsTransitive ==
    ASSUME NEW s \in Seq(0..255), NEW t \in Seq(0..255), NEW u \in Seq(0..255),
           Before(s, t), Before(t, u)
    PROVE  Before(s, u)
<1>1. /\ Len(s) \in Nat /\ Len(t) \in Nat /\ Len(u) \in Nat
      /\ \A j \in 1..Len(s) : s[j] \in Int
      /\ \A j \in 1..Len(t) : t[j] \in Int
      /\ \A j \in 1..Len(u) : u[j] \in Int
  BY CharactersAreNumbers
<1>2. PICK i \in 1..Len(t) : /\ i <= Len(s) + 1
                             /\ \A j \in 1..(i - 1) : s[j] = t[j]
                             /\ i <= Len(s) => s[i] < t[i]
  BY DEF Before
<1>3. PICK k \in 1..Len(u) : /\ k <= Len(t) + 1
                             /\ \A j \in 1..(k - 1) : t[j] = u[j]
                             /\ k <= Len(t) => t[k] < u[k]
  BY DEF Before
<1>4. CASE i <= k
  <2>1. i \in 1..Len(u)
    BY <1>1, <1>4
  <2>2. \A j \in 1..(i - 1) : s[j] = u[j]
    <3> SUFFICES ASSUME NEW j \in 1..(i - 1) PROVE s[j] = u[j]
      OBVIOUS
    <3>1. j \in 1..(k - 1)
      BY <1>1, <1>4
    <3> QED
      BY <1>2, <1>3, <3>1
  <2>3. ASSUME i <= Len(s) PROVE s[i] < u[i]
    <3>1. s[i] < t[i] /\ s[i] \in Int /\ t[i] \in Int /\ u[i] \in Int
      BY <1>1, <1>2, <2>1, <2>3
    <3>2. t[i] <= u[i]
      <4>1. CASE i = k
        BY <1>1, <1>3, <3>1, <4>1
      <4>2. CASE i # k
        <5>1. i \in 1..(k - 1)
          BY <1>1, <1>4, <4>2
        <5> QED
          BY <1>3, <3>1, <5>1
      <4> QED
        BY <4>1, <4>2
    <3> QED
      BY <3>1, <3>2
  <2> QED
    BY <1>2, <2>1, <2>2, <2>3 DEF Before
<1>5. CASE k < i
  <2>1. k <= Len(s) /\ k <= Len(t) /\ k \in 1..(i - 1)
    BY <1>1, <1>2, <1>5
  <2>2. \A j \in 1..(k - 1) : s[j] = u[j]
    <3> SUFFICES ASSUME NEW j \in 1..(k - 1) PROVE s[j] = u[j]
      OBVIOUS
    <3>1. j \in 1..(i - 1)
      BY <1>1, <1>5
    <3> QED
      BY <1>2, <1>3, <3>1
  <2>3. s[k] = t[k] /\ t[k] < u[k]
    BY <1>2, <1>3, <2>1
  <2>4. k <= Len(s) + 1 /\ (k <= Len(s) => s[k] < u[k])
    BY <1>1, <2>1, <2>3
  <2> QED
    BY <2>2, <2>4 DEF Before
<1> QED
  BY <1>1, <1>4, <1>5

LEMMA ScalingKeepsOrder ==
    ASSUME NEW a \in Int, NEW b \in Int, NEW c \in Nat \ {0}
    PROVE  a < b <=> a * c < b * c
<1>1. PICK d \in Int : d = b - a
  OBVIOUS
<1>2. b * c = a * c + d * c /\ a * c \in Int /\ d * c \in Int
  BY <1>1
<1>3. CASE d > 0
  <2>1. d * c > 0
    BY <1>3
  <2> QED
    BY <1>1, <1>2, <1>3, <2>1
<1>4. CASE d <= 0
  <2>1. d * c <= 0
    BY <1>4
  <2> QED
    BY <1>1, <1>2, <1>4, <2>1
<1> QED
  BY <1>3, <1>4

LEMMA LessIsTransitive ==
    ASSUME NEW p \in Fraction, NEW q \in Fraction, NEW r \in Fraction,
           Less(p, q), Less(q, r)
    PROVE  Less(p, r)
<1>1. PICK a \in Int, b \in Nat \ {0}, c \in Int, d \in Nat \ {0}, e \in Int, f \in Nat \ {0} :
         /\ a = p[1] /\ b = p[2] /\ c = q[1] /\ d = q[2] /\ e = r[1] /\ f = r[2]
  BY DEF Fraction
<1>2. a * d < c * b /\ c * f < e * d
  BY <1>1 DEF Less
<1>3. (a * d) * f < (c * b) * f
  <2>1. a * d \in Int /\ c * b \in Int
    OBVIOUS
  <2> QED
    BY <1>2, <2>1, ScalingKeepsOrder
<1>4. (c * f) * b < (e * d) * b
  <2>1. c * f \in Int /\ e * d \in Int
    OBVIOUS
  <2> QED
    BY <1>2, <2>1, ScalingKeepsOrder
<1>5. /\ (a * d) * f = (a * f) * d
      /\ (c * b) * f = (c * f) * b
      /\ (e * d) * b = (e * b) * d
  OBVIOUS
<1>6. PICK v \in Int, w \in Int, z \in Int :
         v = (a * f) * d /\ w = (c * f) * b /\ z = (e * b) * d
  OBVIOUS
<1>7. v < w /\ w < z
  BY <1>3, <1>4, <1>5, <1>6
<1>8. (a * f) * d < (e * b) * d
  BY <1>6, <1>7
<1>9. a * f < e * b
  <2>1. a * f \in Int /\ e * b \in Int
    OBVIOUS
  <2> QED
    BY <1>8, <2>1, ScalingKeepsOrder
<1> QED
  BY <1>1, <1>9 DEF Less

\* What a comparison takes for equal and for less.
EqualTo(x, y) ==
    IF IsNumeric(x) THEN Same(AsFraction(x), AsFraction(y)) ELSE x.v = y.v

SmallerThan(x, y) ==
    IF IsNumeric(x) THEN Less(AsFraction(x), AsFraction(y)) ELSE Before(x.v, y.v)

LEMMA OrderIsBoolean ==
    ASSUME NEW x, NEW y
    PROVE  EqualTo(x, y) \in BOOLEAN /\ SmallerThan(x, y) \in BOOLEAN
<1>1. \A p, q : /\ Same(p, q) \in BOOLEAN /\ Less(p, q) \in BOOLEAN
               /\ Before(p, q) \in BOOLEAN
  BY DEF Same, Less, Before
<1> QED
  BY <1>1, Zenon DEF EqualTo, SmallerThan

LEMMA HoldsIsVerdict ==
    ASSUME NEW x, NEW y, Comparable(x, y), NEW code \in ComparisonCodes
    PROVE  Holds(code, x, y) <=> Verdict(code, EqualTo(x, y), SmallerThan(x, y))
<1> USE DEF OPR_NEG, OPR_ADD, OPR_SUB, OPR_MUL, OPR_DIV, OPR_MOD, OPR_EQL, OPR_NEQ,
            OPR_LSS, OPR_GEQ, OPR_GTR, OPR_LEQ, OPR_RDIV, OPR_TO_REAL, OPR_TO_CHAR
<1>1. <<x, y>>[1] = x /\ <<x, y>>[2] = y
  OBVIOUS
<1>2. Outcome(code, <<x, y>>) = Comparison(code, x, y)
  BY <1>1 DEF Outcome, ArithmeticCodes, ComparisonCodes
<1>3. Comparison(code, x, y) = Result(Boolean(Verdict(code, EqualTo(x, y), SmallerThan(x, y))))
  <2>1. CASE IsNumeric(x) /\ IsNumeric(y)
    <3>1. ~(x.type = "string" /\ y.type = "string")
      BY <2>1 DEF IsNumeric
    <3> QED
      BY <2>1, <3>1, Zenon DEF Comparison, EqualTo, SmallerThan
  <2>2. CASE x.type = "string" /\ y.type = "string"
    <3>1. ~IsNumeric(x)
      BY <2>2 DEF IsNumeric
    <3> QED
      BY <2>2, <3>1, Zenon DEF Comparison, EqualTo, SmallerThan
  <2> QED
    BY <2>1, <2>2 DEF Comparable
<1>4. \A v \in BOOLEAN : Result(Boolean(v)) = Result(Boolean(TRUE)) <=> v
  BY DEF Result, Boolean
<1>5. EqualTo(x, y) \in BOOLEAN /\ SmallerThan(x, y) \in BOOLEAN
  BY OrderIsBoolean
<1>6. \A e, l \in BOOLEAN : Verdict(code, e, l) \in BOOLEAN
  BY DEF Verdict, ComparisonCodes
<1> QED
  BY <1>2, <1>3, <1>4, <1>5, <1>6, Zenon DEF Holds

LEMMA IncomparableHoldsNothing ==
    ASSUME NEW x, NEW y, ~Comparable(x, y), NEW code \in ComparisonCodes
    PROVE  ~Holds(code, x, y)
<1> USE DEF OPR_NEG, OPR_ADD, OPR_SUB, OPR_MUL, OPR_DIV, OPR_MOD, OPR_EQL, OPR_NEQ,
            OPR_LSS, OPR_GEQ, OPR_GTR, OPR_LEQ, OPR_RDIV, OPR_TO_REAL, OPR_TO_CHAR
<1>1. <<x, y>>[1] = x /\ <<x, y>>[2] = y
  OBVIOUS
<1>2. Outcome(code, <<x, y>>) = Comparison(code, x, y)
  BY <1>1 DEF Outcome, ArithmeticCodes, ComparisonCodes
<1>3. Comparison(code, x, y) = Refuse("operands are incompatible")
  BY DEF Comparison, Comparable
<1>4. Refuse("operands are incompatible") # Result(Boolean(TRUE))
  BY DEF Refuse, Result, NoError
<1> QED
  BY <1>2, <1>3, <1>4, Zenon DEF Holds

\* Of two comparable values one is smaller or they are equal, and only one of it.
LEMMA ValuesAreOrdered ==
    ASSUME NEW x \in Value, NEW y \in Value, Comparable(x, y)
    PROVE  /\ EqualTo(x, y) => ~SmallerThan(x, y) /\ ~SmallerThan(y, x)
           /\ ~(SmallerThan(x, y) /\ SmallerThan(y, x))
           /\ EqualTo(x, y) \/ SmallerThan(x, y) \/ SmallerThan(y, x)
           /\ EqualTo(x, y) <=> EqualTo(y, x)
<1>1. CASE IsNumeric(x) /\ IsNumeric(y)
  <2>1. PICK a \in Int, b \in Nat \ {0}, c \in Int, d \in Nat \ {0} :
           /\ a = AsFraction(x)[1] /\ b = AsFraction(x)[2]
           /\ c = AsFraction(y)[1] /\ d = AsFraction(y)[2]
    BY <1>1, NumericViews DEF Fraction
  <2>2. PICK v \in Int, w \in Int : v = a * d /\ w = c * b
    OBVIOUS
  <2>3. /\ EqualTo(x, y) <=> v = w
        /\ EqualTo(y, x) <=> w = v
        /\ SmallerThan(x, y) <=> v < w
        /\ SmallerThan(y, x) <=> w < v
    BY <1>1, <2>1, <2>2, Zenon DEF EqualTo, SmallerThan, Same, Less
  <2> QED
    BY <2>3
<1>2. CASE x.type = "string" /\ y.type = "string"
  <2>1. ~IsNumeric(x) /\ ~IsNumeric(y)
    BY <1>2 DEF IsNumeric
  <2>2. x.v \in Seq(0..255) /\ y.v \in Seq(0..255)
    BY <1>2, ValueCases
  <2>3. CASE x.v # y.v
    <3>1. PICK i \in Nat : DiffersFirst(x.v, y.v, i)
      BY <2>2, <2>3, EqualOrDifferent
    <3>2. Before(x.v, y.v) <=> ~Before(y.v, x.v)
      BY <2>2, <3>1, FirstDifferenceDecides
    <3> QED
      BY <2>1, <2>3, <3>2, Zenon DEF EqualTo, SmallerThan
  <2>4. CASE x.v = y.v
    <3>1. ~Before(x.v, x.v)
      <4>1. PICK t \in Seq(0..255) : t = x.v
        BY <2>2
      <4>2. Len(t) \in Nat /\ \A j \in 1..Len(t) : t[j] \in Int
        BY CharactersAreNumbers
      <4>3. ~Before(t, t)
        BY <4>2 DEF Before
      <4> QED
        BY <4>1, <4>3
    <3> QED
      BY <2>1, <2>4, <3>1, Zenon DEF EqualTo, SmallerThan
  <2> QED
    BY <2>3, <2>4
<1> QED
  BY <1>1, <1>2 DEF Comparable

LEMMA SmallerIsTransitive ==
    ASSUME NEW x \in Value, NEW y \in Value, NEW z \in Value,
           Comparable(x, y), Comparable(y, z), SmallerThan(x, y), SmallerThan(y, z)
    PROVE  Comparable(x, z) /\ SmallerThan(x, z)
<1>1. CASE IsNumeric(x) /\ IsNumeric(y)
  <2>1. IsNumeric(z)
    BY <1>1 DEF Comparable, IsNumeric
  <2>2. /\ AsFraction(x) \in Fraction /\ AsFraction(y) \in Fraction
        /\ AsFraction(z) \in Fraction
    BY <1>1, <2>1, NumericViews
  <2>3. Less(AsFraction(x), AsFraction(y)) /\ Less(AsFraction(y), AsFraction(z))
    BY <1>1, Zenon DEF SmallerThan
  <2>4. Less(AsFraction(x), AsFraction(z))
    BY <2>2, <2>3, LessIsTransitive
  <2> QED
    BY <1>1, <2>1, <2>4, Zenon DEF SmallerThan, Comparable
<1>2. CASE x.type = "string" /\ y.type = "string"
  <2>1. z.type = "string" /\ ~IsNumeric(x) /\ ~IsNumeric(y)
    BY <1>2 DEF Comparable, IsNumeric
  <2>2. x.v \in Seq(0..255) /\ y.v \in Seq(0..255) /\ z.v \in Seq(0..255)
    BY <1>2, <2>1, ValueCases
  <2>3. Before(x.v, y.v) /\ Before(y.v, z.v)
    BY <2>1, Zenon DEF SmallerThan
  <2>4. Before(x.v, z.v)
    BY <2>2, <2>3, BeforeIsTransitive
  <2> QED
    BY <1>2, <2>1, <2>4, Zenon DEF SmallerThan, Comparable
<1> QED
  BY <1>1, <1>2 DEF Comparable

LEMMA ValuesCompareInOrder ==
    ASSUME NEW x \in Value, NEW y \in Value, \A i \in DOMAIN stack : stack[i] \in Value
    PROVE  ComparesInOrder(x, y)
<1> SUFFICES ASSUME Comparable(x, y)
             PROVE  /\ Cardinality({code \in {OPR_LSS, OPR_EQL, OPR_GTR} : Holds(code, x, y)}) = 1
                    /\ Holds(OPR_NEQ, x, y) <=> ~Holds(OPR_EQL, x, y)
                    /\ Holds(OPR_LEQ, x, y) <=> ~Holds(OPR_GTR, x, y)
                    /\ Holds(OPR_GEQ, x, y) <=> ~Holds(OPR_LSS, x, y)
                    /\ Holds(OPR_LSS, x, y) <=> Holds(OPR_GTR, y, x)
                    /\ \A i \in DOMAIN stack :
                          Holds(OPR_LSS, x, y) /\ Holds(OPR_LSS, y, stack[i]) =>
                              Holds(OPR_LSS, x, stack[i])
  BY Zenon DEF ComparesInOrder
<1>1. {OPR_LSS, OPR_EQL, OPR_GTR, OPR_NEQ, OPR_LEQ, OPR_GEQ} \subseteq ComparisonCodes
  BY DEF ComparisonCodes
<1>2. /\ \A e, l \in BOOLEAN :
            /\ Verdict(OPR_EQL, e, l) <=> e
            /\ Verdict(OPR_NEQ, e, l) <=> ~e
            /\ Verdict(OPR_LSS, e, l) <=> l
            /\ Verdict(OPR_GEQ, e, l) <=> ~l
            /\ Verdict(OPR_GTR, e, l) <=> ~l /\ ~e
            /\ Verdict(OPR_LEQ, e, l) <=> l \/ e
      /\ OPR_LSS # OPR_EQL /\ OPR_LSS # OPR_GTR /\ OPR_EQL # OPR_GTR
  BY DEF Verdict, OPR_EQL, OPR_NEQ, OPR_LSS, OPR_GEQ, OPR_GTR, OPR_LEQ
<1>3. \A e, l : EqualTo(e, l) \in BOOLEAN /\ SmallerThan(e, l) \in BOOLEAN
  BY OrderIsBoolean
<1>4. Comparable(y, x)
  BY DEF Comparable
<1>5. /\ Holds(OPR_EQL, x, y) <=> EqualTo(x, y)
      /\ Holds(OPR_NEQ, x, y) <=> ~EqualTo(x, y)
      /\ Holds(OPR_LSS, x, y) <=> SmallerThan(x, y)
      /\ Holds(OPR_GEQ, x, y) <=> ~SmallerThan(x, y)
      /\ Holds(OPR_GTR, x, y) <=> ~SmallerThan(x, y) /\ ~EqualTo(x, y)
      /\ Holds(OPR_LEQ, x, y) <=> SmallerThan(x, y) \/ EqualTo(x, y)
      /\ Holds(OPR_GTR, y, x) <=> ~SmallerThan(y, x) /\ ~EqualTo(y, x)
  BY <1>1, <1>2, <1>3, <1>4, HoldsIsVerdict
<1>6. /\ EqualTo(x, y) => ~SmallerThan(x, y) /\ ~SmallerThan(y, x)
      /\ ~(SmallerThan(x, y) /\ SmallerThan(y, x))
      /\ EqualTo(x, y) \/ SmallerThan(x, y) \/ SmallerThan(y, x)
      /\ EqualTo(x, y) <=> EqualTo(y, x)
  BY ValuesAreOrdered
<1>7. Cardinality({code \in {OPR_LSS, OPR_EQL, OPR_GTR} : Holds(code, x, y)}) = 1
  <2> DEFINE True == {code \in {OPR_LSS, OPR_EQL, OPR_GTR} : Holds(code, x, y)}
  <2>1. \E c : True = {c}
    <3>1. CASE EqualTo(x, y)
      <4>1. True = {OPR_EQL}
        BY <1>2, <1>5, <1>6, <3>1
      <4> QED
        BY <4>1
    <3>2. CASE SmallerThan(x, y)
      <4>1. True = {OPR_LSS}
        BY <1>2, <1>5, <1>6, <3>2
      <4> QED
        BY <4>1
    <3>3. CASE ~SmallerThan(x, y) /\ ~EqualTo(x, y)
      <4>1. True = {OPR_GTR}
        BY <1>2, <1>5, <1>6, <3>3
      <4> QED
        BY <4>1
    <3> QED
      BY <3>1, <3>2, <3>3
  <2> HIDE DEF True
  <2>2. Cardinality(True) = 1
    BY <2>1, FS_Singleton
  <2> QED
    BY <2>2 DEF True
<1>8. ASSUME NEW i \in DOMAIN stack, Holds(OPR_LSS, x, y), Holds(OPR_LSS, y, stack[i])
      PROVE  Holds(OPR_LSS, x, stack[i])
  <2>1. PICK z \in Value : z = stack[i]
    OBVIOUS
  <2>2. Comparable(y, z)
    BY <1>1, <1>8, <2>1, IncomparableHoldsNothing
  <2>3. SmallerThan(x, y) /\ SmallerThan(y, z)
    <3>1. Holds(OPR_LSS, y, z) <=> Verdict(OPR_LSS, EqualTo(y, z), SmallerThan(y, z))
      BY <1>1, <2>2, HoldsIsVerdict
    <3> QED
      BY <1>2, <1>3, <1>5, <1>8, <2>1, <3>1
  <2>4. Comparable(x, z) /\ SmallerThan(x, z)
    BY <2>2, <2>3, SmallerIsTransitive
  <2>5. Holds(OPR_LSS, x, z) <=> Verdict(OPR_LSS, EqualTo(x, z), SmallerThan(x, z))
    BY <1>1, <2>4, HoldsIsVerdict
  <2> QED
    BY <1>2, <1>3, <2>1, <2>4, <2>5
<1> QED
  BY <1>5, <1>6, <1>7, <1>8
=============================================================================
