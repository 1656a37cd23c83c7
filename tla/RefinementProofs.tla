---------------------------- MODULE RefinementProofs ----------------------------
(***************************************************************************)
(* Balanced code on the shared stack does what the machine of activation   *)
(* records does.  The contexts of BalancedCode, the calls that have not    *)
(* returned and the running one, cut the stack into frames; a record is    *)
(* the view of its context: its slots, and the words between its linkage   *)
(* and the next frame.  A view reads nothing else, so an instruction       *)
(* changes the views as the action of the abstract machine changes its     *)
(* records, and every step is such an action or leaves the records alone.  *)
(***************************************************************************)
EXTENDS FrameRefinement, BalancedCodeProofs

-----------------------------------------------------------------------------
(* Values, addresses and operations are those of the executor. *)

\* The operators of the abstract machine are those of the executor.
LEMMA SameValues ==
    /\ Activation!None = None
    /\ \A x : Activation!IsNumeric(x) = IsNumeric(x)
    /\ \A x : Activation!IsZero(x) = IsZero(x)
    /\ \A x : Activation!AsInteger(x) = AsInteger(x)
BY Zenon DEF Activation!None, None, Activation!IsNumeric, IsNumeric, Activation!IsZero,
   IsZero, Activation!AsInteger, AsInteger, Activation!TruncDiv, TruncDiv, Activation!Magnitude, Magnitude

\* Frame addresses are encoded and decoded by the same module.
LEMMA SameAddresses ==
    /\ \A a : Activation!IsFrameAddress(a) = IsFrameAddress(a)
    /\ \A a : Activation!DecodedLevel(a) = DecodedLevel(a)
    /\ \A a : Activation!DecodedOffset(a) = DecodedOffset(a)
    /\ Activation!RunningFrame = RunningFrame
BY Zenon DEF Activation!IsFrameAddress, IsFrameAddress, Activation!DecodedLevel,
   DecodedLevel,
   Activation!DecodedOffset, DecodedOffset, Activation!RunningFrame, RunningFrame,
   Activation!LevelOf, LevelOf, Activation!Levels, Levels

\* An operation has the same arity and the same outcome in both.
LEMMA SameOutcomes ==
    /\ Activation!ValueCodes = ValueCodes
    /\ \A code : Activation!Arity(code) = Arity(code)
    /\ \A code, operands : Activation!Outcome(code, operands) = Outcome(code, operands)
<1> USE DEF Activation!OPR_NEG, OPR_NEG, Activation!OPR_ADD, OPR_ADD,
     Activation!OPR_SUB, OPR_SUB, Activation!OPR_MUL, OPR_MUL, Activation!OPR_DIV,
     OPR_DIV, Activation!OPR_MOD, OPR_MOD, Activation!OPR_EQL, OPR_EQL,
     Activation!OPR_NEQ, OPR_NEQ, Activation!OPR_LSS, OPR_LSS, Activation!OPR_GEQ,
     OPR_GEQ, Activation!OPR_GTR, OPR_GTR, Activation!OPR_LEQ, OPR_LEQ,
     Activation!OPR_WRT, OPR_WRT, Activation!OPR_WRTLN, OPR_WRTLN, Activation!OPR_RDIV,
     OPR_RDIV, Activation!OPR_TO_REAL, OPR_TO_REAL, Activation!OPR_INDEX_ERROR,
     OPR_INDEX_ERROR, Activation!OPR_RANGE_ERROR, OPR_RANGE_ERROR,
     Activation!OPR_TO_CHAR, OPR_TO_CHAR, Activation!OPR_POP, OPR_POP
<1>1. Activation!ValueCodes = ValueCodes
  BY Zenon DEF Activation!ValueCodes, ValueCodes, Activation!UnaryCodes, UnaryCodes,
     Activation!ArithmeticCodes, ArithmeticCodes, Activation!ComparisonCodes,
     ComparisonCodes
<1>2. \A code : Activation!Arity(code) = Arity(code)
  BY Zenon DEF Activation!Arity, Arity, Activation!UnaryCodes, UnaryCodes
<1>3. /\ Activation!None = None
      /\ \A x : Activation!IsNumeric(x) = IsNumeric(x)
      /\ \A x : Activation!AsFraction(x) = AsFraction(x)
      /\ \A x : Activation!AsInteger(x) = AsInteger(x)
  BY Zenon DEF Activation!None, None, Activation!IsNumeric, IsNumeric,
     Activation!AsFraction, AsFraction, Activation!AsInteger, AsInteger,
     Activation!TruncDiv, TruncDiv, Activation!Magnitude, Magnitude
<1>4. /\ \A n : Activation!CheckedInteger(n) = CheckedInteger(n)
      /\ \A v : Activation!Result(v) = Result(v)
      /\ \A e : Activation!Refuse(e) = Refuse(e)
  BY Zenon DEF Activation!None, None, Activation!CheckedInteger, CheckedInteger,
     Activation!RangeError, RangeError, Activation!Refuse, Refuse, Activation!Result,
     Result, Activation!NoError, NoError, Activation!Integer, Integer,
     Activation!IntMin, IntMin
<1>5. \A x : Activation!Negated(x) = Negated(x)
  BY <1>3, <1>4, Zenon DEF Activation!Negated, Negated, Activation!Real, Real
<1>6. \A x : Activation!ToReal(x) = ToReal(x) /\ Activation!ToChar(x) = ToChar(x)
  BY <1>3, <1>4, Zenon DEF Activation!ToReal, ToReal, Activation!ToChar, ToChar,
     Activation!Real, Real, Activation!Char, Char
<1>7. \A code, l, r : Activation!IntegerArithmetic(code, l, r) = IntegerArithmetic(code, l, r)
  <2> TAKE code, l, r
  <2> DEFINE Chosen(sum, difference, product, quotient, remainder) ==
               CASE code = OPR_ADD -> sum
                 [] code = OPR_SUB -> difference
                 [] code = OPR_MUL -> product
                 [] code = OPR_DIV -> quotient
                 [] code = OPR_MOD -> remainder
             quotient  == IF r = 0 THEN Refuse("Division by Zero")
                                   ELSE CheckedInteger(TruncDiv(l, r))
             remainder == IF r = 0 THEN Refuse("Division by Zero")
                                   ELSE CheckedInteger(Modulo(l, r))
             quotient2  == IF r = 0 THEN Activation!Refuse("Division by Zero")
                                   ELSE Activation!CheckedInteger(Activation!TruncDiv(l, r))
             remainder2 == IF r = 0 THEN Activation!Refuse("Division by Zero")
                                   ELSE Activation!CheckedInteger(Activation!Modulo(l, r))
  <2>1. Activation!Modulo(l, r) = Modulo(l, r) /\ Activation!TruncDiv(l, r) = TruncDiv(l, r)
    BY Zenon DEF Activation!Modulo, Modulo, Activation!TruncDiv, TruncDiv,
       Activation!Magnitude, Magnitude
  <2>2. /\ Activation!CheckedInteger(l + r) = CheckedInteger(l + r)
        /\ Activation!CheckedInteger(l - r) = CheckedInteger(l - r)
        /\ Activation!CheckedInteger(l * r) = CheckedInteger(l * r)
        /\ quotient2 = quotient /\ remainder2 = remainder
    BY <1>4, <2>1, Zenon
  <2>3. Activation!IntegerArithmetic(code, l, r)
          = Chosen(Activation!CheckedInteger(l + r), Activation!CheckedInteger(l - r),
                   Activation!CheckedInteger(l * r), quotient2, remainder2)
    BY Zenon DEF Activation!IntegerArithmetic
  <2>4. IntegerArithmetic(code, l, r)
          = Chosen(CheckedInteger(l + r), CheckedInteger(l - r), CheckedInteger(l * r),
                   quotient, remainder)
    BY Zenon DEF IntegerArithmetic
  <2> HIDE DEF Chosen, quotient, remainder, quotient2, remainder2
  <2> QED
    BY <2>2, <2>3, <2>4, Zenon
<1>8. \A code, p, q : Activation!RealArithmetic(code, p, q) = RealArithmetic(code, p, q)
  <2> TAKE code, p, q
  <2> DEFINE Chosen(sum, difference, product, quotient, refused) ==
               CASE code = OPR_ADD -> sum
                 [] code = OPR_SUB -> difference
                 [] code = OPR_MUL -> product
                 [] code \in {OPR_DIV, OPR_RDIV} -> quotient
                 [] code = OPR_MOD -> refused
             quotient  == IF q[1] = 0 THEN Refuse("Division by Zero")
                                      ELSE Result(Real(Over(p, q)))
             quotient2 == IF q[1] = 0 THEN Activation!Refuse("Division by Zero")
                          ELSE Activation!Result(Activation!Real(Activation!Over(p, q)))
  <2>1. /\ Activation!Plus(p, q) = Plus(p, q) /\ Activation!Minus(p, q) = Minus(p, q)
        /\ Activation!Times(p, q) = Times(p, q) /\ Activation!Over(p, q) = Over(p, q)
        /\ \A x : Activation!Real(x) = Real(x)
    BY Zenon DEF Activation!Plus, Plus, Activation!Minus, Minus, Activation!Times, Times,
       Activation!Over, Over, Activation!Real, Real
  <2>2. /\ Activation!Result(Activation!Real(Activation!Plus(p, q))) = Result(Real(Plus(p, q)))
        /\ Activation!Result(Activation!Real(Activation!Minus(p, q))) = Result(Real(Minus(p, q)))
        /\ Activation!Result(Activation!Real(Activation!Times(p, q))) = Result(Real(Times(p, q)))
        /\ quotient2 = quotient
        /\ Activation!Refuse("MOD requires integer operands")
              = Refuse("MOD requires integer operands")
    BY <1>4, <2>1, Zenon
  <2>3. Activation!RealArithmetic(code, p, q)
          = Chosen(Activation!Result(Activation!Real(Activation!Plus(p, q))),
                   Activation!Result(Activation!Real(Activation!Minus(p, q))),
                   Activation!Result(Activation!Real(Activation!Times(p, q))), quotient2,
                   Activation!Refuse("MOD requires integer operands"))
    BY Zenon DEF Activation!RealArithmetic
  <2>4. RealArithmetic(code, p, q)
          = Chosen(Result(Real(Plus(p, q))), Result(Real(Minus(p, q))),
                   Result(Real(Times(p, q))), quotient, Refuse("MOD requires integer operands"))
    BY Zenon DEF RealArithmetic
  <2> HIDE DEF Chosen, quotient, quotient2
  <2> QED
    BY <2>2, <2>3, <2>4, Zenon
<1>9. \A code, x, y : Activation!Arithmetic(code, x, y) = Arithmetic(code, x, y)
  <2> TAKE code, x, y
  <2> DEFINE Chosen(strings, numbers, joined, refused, reals, integers) ==
               IF strings THEN joined
               ELSE IF ~numbers THEN refused
                    ELSE IF code = OPR_RDIV \/ x.type = "real" \/ y.type = "real"
                         THEN reals ELSE integers
             strings == code = OPR_ADD /\ x.type = "string" /\ y.type = "string"
  <2>1. /\ (Activation!IsNumeric(x) /\ Activation!IsNumeric(y)) = (IsNumeric(x) /\ IsNumeric(y))
        /\ Activation!Refuse("numeric operands required") = Refuse("numeric operands required")
    BY <1>3, <1>4, Zenon
  <2>2. Activation!Result(Activation!String(x.v \o y.v)) = Result(String(x.v \o y.v))
    BY <1>4, Zenon DEF Activation!String, String
  <2>3. Activation!RealArithmetic(code, Activation!AsFraction(x), Activation!AsFraction(y))
          = RealArithmetic(code, AsFraction(x), AsFraction(y))
    BY <1>3, <1>8, Zenon
  <2>4. Activation!IntegerArithmetic(code, x.v, y.v) = IntegerArithmetic(code, x.v, y.v)
    BY <1>7, Zenon
  <2>5. Activation!Arithmetic(code, x, y)
          = Chosen(strings, Activation!IsNumeric(x) /\ Activation!IsNumeric(y),
                   Activation!Result(Activation!String(x.v \o y.v)),
                   Activation!Refuse("numeric operands required"),
                   Activation!RealArithmetic(code, Activation!AsFraction(x),
                                             Activation!AsFraction(y)),
                   Activation!IntegerArithmetic(code, x.v, y.v))
    BY Zenon DEF Activation!Arithmetic
  <2>6. Arithmetic(code, x, y)
          = Chosen(strings, IsNumeric(x) /\ IsNumeric(y), Result(String(x.v \o y.v)),
                   Refuse("numeric operands required"),
                   RealArithmetic(code, AsFraction(x), AsFraction(y)),
                   IntegerArithmetic(code, x.v, y.v))
    BY Zenon DEF Arithmetic
  <2> HIDE DEF Chosen, strings
  <2> QED
    BY <2>1, <2>2, <2>3, <2>4, <2>5, <2>6, Zenon
<1>10. \A code, x, y : Activation!Comparison(code, x, y) = Comparison(code, x, y)
  <2> TAKE code, x, y
  <2>1. /\ \A e, l : Activation!Verdict(code, e, l) = Verdict(code, e, l)
        /\ \A p, q : Activation!Same(p, q) = Same(p, q)
        /\ \A p, q : Activation!Less(p, q) = Less(p, q)
        /\ \A p, q : Activation!Before(p, q) = Before(p, q)
        /\ \A b : Activation!Boolean(b) = Boolean(b)
    BY Zenon DEF Activation!Verdict, Verdict, Activation!Same, Same, Activation!Less,
       Less,
       Activation!Before, Before, Activation!Boolean, Boolean
  <2> DEFINE Chosen(bothNumeric, bothStrings, numbers, strings, refused) ==
               CASE bothNumeric -> numbers
                 [] bothStrings -> strings
                 [] OTHER -> refused
             numbers  == Result(Boolean(Verdict(code, Same(AsFraction(x), AsFraction(y)),
                                                Less(AsFraction(x), AsFraction(y)))))
             strings  == Result(Boolean(Verdict(code, x.v = y.v, Before(x.v, y.v))))
             numbers2 ==
               Activation!Result(Activation!Boolean(Activation!Verdict(code,
                 Activation!Same(Activation!AsFraction(x), Activation!AsFraction(y)),
                 Activation!Less(Activation!AsFraction(x), Activation!AsFraction(y)))))
             strings2 ==
               Activation!Result(Activation!Boolean(
                 Activation!Verdict(code, x.v = y.v, Activation!Before(x.v, y.v))))
             refused  == Refuse("operands are incompatible")
             refused2 == Activation!Refuse("operands are incompatible")
  <2>2. numbers2 = numbers
    BY <1>3, <1>4, <2>1, Zenon
  <2>3. strings2 = strings /\ refused2 = refused
    BY <1>3, <1>4, <2>1, ZenonT(30)
  <2>4. Activation!Comparison(code, x, y)
          = Chosen(Activation!IsNumeric(x) /\ Activation!IsNumeric(y),
                   x.type = "string" /\ y.type = "string", numbers2, strings2, refused2)
    BY Zenon DEF Activation!Comparison
  <2>5. Comparison(code, x, y)
          = Chosen(IsNumeric(x) /\ IsNumeric(y),
                   x.type = "string" /\ y.type = "string", numbers, strings, refused)
    BY Zenon DEF Comparison
  <2>6. (Activation!IsNumeric(x) /\ Activation!IsNumeric(y)) = (IsNumeric(x) /\ IsNumeric(y))
    BY <1>3, Zenon
  <2> HIDE DEF Chosen, numbers, strings, numbers2, strings2, refused, refused2
  <2> QED
    BY <2>2, <2>3, <2>4, <2>5, <2>6, Zenon
<1>11. \A code, operands : Activation!Outcome(code, operands) = Outcome(code, operands)
  BY <1>5, <1>6, <1>9, <1>10, Zenon DEF Activation!Outcome, Outcome,
     Activation!ArithmeticCodes, ArithmeticCodes, Activation!ComparisonCodes,
     ComparisonCodes
<1> QED
  BY <1>1, <1>2, <1>11

-----------------------------------------------------------------------------
(* The records, as a function of the contexts and the words of the stack. *)

OperandsIn(C, words, j) ==
    SubSeq(words, Base(C, j) + 1, IF j = Len(C) THEN Len(words) ELSE C[j + 1].frame.bp)

LocalsIn(words, held) == SubSeq(words, held.bp + 1, held.bp + held.slots)

ResultIn(held) ==
    [offset |-> held.returnOffset, slots |-> held.returnSlots, structured |-> held.structured]

ResumeIn(C, j) == IF j = 1 THEN 0 ELSE C[j - 1].resume

View(C, words, j) ==
    [level    |-> C[j].frame.level,
     locals   |-> LocalsIn(words, C[j].frame),
     operands |-> OperandsIn(C, words, j),
     resume   |-> ResumeIn(C, j),
     result   |-> ResultIn(C[j].frame)]

Views(C, words) == [j \in 1..Len(C) |-> View(C, words, j)]

\* A sequence given by its first element and the others.
LEMMA FirstAndOthers ==
    ASSUME NEW n \in Nat, NEW g, g = [j \in 1..(n + 1) |-> g[j]],
           NEW f, f = [i \in 1..n |-> g[i + 1]]
    PROVE  <<g[1]>> \o f = g
<1> DEFINE S == {g[j] : j \in 1..(n + 1)}
<1>1. f \in Seq(S) /\ Len(f) = n /\ g \in Seq(S) /\ Len(g) = n + 1
  <2>1. \A i \in 1..n : i + 1 \in 1..(n + 1)
    OBVIOUS
  <2>2. f \in [1..n -> S] /\ g \in [1..(n + 1) -> S]
    BY <2>1
  <2>3. f \in Seq(S) /\ g \in Seq(S)
    <3> HIDE DEF S
    <3>1. n + 1 \in Nat
      OBVIOUS
    <3>2. \A m \in Nat : [1..m -> S] \subseteq Seq(S)
      BY SeqDef
    <3> QED
      BY <2>2, <3>1, <3>2
  <2>4. DOMAIN f = 1..Len(f) /\ Len(f) \in Nat /\ DOMAIN g = 1..Len(g) /\ Len(g) \in Nat
    BY <2>3
  <2>5. DOMAIN f = 1..n /\ DOMAIN g = 1..(n + 1)
    BY <2>2
  <2> QED
    BY <2>3, <2>4, <2>5
<1>2. g[1] \in S
  OBVIOUS
<1> HIDE DEF S
<1>3. <<g[1]>> \in Seq(S) /\ Len(<<g[1]>>) = 1 /\ <<g[1]>>[1] = g[1]
  BY <1>2
<1>4. <<g[1]>> \o f \in Seq(S) /\ Len(<<g[1]>> \o f) = n + 1
  BY <1>1, <1>3
<1>5. ASSUME NEW j \in 1..(n + 1) PROVE (<<g[1]>> \o f)[j] = g[j]
  <2>1. CASE j = 1
    BY <1>1, <1>3, <2>1
  <2>2. CASE j # 1
    <3>1. j - 1 \in 1..n /\ (j - 1) + 1 = j
      BY <2>2
    <3>2. (<<g[1]>> \o f)[j] = f[j - 1]
      BY <1>1, <1>3, <2>2
    <3> QED
      BY <3>1, <3>2
  <2> QED
    BY <2>1, <2>2
<1> QED
  BY <1>1, <1>4, <1>5, SeqEqual

\* The records of the mapping are the views of the contexts.
LEMMA RecordsAreViews ==
    ASSUME BalancedInvariant, result # "false"
    PROVE  Records = Views(Contexts, stack) /\ Len(Records) = callDepth + 1
<1> DEFINE n == callDepth
           g == Views(Contexts, stack)
<1>1. /\ n \in Nat /\ Contexts \in Seq(Context) /\ Len(Contexts) = n + 1
      /\ Contexts[1].frame = NoFrame
  BY ContextsAreTyped DEF BalancedInvariant, FramesStand
<1>2. g = [j \in 1..(n + 1) |-> g[j]] /\ \A j \in 1..(n + 1) : g[j] = View(Contexts, stack, j)
  BY <1>1 DEF Views
<1>3. g[1] = MainRecord
  <2>1. /\ 1 \in 1..(n + 1) /\ Base(Contexts, 1) = 0 /\ ResumeIn(Contexts, 1) = 0
        /\ 1 = n + 1 <=> n = 0
    BY <1>1 DEF Base, ResumeIn
  <2>2. LocalsIn(stack, NoFrame) = <<>>
    BY DEF LocalsIn, NoFrame
  <2>3. ResultIn(NoFrame) = [offset |-> -1, slots |-> 0, structured |-> FALSE]
    BY Zenon DEF ResultIn, NoFrame
  <2>4. n # 0 => FrameOf(1) = Contexts[1 + 1].frame
    BY <1>1, FramesAlive DEF Alive
  <2>5. OperandsIn(Contexts, stack, 1)
          = SubSeq(stack, 1, IF callDepth = 0 THEN Len(stack) ELSE FrameOf(1).bp)
    <3>1. OperandsIn(Contexts, stack, 1)
            = SubSeq(stack, 0 + 1, IF 1 = n + 1 THEN Len(stack) ELSE Contexts[1 + 1].frame.bp)
      BY <1>1, <2>1, Zenon DEF OperandsIn
    <3>2. n \in Nat
      BY <1>1
    <3> QED
      BY <2>1, <2>4, <3>1, <3>2
  <2>6. NoFrame.level = 0
    BY DEF NoFrame
  <2> QED
    BY <1>1, <1>2, <2>1, <2>2, <2>3, <2>5, <2>6, Zenon DEF View, MainRecord
<1>4. ASSUME NEW i \in Alive PROVE RecordOf(i) = g[i + 1]
  <2>1. /\ i \in Nat /\ i + 1 \in 2..Len(Contexts) /\ i + 1 - 1 = i
        /\ FrameOf(i) = Contexts[i + 1].frame /\ suspended[i] = Contexts[i]
    BY FramesAlive
  <2>2. i + 1 \in 1..(n + 1) /\ i + 1 # 1 /\ (i + 1 = n + 1 <=> i = callDepth)
    BY <1>1, <2>1
  <2>3. Base(Contexts, i + 1) = OperandBase(FrameOf(i))
    BY <2>1, <2>2 DEF Base
  <2>4. Saved(FrameOf(i), 12) = ResumeIn(Contexts, i + 1)
    BY <2>1, <2>2, LinkageReads DEF ResumeIn
  <2>5. i # callDepth => FrameOf(i + 1) = Contexts[i + 1 + 1].frame
    BY <1>1, <2>1, FramesAlive DEF Alive
  <2>6. OperandsIn(Contexts, stack, i + 1)
          = SubSeq(stack, OperandBase(FrameOf(i)) + 1, OperandEnd(i))
    BY <1>1, <2>2, <2>3, <2>5, Zenon DEF OperandsIn, OperandEnd
  <2> QED
    BY <1>2, <2>1, <2>2, <2>4, <2>6, Zenon DEF View, RecordOf, LocalsIn, ResultIn
<1> DEFINE f == [i \in Alive |-> RecordOf(i)]
<1>5. f = [i \in 1..n |-> g[i + 1]]
  BY <1>4 DEF Alive
<1> HIDE DEF f, g
<1>6. Records = <<g[1]>> \o f
  BY <1>3, Zenon DEF Records, f
<1>7. <<g[1]>> \o f = g
  BY <1>1, <1>2, <1>5, FirstAndOthers
<1> QED
  BY <1>1, <1>6, <1>7 DEF g, Views

-----------------------------------------------------------------------------
(* The words above a floor: taking some off, putting one on. *)

Above(words, floor) == SubSeq(words, floor + 1, Len(words))

\* Part of a sequence, by its length and its elements.
LEMMA PartOfSequence ==
    ASSUME NEW S, NEW words \in Seq(S), NEW low \in Nat, NEW high \in Nat,
           low <= high, high <= Len(words)
    PROVE  /\ SubSeq(words, low + 1, high) \in Seq(S)
           /\ Len(SubSeq(words, low + 1, high)) = high - low
           /\ \A i \in 1..(high - low) : SubSeq(words, low + 1, high)[i] = words[low + i]
<1>1. \A i \in (low + 1)..high : words[i] \in S
  BY ElementOfSeq
<1>2. low + 1 \in Int /\ high \in Int
  OBVIOUS
<1>3. /\ SubSeq(words, low + 1, high) \in Seq(S)
      /\ Len(SubSeq(words, low + 1, high)) = IF low + 1 <= high THEN high - (low + 1) + 1 ELSE 0
      /\ \A i \in 1..(high - (low + 1) + 1) :
            SubSeq(words, low + 1, high)[i] = words[low + 1 + i - 1]
  BY <1>1, <1>2, SubSeqProperties
<1>4. high - (low + 1) + 1 = high - low /\ \A i \in Int : low + 1 + i - 1 = low + i
  OBVIOUS
<1> QED
  BY <1>3, <1>4

Agree(old, new, low, high) == \A i \in (low + 1)..high : new[i] = old[i]

\* Sequences that agree on a range have the same part there.
LEMMA SameParts ==
    ASSUME NEW old, NEW new, NEW low \in Nat, NEW high \in Nat, Agree(old, new, low, high)
    PROVE  SubSeq(new, low + 1, high) = SubSeq(old, low + 1, high)
<1> DEFINE S == {old[i] : i \in (low + 1)..high}
<1>1. \A i \in (low + 1)..high : old[i] \in S /\ new[i] \in S
  BY DEF Agree
<1> HIDE DEF S
<1>2. low + 1 \in Int /\ high \in Int
  OBVIOUS
<1>3. /\ SubSeq(old, low + 1, high) \in Seq(S)
      /\ Len(SubSeq(old, low + 1, high)) = IF low + 1 <= high THEN high - (low + 1) + 1 ELSE 0
      /\ \A i \in 1..(high - (low + 1) + 1) : SubSeq(old, low + 1, high)[i] = old[low + 1 + i - 1]
  BY <1>1, <1>2, SubSeqProperties
<1>4. /\ SubSeq(new, low + 1, high) \in Seq(S)
      /\ Len(SubSeq(new, low + 1, high)) = IF low + 1 <= high THEN high - (low + 1) + 1 ELSE 0
      /\ \A i \in 1..(high - (low + 1) + 1) : SubSeq(new, low + 1, high)[i] = new[low + 1 + i - 1]
  BY <1>1, <1>2, SubSeqProperties
<1>5. \A i \in 1..(high - (low + 1) + 1) : low + 1 + i - 1 \in (low + 1)..high
  OBVIOUS
<1>6. 1..Len(SubSeq(old, low + 1, high)) = 1..(high - (low + 1) + 1)
  BY <1>3
<1>7. \A i \in 1..Len(SubSeq(old, low + 1, high)) :
         SubSeq(new, low + 1, high)[i] = SubSeq(old, low + 1, high)[i]
  BY <1>3, <1>4, <1>5, <1>6 DEF Agree
<1> QED
  BY <1>3, <1>4, <1>7, SeqEqual

\* What is taken off the words is taken off those above the floor.
LEMMA TakingOff ==
    ASSUME NEW S, NEW words \in Seq(S), NEW floor \in Nat, NEW n \in Nat,
           floor + n <= Len(words)
    PROVE  LET kept == SubSeq(words, 1, Len(words) - n)
               operands == Above(words, floor)
           IN  /\ operands \in Seq(S) /\ Len(operands) = Len(words) - floor
               /\ \A i \in 1..n : operands[Len(operands) - n + i] = words[Len(words) - n + i]
               /\ SubSeq(operands, 1, Len(operands) - n) = Above(kept, floor)
<1> DEFINE kept == SubSeq(words, 1, Len(words) - n)
           operands == Above(words, floor)
<1>0. PICK size \in Nat : size = Len(words)
  BY LenProperties
<1>1. /\ operands \in Seq(S) /\ Len(operands) = size - floor
      /\ \A i \in 1..(size - floor) : operands[i] = words[floor + i]
  BY <1>0, PartOfSequence DEF Above
<1>2. /\ kept \in Seq(S) /\ Len(kept) = size - n
      /\ \A i \in 1..(size - n) : kept[i] = words[i]
  <2>1. size - n \in Nat /\ 0 <= size - n /\ size - n <= Len(words)
    BY <1>0
  <2>2. /\ SubSeq(words, 0 + 1, size - n) \in Seq(S)
        /\ Len(SubSeq(words, 0 + 1, size - n)) = size - n - 0
        /\ \A i \in 1..(size - n - 0) : SubSeq(words, 0 + 1, size - n)[i] = words[0 + i]
    BY <1>0, <2>1, PartOfSequence
  <2> QED
    BY <1>0, <2>2
<1> HIDE DEF kept, operands
<1>3. \A i \in 1..n : operands[Len(operands) - n + i] = words[Len(words) - n + i]
  <2> SUFFICES ASSUME NEW i \in 1..n
               PROVE  operands[Len(operands) - n + i] = words[Len(words) - n + i]
    OBVIOUS
  <2>1. size - floor - n + i \in 1..(size - floor) /\ floor + (size - floor - n + i) = size - n + i
    BY <1>0
  <2> QED
    BY <1>0, <1>1, <2>1
<1>4. SubSeq(operands, 1, Len(operands) - n) = Above(kept, floor)
  <2>1. /\ Above(kept, floor) \in Seq(S) /\ Len(Above(kept, floor)) = size - n - floor
        /\ \A i \in 1..(size - n - floor) : Above(kept, floor)[i] = kept[floor + i]
    <3>1. size - n \in Nat /\ floor <= size - n /\ size - n <= Len(kept)
      BY <1>0, <1>2
    <3>2. Above(kept, floor) = SubSeq(kept, floor + 1, size - n)
      BY <1>2, Zenon DEF Above
    <3>3. PICK m \in Nat : m = size - n
      BY <3>1
    <3>4. /\ SubSeq(kept, floor + 1, m) \in Seq(S)
          /\ Len(SubSeq(kept, floor + 1, m)) = m - floor
          /\ \A i \in 1..(m - floor) : SubSeq(kept, floor + 1, m)[i] = kept[floor + i]
      BY <1>2, <3>1, <3>3, PartOfSequence
    <3> QED
      BY <3>2, <3>3, <3>4
  <2>2. /\ SubSeq(operands, 1, Len(operands) - n) \in Seq(S)
        /\ Len(SubSeq(operands, 1, Len(operands) - n)) = size - floor - n
        /\ \A i \in 1..(size - floor - n) :
              SubSeq(operands, 1, Len(operands) - n)[i] = operands[i]
    <3>1. size - floor - n \in Nat /\ 0 <= size - floor - n /\ size - floor - n <= Len(operands)
      BY <1>0, <1>1
    <3>2. /\ SubSeq(operands, 0 + 1, size - floor - n) \in Seq(S)
          /\ Len(SubSeq(operands, 0 + 1, size - floor - n)) = size - floor - n - 0
          /\ \A i \in 1..(size - floor - n - 0) :
                SubSeq(operands, 0 + 1, size - floor - n)[i] = operands[0 + i]
      BY <1>1, <3>1, PartOfSequence
    <3> QED
      BY <1>0, <1>1, <3>2
  <2>3. \A i \in 1..(size - n - floor) :
          SubSeq(operands, 1, Len(operands) - n)[i] = Above(kept, floor)[i]
    <3> SUFFICES ASSUME NEW i \in 1..(size - n - floor)
                 PROVE  SubSeq(operands, 1, Len(operands) - n)[i] = Above(kept, floor)[i]
      OBVIOUS
    <3>1. i \in 1..(size - floor - n) /\ i \in 1..(size - floor) /\ floor + i \in 1..(size - n)
      BY <1>0
    <3> QED
      BY <1>1, <1>2, <2>1, <2>2, <3>1
  <2>4. size - n - floor = size - floor - n
    BY <1>0
  <2> QED
    BY <2>1, <2>2, <2>3, <2>4, SeqEqual
<1> QED
  BY <1>0, <1>1, <1>3, <1>4 DEF kept, operands

\* A value put on the words is put on those above the floor.
LEMMA PuttingOn ==
    ASSUME NEW S, NEW words \in Seq(S), NEW floor \in Nat, floor <= Len(words), NEW value \in S
    PROVE  Above(Append(words, value), floor) = Append(Above(words, floor), value)
<1> DEFINE longer == Append(words, value)
           operands == Above(words, floor)
<1>0. PICK size \in Nat : size = Len(words)
  BY LenProperties
<1>1. /\ operands \in Seq(S) /\ Len(operands) = size - floor
      /\ \A i \in 1..(size - floor) : operands[i] = words[floor + i]
  BY <1>0, PartOfSequence DEF Above
<1>2. /\ longer \in Seq(S) /\ Len(longer) = size + 1
      /\ \A i \in 1..size : longer[i] = words[i]
      /\ longer[size + 1] = value
  BY <1>0
<1> HIDE DEF longer, operands
<1>3. /\ Above(longer, floor) \in Seq(S) /\ Len(Above(longer, floor)) = size + 1 - floor
      /\ \A i \in 1..(size + 1 - floor) : Above(longer, floor)[i] = longer[floor + i]
  <2>1. size + 1 \in Nat /\ floor <= size + 1 /\ size + 1 <= Len(longer)
    BY <1>0, <1>2
  <2> QED
    BY <1>2, <2>1, PartOfSequence DEF Above
<1>4. /\ Append(operands, value) \in Seq(S) /\ Len(Append(operands, value)) = size - floor + 1
      /\ \A i \in 1..(size - floor) : Append(operands, value)[i] = operands[i]
      /\ Append(operands, value)[size - floor + 1] = value
  BY <1>1
<1>5. \A i \in 1..(size + 1 - floor) : Above(longer, floor)[i] = Append(operands, value)[i]
  <2> SUFFICES ASSUME NEW i \in 1..(size + 1 - floor)
               PROVE  Above(longer, floor)[i] = Append(operands, value)[i]
    OBVIOUS
  <2>1. i \in 1..(size - floor) \/ i = size - floor + 1
    BY <1>0
  <2>2. CASE i \in 1..(size - floor)
    <3>1. floor + i \in 1..size
      BY <1>0, <2>2
    <3> QED
      BY <1>1, <1>2, <1>3, <1>4, <2>2, <3>1
  <2>3. CASE i = size - floor + 1
    <3>1. floor + i = size + 1
      BY <1>0, <2>3
    <3> QED
      BY <1>2, <1>3, <1>4, <2>3, <3>1
  <2> QED
    BY <2>1, <2>2, <2>3
<1>6. size + 1 - floor = size - floor + 1
  BY <1>0
<1> QED
  BY <1>3, <1>4, <1>5, <1>6, SeqEqual DEF longer, operands

-----------------------------------------------------------------------------
(* Views of other contexts and other words. *)

EndIn(C, words, j) == IF j = Len(C) THEN Len(words) ELSE C[j + 1].frame.bp

\* A view reads the slots and the operands of its frame, and nothing else.
LEMMA SameView ==
    ASSUME NEW C \in Seq(Context), NEW D \in Seq(Context), NEW S, NEW T,
           NEW j \in 1..Len(C), j \in 1..Len(D),
           D[j].frame = C[j].frame,
           j # 1 => D[j - 1].resume = C[j - 1].resume,
           EndIn(C, S, j) \in Nat, EndIn(D, T, j) = EndIn(C, S, j),
           \A i \in (Base(C, j) + 1)..EndIn(C, S, j) : T[i] = S[i],
           \A i \in SlotsOf(C[j].frame) : T[i] = S[i]
    PROVE  View(D, T, j) = View(C, S, j)
<1>1. Base(C, j) \in Nat /\ C[j].frame.bp \in Nat /\ C[j].frame.slots \in Nat
  BY ContextIsTyped
<1>2. Base(D, j) = Base(C, j)
  BY Zenon DEF Base
<1>3. LocalsIn(T, C[j].frame) = LocalsIn(S, C[j].frame)
  <2>0. C[j].frame.bp + C[j].frame.slots \in Nat
    BY <1>1, SMTT(30)
  <2>1. PICK low \in Nat, high \in Nat :
           low = C[j].frame.bp /\ high = C[j].frame.bp + C[j].frame.slots
    BY <1>1, <2>0
  <2>2. Agree(S, T, low, high)
    BY <2>1 DEF SlotsOf, Agree
  <2>3. SubSeq(T, low + 1, high) = SubSeq(S, low + 1, high)
    BY <2>2, SameParts
  <2> QED
    BY <2>1, <2>3, Zenon DEF LocalsIn
<1>4. OperandsIn(D, T, j) = OperandsIn(C, S, j)
  <2>1. PICK low \in Nat, high \in Nat : low = Base(C, j) /\ high = EndIn(C, S, j)
    BY <1>1
  <2>4. Agree(S, T, low, high)
    BY <2>1 DEF Agree
  <2>2. SubSeq(T, low + 1, high) = SubSeq(S, low + 1, high)
    BY <2>4, SameParts
  <2>3. /\ OperandsIn(D, T, j) = SubSeq(T, Base(D, j) + 1, EndIn(D, T, j))
        /\ OperandsIn(C, S, j) = SubSeq(S, Base(C, j) + 1, EndIn(C, S, j))
    BY Zenon DEF OperandsIn, EndIn
  <2> QED
    BY <1>2, <2>1, <2>2, <2>3, Zenon
<1>5. ResumeIn(D, j) = ResumeIn(C, j)
  BY Zenon DEF ResumeIn
<1> QED
  BY <1>3, <1>4, <1>5, Zenon DEF View

\* The slots and the operands of a frame that does not run lie below the base of
\* the running one.
LEMMA FramesLieBelow ==
    ASSUME NEW C \in Seq(Context), FramesApart(C), NEW n \in Nat \ {0}, Len(C) = n,
           NEW j \in 1..n
    PROVE  /\ C[j].frame.bp + C[j].frame.slots <= Base(C, n) \/ j = 1
           /\ j # n => /\ C[j + 1].frame.bp \in Nat
                       /\ C[j + 1].frame.bp <= Base(C, n)
                       /\ Base(C, j) <= C[j + 1].frame.bp \/ j = 1
<1>1. \A k \in 1..n : /\ Base(C, k) \in Nat /\ C[k].frame.bp \in Nat /\ C[k].frame.slots \in Nat
                      /\ k # 1 => Base(C, k) = C[k].frame.bp + C[k].frame.slots + 13
  BY ContextIsTyped
<1>2. \A k, l \in 2..n : k < l => Base(C, k) <= C[l].frame.bp
  BY DEF FramesApart
<1>3. \A k \in 2..n : Base(C, k) <= Base(C, n)
  <2> SUFFICES ASSUME NEW k \in 2..n, k # n PROVE Base(C, k) <= Base(C, n)
    BY <1>1
  <2>1. n \in 2..n /\ k < n /\ k \in 1..n /\ n \in 1..n /\ n # 1
    OBVIOUS
  <2>2. Base(C, k) <= C[n].frame.bp
    BY <1>2, <2>1
  <2>3. PICK a \in Nat, b \in Nat, s \in Nat :
           a = Base(C, k) /\ b = C[n].frame.bp /\ s = C[n].frame.slots
    BY <1>1, <2>1
  <2>4. Base(C, n) = b + s + 13
    BY <1>1, <2>1, <2>3
  <2> QED
    BY <2>2, <2>3, <2>4, SMTT(30)
<1>4. \A k \in 2..n : /\ C[k].frame.bp + C[k].frame.slots <= Base(C, n)
                      /\ C[k].frame.bp <= Base(C, n)
  <2> SUFFICES ASSUME NEW k \in 2..n
               PROVE  /\ C[k].frame.bp + C[k].frame.slots <= Base(C, n)
                      /\ C[k].frame.bp <= Base(C, n)
    OBVIOUS
  <2>1. k \in 1..n /\ k # 1 /\ n \in 1..n
    OBVIOUS
  <2>2. PICK b \in Nat, s \in Nat, e \in Nat :
           b = C[k].frame.bp /\ s = C[k].frame.slots /\ e = Base(C, n)
    BY <1>1, <2>1
  <2>3. Base(C, k) = b + s + 13 /\ Base(C, k) <= e
    BY <1>1, <1>3, <2>1, <2>2
  <2> QED
    BY <2>2, <2>3, SMTT(30)
<1>5. C[j].frame.bp + C[j].frame.slots <= Base(C, n) \/ j = 1
  BY <1>4
<1>6. ASSUME j # n
      PROVE  /\ C[j + 1].frame.bp \in Nat /\ C[j + 1].frame.bp <= Base(C, n)
             /\ Base(C, j) <= C[j + 1].frame.bp \/ j = 1
  <2>1. j + 1 \in 2..n /\ j + 1 \in 1..n /\ j < j + 1 /\ (j # 1 => j \in 2..n)
    BY <1>6
  <2> QED
    BY <1>1, <1>2, <1>4, <2>1
<1> QED
  BY <1>5, <1>6

\* n contexts with the same frames, and the same words below the running one.
SameBelow(C, D, S, T, n) ==
    /\ C \in Seq(Context) /\ D \in Seq(Context)
    /\ n \in Nat \ {0} /\ Len(C) = n /\ Len(D) = n
    /\ FramesApart(C) /\ C[1].frame = NoFrame
    /\ \A j \in 1..n : D[j].frame = C[j].frame
    /\ \A j \in 1..(n - 1) : D[j] = C[j]
    /\ \A i \in 1..Base(C, n) : T[i] = S[i]

WithOperands(views, n, operands) == [views EXCEPT ![n].operands = operands]

\* What a step above the base of the running frame does to the views.
LEMMA StepAboveBase ==
    ASSUME NEW C, NEW D, NEW S, NEW T, NEW n, SameBelow(C, D, S, T, n)
    PROVE  Views(D, T) = WithOperands(Views(C, S), n, Above(T, Base(C, n)))
<1>0. /\ C \in Seq(Context) /\ D \in Seq(Context)
      /\ n \in Nat \ {0} /\ Len(C) = n /\ Len(D) = n
      /\ FramesApart(C) /\ C[1].frame = NoFrame
      /\ \A j \in 1..n : D[j].frame = C[j].frame
      /\ \A j \in 1..(n - 1) : D[j] = C[j]
      /\ \A i \in 1..Base(C, n) : T[i] = S[i]
  BY DEF SameBelow
<1> USE <1>0
<1>1. \A j \in 1..n : /\ Base(C, j) \in Nat /\ C[j].frame.bp \in Nat /\ C[j].frame.slots \in Nat
  BY ContextIsTyped
<1>2. \A j \in 1..n : \A i \in SlotsOf(C[j].frame) : T[i] = S[i]
  <2> SUFFICES ASSUME NEW j \in 1..n, NEW i \in SlotsOf(C[j].frame) PROVE T[i] = S[i]
    OBVIOUS
  <2>1. CASE j = 1
    <3>1. i \in (0 + 1)..(0 + 0)
      BY <2>1 DEF SlotsOf, NoFrame
    <3> QED
      BY <3>1
  <2>2. CASE j # 1
    <3>1. PICK b \in Nat, s \in Nat, e \in Nat :
             b = C[j].frame.bp /\ s = C[j].frame.slots /\ e = Base(C, n)
      BY <1>1
    <3>2. b + s <= e
      BY <2>2, <3>1, FramesLieBelow
    <3>3. i \in (b + 1)..(b + s)
      BY <3>1 DEF SlotsOf
    <3>4. i \in 1..Base(C, n)
      BY <3>1, <3>2, <3>3, SMTT(30)
    <3> QED
      BY <3>4
  <2> QED
    BY <2>1, <2>2
<1>3. ASSUME NEW j \in 1..n, j # n PROVE View(D, T, j) = View(C, S, j)
  <2>1. j \in 1..Len(C) /\ j \in 1..Len(D) /\ j + 1 \in 1..n
        /\ (j # 1 => j - 1 \in 1..(n - 1))
    BY <1>3
  <2>2. j # 1 => D[j - 1].resume = C[j - 1].resume
    BY <2>1
  <2>3. EndIn(C, S, j) = C[j + 1].frame.bp /\ EndIn(D, T, j) = C[j + 1].frame.bp
    BY <1>3, <2>1 DEF EndIn
  <2>4. C[j + 1].frame.bp \in Nat /\ C[j + 1].frame.bp <= Base(C, n)
    BY <1>3, FramesLieBelow
  <2>5. \A i \in (Base(C, j) + 1)..C[j + 1].frame.bp : T[i] = S[i]
    <3> SUFFICES ASSUME NEW i \in (Base(C, j) + 1)..C[j + 1].frame.bp PROVE T[i] = S[i]
      OBVIOUS
    <3>1. PICK b \in Nat, m \in Nat, e \in Nat :
             b = Base(C, j) /\ m = C[j + 1].frame.bp /\ e = Base(C, n)
      BY <1>1, <2>4
    <3>2. i \in 1..Base(C, n)
      BY <2>4, <3>1
    <3> QED
      BY <3>2
  <2>6. \A i \in SlotsOf(C[j].frame) : T[i] = S[i]
    BY <1>2
  <2> QED
    BY <2>1, <2>2, <2>3, <2>4, <2>5, <2>6, SameView
<1>4. View(D, T, n) = [View(C, S, n) EXCEPT !.operands = Above(T, Base(C, n))]
  <2>1. n \in 1..n /\ (n # 1 => n - 1 \in 1..(n - 1))
    OBVIOUS
  <2>2. D[n].frame = C[n].frame /\ Base(D, n) = Base(C, n)
    BY <2>1, Zenon DEF Base
  <2>3. ResumeIn(D, n) = ResumeIn(C, n)
    BY <2>1, Zenon DEF ResumeIn
  <2>4. LocalsIn(T, C[n].frame) = LocalsIn(S, C[n].frame)
    <3>0. C[n].frame.bp + C[n].frame.slots \in Nat
      BY <1>1, <2>1
    <3>1. PICK low \in Nat, high \in Nat :
             low = C[n].frame.bp /\ high = C[n].frame.bp + C[n].frame.slots
      BY <1>1, <2>1, <3>0
    <3>2. Agree(S, T, low, high)
      BY <1>2, <2>1, <3>1 DEF SlotsOf, Agree
    <3>3. SubSeq(T, low + 1, high) = SubSeq(S, low + 1, high)
      <4>1. low \in Nat /\ high \in Nat
        OBVIOUS
      <4> QED
        BY ONLY <4>1, <3>2, SameParts
    <3> QED
      BY <3>1, <3>3, Zenon DEF LocalsIn
  <2>5. OperandsIn(D, T, n) = Above(T, Base(C, n))
    BY <2>2, Zenon DEF OperandsIn, Above
  <2> HIDE DEF EndIn
  <2> QED
    BY <2>2, <2>3, <2>4, <2>5 DEF View
<1> DEFINE views == Views(C, S)
<1>5. views = [j \in 1..n |-> View(C, S, j)] /\ Views(D, T) = [j \in 1..n |-> View(D, T, j)]
  BY Zenon DEF Views
<1>6. n \in 1..n
  OBVIOUS
<1> HIDE DEF views
<1>7. views[n] = View(C, S, n) /\ DOMAIN views = 1..n
  BY <1>5, <1>6
<1>8. [views EXCEPT ![n].operands = Above(T, Base(C, n))]
        = [views EXCEPT ![n] = [views[n] EXCEPT !.operands = Above(T, Base(C, n))]]
  BY Zenon
<1>9. [views EXCEPT ![n].operands = Above(T, Base(C, n))]
        = [views EXCEPT ![n] = View(D, T, n)]
  BY <1>4, <1>7, <1>8, Zenon
<1>10. Views(D, T) = [views EXCEPT ![n] = View(D, T, n)]
  BY <1>3, <1>5, <1>6, <1>7
<1> QED
  BY <1>9, <1>10 DEF views, WithOperands

-----------------------------------------------------------------------------
(* The records of a state, and of the next one. *)

\* The same in the next state.
LEMMA RecordsNext ==
    (BalancedInvariant /\ result # "false" =>
       Records = Views(Contexts, stack) /\ Len(Records) = callDepth + 1)'
<1>1. BalancedInvariant /\ result # "false" =>
        Records = Views(Contexts, stack) /\ Len(Records) = callDepth + 1
  BY RecordsAreViews
<1> QED
  BY <1>1, PTL

\* The operands of the running record are the words above the floor.
LEMMA RunningOperands ==
    ASSUME BalancedInvariant, result # "false"
    PROVE  /\ Activation!Depth = callDepth + 1
           /\ Activation!Operands = Above(stack, Floor)
<1>1. /\ callDepth \in Nat /\ Len(Contexts) = callDepth + 1
      /\ Records = Views(Contexts, stack) /\ Len(Records) = callDepth + 1
  BY ContextsAreTyped, RecordsAreViews
<1>2. callDepth + 1 \in 1..Len(Contexts)
  BY <1>1
<1>3. Views(Contexts, stack)[callDepth + 1] = View(Contexts, stack, callDepth + 1)
  BY <1>2 DEF Views
<1>4. View(Contexts, stack, callDepth + 1).operands = OperandsIn(Contexts, stack, callDepth + 1)
  BY DEF View
<1>5. OperandsIn(Contexts, stack, callDepth + 1) = Above(stack, Floor)
  BY <1>1, Zenon DEF OperandsIn, Above, Floor
<1> QED
  BY <1>1, <1>3, <1>4, <1>5, Zenon DEF Activation!Depth, Activation!Operands,
     Activation!Running

\* The operands of an instruction and those below them, in the record as in the stack.
LEMMA OperandsAlike ==
    ASSUME BalancedInvariant, result # "false", NEW n \in Nat, n <= Heights[prog][pc]
    PROVE  /\ \A i \in 1..n : Activation!Top(n, i) = Operand(n, i)
           /\ Activation!Rest(n) = Above(Below(n), Floor)
<1>1. stack \in Seq(Value) /\ Floor \in Nat /\ Floor + n <= Len(stack)
  <2>1. PICK floor \in Nat, height \in Nat :
           floor = Floor /\ height = Heights[prog][pc] /\ Len(stack) = floor + height
    BY AtLine, ContextsAreTyped
  <2> QED
    BY <2>1, StackKeepsFloor
<1>2. /\ \A i \in 1..n : Above(stack, Floor)[Len(Above(stack, Floor)) - n + i]
                           = stack[Len(stack) - n + i]
      /\ SubSeq(Above(stack, Floor), 1, Len(Above(stack, Floor)) - n)
           = Above(SubSeq(stack, 1, Len(stack) - n), Floor)
  <2>1. n \in Nat
    OBVIOUS
  <2> QED
    BY ONLY <1>1, <2>1, TakingOff
<1>3. Activation!Operands = Above(stack, Floor)
  BY RunningOperands
<1> QED
  BY <1>2, <1>3, Zenon DEF Activation!Top, Activation!Rest, Operand, Below

\* The contexts of a step that stays in the running frame.
LEMMA FramesStay ==
    ASSUME BalancedInvariant, BalancedInvariant', Track, callDepth' = callDepth, frame' = frame
    PROVE  /\ Contexts' \in Seq(Context) /\ Len(Contexts') = callDepth + 1
           /\ \A j \in 1..(callDepth + 1) : Contexts'[j].frame = Contexts[j].frame
           /\ \A j \in 1..callDepth : Contexts'[j] = Contexts[j]
<1> DEFINE D == Contexts'
           n == callDepth + 1
<1>1. /\ n \in Nat \ {0} /\ n - 1 = callDepth
      /\ Contexts[n].frame = frame /\ \A j \in 1..(n - 1) : Contexts[j] = suspended[j]
      /\ suspended \in Seq(Context) /\ Len(suspended) = n - 1
  BY ContextsAreTyped DEF BalancedInvariant
<1>2. suspended' = suspended
  BY ContextsAreTyped DEF Track
<1>3. D \in Seq(Context) /\ D = Append(suspended, [frame |-> frame, display |-> display', resume |-> pc'])
  BY <1>2 DEF Contexts, BalancedInvariant, FramesStand
<1>4. /\ Len(D) = n /\ D[n].frame = frame /\ \A j \in 1..(n - 1) : D[j] = suspended[j]
  <2>1. PICK top : top = [frame |-> frame, display |-> display', resume |-> pc']
    OBVIOUS
  <2>2. suspended \in Seq(Context \cup {top}) /\ top \in Context \cup {top}
    BY <1>1, SeqMonotonic
  <2>3. /\ Len(Append(suspended, top)) = n /\ Append(suspended, top)[n] = top
        /\ \A j \in 1..(n - 1) : Append(suspended, top)[j] = suspended[j]
    <3>1. n - 1 + 1 = n
      BY <1>1
    <3> QED
      BY <1>1, <2>2, <3>1, AppendProperties
  <2> QED
    BY <1>3, <2>1, <2>3
<1> HIDE DEF D, n
<1>5. \A j \in 1..n : D[j].frame = Contexts[j].frame
  <2>1. \A j \in 1..n : j \in 1..(n - 1) \/ j = n
    BY <1>1
  <2> QED
    BY <1>1, <1>4, <2>1
<1>6. \A j \in 1..(n - 1) : D[j] = Contexts[j]
  BY <1>1, <1>4
<1> QED
  BY <1>1, <1>3, <1>4, <1>5, <1>6 DEF D, n

\* The views of such contexts, over words that keep what lies below the running base.
LEMMA ViewsAfter ==
    ASSUME BalancedInvariant, BalancedInvariant', Track, result # "false",
           callDepth' = callDepth, frame' = frame, NEW left, KeepsFloor(left)
    PROVE  Views(Contexts', left) = Activation!With(Above(left, Floor))
<1> DEFINE C == Contexts
           D == Contexts'
           n == callDepth + 1
<1>1. /\ C \in Seq(Context) /\ Len(C) = n /\ n \in Nat \ {0} /\ n - 1 = callDepth
      /\ FramesApart(C) /\ C[1].frame = NoFrame
  BY ContextsAreTyped DEF BalancedInvariant, FramesStand
<1>2. /\ D \in Seq(Context) /\ Len(D) = n
      /\ \A j \in 1..n : D[j].frame = C[j].frame
      /\ \A j \in 1..callDepth : D[j] = C[j]
  BY FramesStay
<1> HIDE DEF C, D, n
<1>6. \A i \in 1..Base(C, n) : left[i] = stack[i]
  BY DEF KeepsFloor, Floor, C, n
<1>7. Views(D, left) = WithOperands(Views(C, stack), n, Above(left, Base(C, n)))
  <2>1. SameBelow(C, D, stack, left, n)
    BY <1>1, <1>2, <1>6 DEF SameBelow
  <2> QED
    BY <2>1, StepAboveBase
<1>8. Records = Views(C, stack) /\ Len(Records) = n
  BY RecordsAreViews DEF C, n
<1>9. Base(C, n) = Floor
  BY Zenon DEF Floor, C, n
<1>10. Views(D, left) = Activation!With(Above(left, Floor))
  BY <1>7, <1>8, <1>9, Zenon DEF Activation!With, Activation!Depth, WithOperands
<1> QED
  BY <1>10 DEF D

\* A step that stays in the running frame changes the operands of its record.
LEMMA StayingRecords ==
    ASSUME BalancedInvariant, BalancedInvariant', Track,
           result # "false", result' # "false",
           callDepth' = callDepth, frame' = frame, KeepsFloor(stack')
    PROVE  Records' = Activation!With(Above(stack', Floor))
<1>1. PICK left : left = stack'
  OBVIOUS
<1>2. KeepsFloor(left)
  BY <1>1
<1>3. Views(Contexts', left) = Activation!With(Above(left, Floor))
  BY <1>2, ViewsAfter
<1>4. Records' = Views(Contexts', stack')
  BY RecordsNext
<1> QED
  BY <1>1, <1>3, <1>4

-----------------------------------------------------------------------------
(* The steps that stay in the running frame, on the records. *)

\* The executor runs exactly when the machine of records does.
LEMMA ExecutingAlike ==
    ASSUME NEW opcodes, Executing(opcodes)
    PROVE  /\ Activation!Executing(opcodes)
           /\ Activation!Fetched = Fetched /\ Activation!Code = Code /\ Activation!Calls = Calls
           /\ InLoop /\ Fetched.opcode \in opcodes
<1>1. /\ Activation!Code = Code /\ Activation!Calls = Calls
      /\ Activation!Fetched = Fetched
  BY Zenon DEF Activation!Code, Code, Activation!Calls, Calls, Activation!Fetched, Fetched
<1>2. InLoop /\ Fetched.opcode \in opcodes
  BY DEF Executing
<1>3. (IF stopped /\ result = "running" THEN "stopped" ELSE result) = "running"
  BY <1>2 DEF InLoop
<1>4. pc < Len(Code)
  BY <1>2 DEF InLoop
<1> QED
  BY <1>1, <1>2, <1>3, <1>4, Zenon DEF Activation!Executing

\* A failure aborts the run of records.
LEMMA FailureAborts ==
    ASSUME BalancedInvariant, result = "running", ~stopped, NEW kind, NEW left, Fail(kind, left)
    PROVE  Activation!Abort
<1>1. result = "running" /\ stopped = FALSE /\ result' = "false"
  BY DEF Fail, BalancedInvariant, MachineInvariant, TypeOK
<1>2. UNCHANGED <<prog, memory, output>>
  BY DEF Fail
<1>3. (IF stopped /\ result = "running" THEN "stopped" ELSE result) = "running"
  BY <1>1
<1>4. (IF stopped /\ result = "running" THEN "stopped" ELSE result)' = "false"
  BY <1>1
<1>5. Records' = <<>>
  BY <1>1 DEF Records
<1> QED
  BY <1>2, <1>3, <1>4, <1>5, Zenon DEF Activation!Abort

\* The same, of an instruction.
LEMMA FailingAborts ==
    ASSUME BalancedInvariant, InLoop, NEW kind, NEW left, Fail(kind, left)
    PROVE  Activation!Abort
<1>1. result = "running" /\ ~stopped
  BY DEF InLoop
<1> QED
  BY <1>1, FailureAborts

\* A step that goes on over these words is one over the operands above the floor.
LEMMA GoingOn ==
    ASSUME BalancedInvariant, BalancedInvariant', Track, InLoop,
           NEW at, NEW left, KeepsFloor(left), Continue(at, left)
    PROVE  Activation!Step(at, Activation!With(Above(left, Floor)))
<1>1. /\ pc' = at /\ stack' = left
      /\ UNCHANGED <<prog, frame, display, callDepth, stopped, error, result>>
  BY DEF Continue
<1>2. result # "false" /\ result' # "false"
  BY <1>1 DEF InLoop
<1>3. KeepsFloor(stack')
  BY <1>1
<1>4. Records' = Activation!With(Above(stack', Floor))
  BY <1>1, <1>2, <1>3, StayingRecords
<1>5. Records' = Activation!With(Above(left, Floor))
  BY <1>1, <1>4
<1>6. (IF stopped /\ result = "running" THEN "stopped" ELSE result)'
        = (IF stopped /\ result = "running" THEN "stopped" ELSE result)
  BY <1>1
<1> QED
  BY <1>1, <1>5, <1>6, Zenon DEF Activation!Step

\* Writing back the operands a record has leaves the records as they are.
LEMMA SameOperands ==
    ASSUME BalancedInvariant, result # "false"
    PROVE  Activation!With(Above(stack, Floor)) = Records
<1>1. /\ callDepth \in Nat /\ Len(Contexts) = callDepth + 1
      /\ Records = Views(Contexts, stack) /\ Len(Records) = callDepth + 1
  BY ContextsAreTyped, RecordsAreViews
<1> DEFINE n == callDepth + 1
           held == View(Contexts, stack, n)
<1>2. n \in 1..Len(Contexts)
  BY <1>1
<1>3. Records = [j \in 1..Len(Contexts) |-> View(Contexts, stack, j)]
  BY <1>1 DEF Views
<1>4. held.operands = Above(stack, Floor)
  <2>1. held.operands = OperandsIn(Contexts, stack, n)
    BY DEF View
  <2>2. OperandsIn(Contexts, stack, n) = Above(stack, Floor)
    BY <1>1, Zenon DEF OperandsIn, Above, Floor
  <2> QED
    BY <2>1, <2>2
<1>5. [held EXCEPT !.operands = Above(stack, Floor)] = held
  <2>1. [held EXCEPT !.operands = held.operands] = held
    BY DEF View
  <2> QED
    BY <1>4, <2>1, Zenon
<1> HIDE DEF held
<1>6. Records[n] = held /\ DOMAIN Records = 1..Len(Contexts)
  BY <1>2, <1>3 DEF held
<1>7. [Records EXCEPT ![n] = Records[n]] = Records
  BY <1>2, <1>3, <1>6
<1>8. [Records EXCEPT ![n].operands = Above(stack, Floor)]
        = [Records EXCEPT ![n] = [Records[n] EXCEPT !.operands = Above(stack, Floor)]]
  BY Zenon
<1> QED
  BY <1>1, <1>5, <1>6, <1>7, <1>8, Zenon DEF Activation!With, Activation!Depth

\* The steps of the machine of records that goes on with these operands.
LEMMA StandingStill ==
    ASSUME BalancedInvariant, BalancedInvariant', Track, InLoop,
           NEW at, Continue(at, stack)
    PROVE  Activation!Step(at, Records)
<1>1. result # "false"
  BY DEF InLoop
<1>2. KeepsFloor(stack)
  BY <1>1, StackKeepsFloor
<1>3. Activation!Step(at, Activation!With(Above(stack, Floor)))
  BY <1>2, GoingOn
<1>4. Activation!With(Above(stack, Floor)) = Records
  BY <1>1, SameOperands
<1> QED
  BY <1>3, <1>4, Zenon

\* A value on top of the words, and on top of the operands.
LEMMA PushedOperands ==
    ASSUME BalancedInvariant, NEW left \in Seq(Value), KeepsFloor(left), NEW value \in Value
    PROVE  Above(Append(left, value), Floor) = Append(Above(left, Floor), value)
<1>1. Floor \in Nat /\ Floor <= Len(left)
  BY ContextsAreTyped DEF KeepsFloor
<1> QED
  BY <1>1, PuttingOn

\* INT allocates the globals.
LEMMA IntMapped ==
    ASSUME BalancedInvariant, BalancedInvariant', Track, Int_
    PROVE  Activation!Allocate \/ Activation!Abort
<1>1. Executing({"INT"})
  BY DEF Int_
<1>2. /\ Activation!Executing({"INT"}) /\ Activation!Fetched = Fetched /\ InLoop
  BY <1>1, ExecutingAlike
<1>3. CASE Fail("INT memory allocation failed", stack)
  BY <1>2, <1>3, FailingAborts
<1>4. CASE /\ memory' = [cell \in 1..Fetched.operand |-> None]
           /\ Continue(pc + 1, stack) /\ UNCHANGED output
  <2>1. Activation!Step(pc + 1, Records)
    BY <1>2, <1>4, StandingStill
  <2>2. Activation!None = None
    BY SameValues
  <2> QED
    BY <1>2, <1>4, <2>1, <2>2, Zenon DEF Activation!Allocate
<1> QED
  BY <1>3, <1>4 DEF Int_

\* A push fails at the limit, or puts the value on top of the operands.
LEMMA PushMapped ==
    ASSUME BalancedInvariant, BalancedInvariant', Track, InLoop,
           NEW left \in Seq(Value), KeepsFloor(left), NEW value \in Value,
           PushAndNext(left, value)
    PROVE  \/ Activation!Abort
           \/ /\ Activation!Step(pc + 1, Activation!With(Append(Above(left, Floor), value)))
              /\ UNCHANGED <<memory, output>>
<1>1. CASE Fail("Stack Overflow", left)
  BY <1>1, FailingAborts
<1>2. CASE Continue(pc + 1, Append(left, value)) /\ UNCHANGED <<memory, output>>
  <2>1. KeepsFloor(Append(left, value))
    BY PushingKeepsFloor
  <2>2. Activation!Step(pc + 1, Activation!With(Above(Append(left, value), Floor)))
    BY <1>2, <2>1, GoingOn
  <2>3. Above(Append(left, value), Floor) = Append(Above(left, Floor), value)
    BY PushedOperands
  <2> QED
    BY <1>2, <2>2, <2>3, Zenon
<1> QED
  BY <1>1, <1>2 DEF PushAndNext

\* LIT pushes its literal on the running record.
LEMMA LiteralMapped ==
    ASSUME BalancedInvariant, BalancedInvariant', Track, Literal
    PROVE  Activation!Push \/ Activation!Abort
<1>1. Executing({"LIT"})
  BY DEF Literal
<1>2. /\ Activation!Executing({"LIT"}) /\ Activation!Fetched = Fetched
      /\ InLoop /\ Fetched.opcode \in {"LIT"}
  BY <1>1, ExecutingAlike
<1>3. CASE Fail(LiteralError, stack)
  BY <1>2, <1>3, FailingAborts
<1>4. CASE LiteralError = NoError /\ PushAndNext(stack, Fetched.literal)
  <2>1. result # "false"
    BY <1>2 DEF InLoop
  <2>2. KeepsFloor(stack) /\ stack \in Seq(Value)
    BY <2>1, StackKeepsFloor
  <2>3. Fetched.literal \in Value
    BY <1>2, <1>4, LiteralIsTyped
  <2>4. Activation!Operands = Above(stack, Floor)
    BY <2>1, RunningOperands
  <2>5. \/ Activation!Abort
        \/ /\ Activation!Step(pc + 1, Activation!With(Append(Above(stack, Floor), Fetched.literal)))
           /\ UNCHANGED <<memory, output>>
    BY <1>2, <1>4, <2>2, <2>3, PushMapped
  <2> QED
    BY <1>2, <2>4, <2>5, Zenon DEF Activation!Push
<1> QED
  BY <1>3, <1>4 DEF Literal

\* JMP leaves the records as they are.
LEMMA JumpMapped ==
    ASSUME BalancedInvariant, BalancedInvariant', Track, Jump
    PROVE  Activation!Branch \/ Activation!Abort
<1>1. Executing({"JMP"})
  BY DEF Jump
<1>2. /\ Activation!Executing({"JMP"}) /\ Activation!Fetched = Fetched /\ InLoop
  BY <1>1, ExecutingAlike
<1>3. CASE Fail("Invalid Jump Target", stack)
  BY <1>2, <1>3, FailingAborts
<1>4. CASE Continue(Fetched.operand, stack) /\ UNCHANGED <<memory, output>>
  <2>1. Activation!Step(Fetched.operand, Records)
    BY <1>2, <1>4, StandingStill
  <2> QED
    BY <1>2, <1>4, <2>1, Zenon DEF Activation!Branch
<1> QED
  BY <1>3, <1>4 DEF Jump, JumpTo

\* JPC takes the condition off the running record.
LEMMA JumpIfZeroMapped ==
    ASSUME BalancedInvariant, BalancedInvariant', Track, JumpIfZero
    PROVE  Activation!Branch \/ Activation!Abort
<1>1. Executing({"JPC"})
  BY DEF JumpIfZero
<1>2. /\ Activation!Executing({"JPC"}) /\ Activation!Fetched = Fetched
      /\ InLoop /\ Fetched.opcode \in {"JPC"}
  BY <1>1, ExecutingAlike
<1>3. result # "false" /\ 1 <= Heights[prog][pc]
  BY <1>2, AtBalancedLine, EffectOfInstruction
<1>4. KeepsFloor(Below(1)) /\ ~Underflow(1)
  BY <1>3, PoppingKeepsFloor, NothingUnderflows
<1>5. Activation!Top(1, 1) = Operand(1, 1) /\ Activation!Rest(1) = Above(Below(1), Floor)
  BY <1>3, OperandsAlike
<1>6. Activation!IsZero(Operand(1, 1)) = IsZero(Operand(1, 1))
  BY SameValues
<1>7. CASE Fail("Invalid Jump Target", Below(1))
  BY <1>2, <1>7, FailingAborts
<1>8. CASE /\ IsZero(Operand(1, 1)) /\ Continue(Fetched.operand, Below(1))
           /\ UNCHANGED <<memory, output>>
  <2>1. Activation!Step(Fetched.operand, Activation!With(Above(Below(1), Floor)))
    BY <1>2, <1>4, <1>8, GoingOn
  <2>2. (IF Activation!IsZero(Activation!Top(1, 1)) THEN Fetched.operand ELSE pc + 1)
          = Fetched.operand
    BY <1>5, <1>6, <1>8, Zenon
  <2> QED
    BY <1>2, <1>5, <1>8, <2>1, <2>2, Zenon DEF Activation!Branch
<1>9. CASE /\ ~IsZero(Operand(1, 1)) /\ Continue(pc + 1, Below(1))
           /\ UNCHANGED <<memory, output>>
  <2>1. Activation!Step(pc + 1, Activation!With(Above(Below(1), Floor)))
    BY <1>2, <1>4, <1>9, GoingOn
  <2>2. (IF Activation!IsZero(Activation!Top(1, 1)) THEN Fetched.operand ELSE pc + 1) = pc + 1
    BY <1>5, <1>6, <1>9, Zenon
  <2> QED
    BY <1>2, <1>5, <1>9, <2>1, <2>2, Zenon DEF Activation!Branch
<1> QED
  BY <1>4, <1>7, <1>8, <1>9 DEF JumpIfZero, JumpTo

\* An OPR that computes has the same outcome on the operands of the record.
LEMMA OperateMapped ==
    ASSUME BalancedInvariant, BalancedInvariant', Track,
           NEW codes \in SUBSET ValueCodes, Operate(codes)
    PROVE  Activation!Evaluate \/ Activation!Abort
<1>1. Executing({"OPR"}) /\ Fetched.operand \in ValueCodes
  BY DEF Operate, Operating
<1>2. /\ Activation!Executing({"OPR"}) /\ Activation!Fetched = Fetched
      /\ InLoop /\ Fetched.opcode = "OPR"
  BY <1>1, ExecutingAlike
<1> DEFINE n        == Arity(Fetched.operand)
           operands == [i \in 1..n |-> Operand(n, i)]
           outcome  == Outcome(Fetched.operand, operands)
<1>3. n \in {1, 2} /\ Replace(n, outcome)
  BY DEF Arity, Operate
<1>4. result # "false" /\ n <= Heights[prog][pc]
  BY <1>1, <1>2, AtBalancedLine, EffectOfOperation
<1>5. /\ Activation!Arity(Fetched.operand) = n /\ Activation!ValueCodes = ValueCodes
      /\ Activation!Outcome(Fetched.operand, operands) = outcome
      /\ Activation!NoError = NoError
  BY SameOutcomes, Zenon DEF Activation!NoError, NoError
<1> HIDE DEF n
<1>6. /\ n \in 0..Len(stack) /\ Below(n) \in Seq(Value) /\ KeepsFloor(Below(n)) /\ ~Underflow(n)
  BY <1>3, <1>4, PoppingKeepsFloor, NothingUnderflows
<1>7. /\ \A i \in 1..n : Activation!Top(n, i) = Operand(n, i)
      /\ Activation!Rest(n) = Above(Below(n), Floor)
  BY <1>3, <1>4, OperandsAlike
<1>8. [i \in 1..n |-> Activation!Top(n, i)] = operands
  BY <1>7, Zenon
<1>9. Sound(outcome)
  <2>1. operands \in [1..n -> Value]
    BY <1>6, PoppedIsTyped DEF BalancedInvariant, MachineInvariant, TypeOK
  <2> QED
    BY <1>1, <2>1, OutcomeIsSound DEF n
<1> HIDE DEF operands, outcome
<1>10. CASE Fail(outcome.error, Below(n))
  BY <1>2, <1>10, FailingAborts
<1>11. CASE /\ outcome.error = NoError /\ Continue(pc + 1, Append(Below(n), outcome.value))
            /\ UNCHANGED <<memory, output>>
  <2>1. outcome.value \in Value
    BY <1>9, <1>11 DEF Sound
  <2>2. KeepsFloor(Append(Below(n), outcome.value))
    BY <1>6, <2>1, PushingKeepsFloor
  <2>3. Activation!Step(pc + 1, Activation!With(Above(Append(Below(n), outcome.value), Floor)))
    BY <1>2, <1>11, <2>2, GoingOn
  <2>4. Above(Append(Below(n), outcome.value), Floor)
          = Append(Activation!Rest(n), outcome.value)
    BY <1>6, <1>7, <2>1, PushedOperands
  <2>5. Activation!Step(pc + 1, Activation!With(Append(Activation!Rest(n), outcome.value)))
    BY <2>3, <2>4, Zenon
  <2> QED
    BY <1>1, <1>2, <1>5, <1>8, <1>11, <2>5, Zenon DEF Activation!Evaluate
<1> QED
  BY <1>3, <1>6, <1>10, <1>11 DEF Replace

\* OPR_WRT and OPR_WRTLN write the operand on top of the record.
LEMMA WriteMapped ==
    ASSUME BalancedInvariant, BalancedInvariant', Track, Write
    PROVE  Activation!Write \/ Activation!Abort
<1>1. Executing({"OPR"}) /\ Fetched.operand \in {OPR_WRT, OPR_WRTLN}
  BY DEF Write, Operating
<1>2. /\ Activation!Executing({"OPR"}) /\ Activation!Fetched = Fetched
      /\ InLoop /\ Fetched.opcode = "OPR"
  BY <1>1, ExecutingAlike
<1>3. result # "false" /\ 1 <= Heights[prog][pc]
  BY <1>1, <1>2, AtBalancedLine, EffectOfOperation DEF Writes
<1>4. KeepsFloor(Below(1)) /\ ~Underflow(1)
  BY <1>3, PoppingKeepsFloor, NothingUnderflows
<1>5. Activation!Top(1, 1) = Operand(1, 1) /\ Activation!Rest(1) = Above(Below(1), Floor)
  BY <1>3, OperandsAlike
<1>6. CASE Fail("Uninitialized value cannot be written", Below(1))
  BY <1>2, <1>6, FailingAborts
<1>7. CASE /\ Operand(1, 1).type # "none"
           /\ output' = Append(output, [value   |-> Operand(1, 1),
                                        newline |-> Fetched.operand = OPR_WRTLN])
           /\ Continue(pc + 1, Below(1)) /\ UNCHANGED memory
  <2>1. Activation!Step(pc + 1, Activation!With(Above(Below(1), Floor)))
    BY <1>2, <1>4, <1>7, GoingOn
  <2>2. Activation!OPR_WRT = OPR_WRT /\ Activation!OPR_WRTLN = OPR_WRTLN
    BY Zenon DEF Activation!OPR_WRT, OPR_WRT, Activation!OPR_WRTLN, OPR_WRTLN
  <2> QED
    BY <1>1, <1>2, <1>5, <1>7, <2>1, <2>2, Zenon DEF Activation!Write
<1> QED
  BY <1>4, <1>6, <1>7, Zenon DEF Write

\* OPR_POP takes one operand off the record.
LEMMA DiscardMapped ==
    ASSUME BalancedInvariant, BalancedInvariant', Track, Discard
    PROVE  Activation!Discard \/ Activation!Abort
<1>1. Executing({"OPR"}) /\ Fetched.operand = OPR_POP
  BY DEF Discard, Operating
<1>2. /\ Activation!Executing({"OPR"}) /\ Activation!Fetched = Fetched
      /\ InLoop /\ Fetched.opcode = "OPR"
  BY <1>1, ExecutingAlike
<1>3. result # "false" /\ 1 <= Heights[prog][pc]
  BY <1>1, <1>2, AtBalancedLine, EffectOfOperation
<1>4. KeepsFloor(Below(1)) /\ ~Underflow(1)
  BY <1>3, PoppingKeepsFloor, NothingUnderflows
<1>5. Activation!Rest(1) = Above(Below(1), Floor)
  BY <1>3, OperandsAlike
<1>6. Continue(pc + 1, Below(1)) /\ UNCHANGED <<memory, output>>
  BY <1>4 DEF Discard
<1>7. Activation!Step(pc + 1, Activation!With(Above(Below(1), Floor)))
  BY <1>2, <1>4, <1>6, GoingOn
<1>8. Activation!OPR_POP = OPR_POP
  BY Zenon DEF Activation!OPR_POP, OPR_POP
<1> QED
  BY <1>1, <1>2, <1>5, <1>6, <1>7, <1>8, Zenon DEF Activation!Discard

\* The range errors abort the run.
LEMMA ReportRangeMapped ==
    ASSUME BalancedInvariant, ReportRange
    PROVE  Activation!Abort
<1>1. InLoop
  BY DEF ReportRange, Operating, Executing
<1>2. \E kind, left : Fail(kind, left)
  BY DEF ReportRange, Underflow
<1> QED
  BY <1>1, <1>2, FailingAborts

-----------------------------------------------------------------------------
(* The steps that change no frame and no word. *)

\* The records depend on the frames, the display, the return points and the words.
LEMMA RecordsKept ==
    ASSUME BalancedInvariant, BalancedInvariant', result # "false", result' # "false",
           UNCHANGED <<suspended, frame, display, pc, stack>>
    PROVE  Records' = Records
<1>1. Contexts' = Contexts /\ stack' = stack
  BY DEF Contexts
<1> QED
  BY <1>1, RecordsAreViews, RecordsNext

\* The loop ends in the main program, or the run is aborted.
LEMMA LeaveMapped ==
    ASSUME BalancedInvariant, BalancedInvariant', Track, Leave
    PROVE  Activation!End \/ Activation!Abort
<1>1. result = "running" /\ ~InLoop /\ stopped \in BOOLEAN
  BY DEF Leave, BalancedInvariant, MachineInvariant, TypeOK
<1>2. CASE ~stopped /\ Fail("Stack Corruption", stack)
  BY <1>1, <1>2, FailureAborts
<1>3. CASE /\ stopped \/ callDepth = 0
           /\ result' = "true"
           /\ UNCHANGED <<prog, pc, stack, memory, frame, display, callDepth,
                          output, stopped, error>>
  <2>1. callDepth = 0 /\ callDepth' = callDepth
    BY <1>3 DEF BalancedInvariant, MachineInvariant, EndsInMain
  <2>2. suspended' = suspended
    BY <2>1 DEF Track
  <2>3. Records' = Records
    BY <1>1, <1>3, <2>2, RecordsKept
  <2>4. Activation!Depth = 1
    BY <1>1, <2>1, RunningOperands
  <2>5. \/ (IF stopped /\ result = "running" THEN "stopped" ELSE result) = "stopped"
        \/ /\ (IF stopped /\ result = "running" THEN "stopped" ELSE result) = "running"
           /\ pc >= Len(Code)
    <3>1. CASE stopped
      BY <1>1, <3>1
    <3>2. CASE ~stopped
      <4>1. ~(pc < Len(Code)) /\ pc \in Int
        BY <1>1, <3>2 DEF InLoop, BalancedInvariant, MachineInvariant, TypeOK
      <4>2. Len(Code) \in Nat
        <5>1. Library[prog].code \in Seq(Instruction)
          BY LibraryAssumption DEF BalancedInvariant, MachineInvariant, TypeOK,
             IsInstructionList
        <5> QED
          BY <5>1, LenProperties DEF Code
      <4> QED
        BY <1>1, <3>2, <4>1, <4>2
    <3> QED
      BY <3>1, <3>2
  <2>6. (IF stopped /\ result = "running" THEN "stopped" ELSE result)' = "true"
    BY <1>3
  <2>7. Activation!Code = Code
    BY Zenon DEF Activation!Code, Code
  <2> QED
    BY <1>3, <2>3, <2>4, <2>5, <2>6, <2>7, Zenon DEF Activation!End
<1> QED
  BY <1>2, <1>3 DEF Leave

\* A step that changes nothing changes no record.
LEMMA StandingMapped ==
    ASSUME BalancedInvariant, BalancedInvariant', UNCHANGED <<vars, suspended>>
    PROVE  UNCHANGED Activation!vars
<1>1. /\ UNCHANGED <<prog, pc, memory, output, stopped, result>>
      /\ UNCHANGED <<suspended, frame, display, pc, stack>>
  BY DEF vars
<1>2. Records' = Records
  <2>1. CASE result = "false"
    BY <1>1, <2>1 DEF Records
  <2>2. CASE result # "false"
    BY <1>1, <2>2, RecordsKept
  <2> QED
    BY <2>1, <2>2
<1>3. (IF stopped /\ result = "running" THEN "stopped" ELSE result)'
        = (IF stopped /\ result = "running" THEN "stopped" ELSE result)
  BY <1>1
<1> QED
  BY <1>1, <1>2, <1>3, Zenon DEF Activation!vars

\* A RET of the main program.
LEMMA StopMapped ==
    ASSUME BalancedInvariant, BalancedInvariant', Track, Return, callDepth = 0
    PROVE  Activation!Stop
<1>1. Executing({"RET"}) /\ callDepth = 0
  BY DEF Return
<1>2. Activation!Executing({"RET"}) /\ InLoop
  BY <1>1, ExecutingAlike
<1>3. /\ stopped' = TRUE
      /\ UNCHANGED <<prog, pc, stack, memory, frame, display, callDepth, output, error, result>>
  BY DEF Return
<1>4. result = "running" /\ suspended' = suspended
  BY <1>2, <1>3 DEF InLoop, Track
<1>5. Records' = Records
  BY <1>3, <1>4, RecordsKept
<1>6. Activation!Depth = 1
  BY <1>1, <1>4, RunningOperands
<1>7. (IF stopped /\ result = "running" THEN "stopped" ELSE result)' = "stopped"
  BY <1>3, <1>4
<1> QED
  BY <1>2, <1>3, <1>5, <1>6, <1>7, Zenon DEF Activation!Stop

\* At the start there is one record, of the main program, without operands.
LEMMA InitMapped == TrackedInit => Activation!Init
<1> SUFFICES ASSUME TrackedInit PROVE Activation!Init
  OBVIOUS
<1>1. /\ prog \in DOMAIN Library /\ pc = 0 /\ stack = <<>> /\ memory = <<>>
      /\ callDepth = 0 /\ output = <<>> /\ stopped = FALSE /\ result = "running"
  BY DEF TrackedInit, Init
<1>2. MainRecord = Activation!Record(0, <<>>, 0, Activation!NoResult)
  <2>1. SubSeq(stack, 1, IF callDepth = 0 THEN Len(stack) ELSE FrameOf(1).bp) = <<>>
    BY <1>1
  <2> QED
    BY <2>1, Zenon DEF MainRecord, Activation!Record, Activation!NoResult
<1>3. [i \in Alive |-> RecordOf(i)] = <<>>
  BY <1>1 DEF Alive
<1>4. Records = <<MainRecord>>
  <2>1. <<MainRecord>> \o <<>> = <<MainRecord>>
    OBVIOUS
  <2> QED
    BY <1>1, <1>3, <2>1 DEF Records
<1>5. (IF stopped /\ result = "running" THEN "stopped" ELSE result) = "running"
  BY <1>1
<1> QED
  BY <1>1, <1>2, <1>4, <1>5, Zenon DEF Activation!Init

-----------------------------------------------------------------------------
(* The variable an instruction addresses. *)

\* x, a variable of the machine of records, is what the executor finds at place.
Names(x, place) ==
    \/ /\ place.area = "memory" /\ x.record = 0 /\ x.at = place.at
    \/ /\ place.area = "stack"
       /\ x.record \in 2..(callDepth + 1)
       /\ x.at \in 1..Contexts[x.record].frame.slots
       /\ place.at = Contexts[x.record].frame.bp + x.at

\* The display finds the record the machine of records finds.
LEMMA LatestRecord ==
    ASSUME BalancedInvariant, result # "false", NEW level \in Levels, display[level].active
    PROVE  LET i == Activation!Latest(level)
           IN  /\ i \in 2..(callDepth + 1)
               /\ display[level].bp = Contexts[i].frame.bp
               /\ display[level].slots = Contexts[i].frame.slots
<1> DEFINE n == callDepth + 1
<1>1. /\ callDepth \in Nat /\ Len(Contexts) = n /\ Contexts[n].display = display
      /\ Records = Views(Contexts, stack) /\ Activation!Depth = n
  BY ContextsAreTyped, RecordsAreViews, RunningOperands
<1>2. n \in 1..Len(Contexts)
  BY <1>1
<1>3. IsLatest(Contexts, n, level, display[level])
  BY <1>1, <1>2 DEF BalancedInvariant, FramesStand, DisplaysStand
<1>4. PICK i \in 2..n :
         /\ Contexts[i].frame.level = level
         /\ \A k \in 2..n : Contexts[k].frame.level = level => k <= i
         /\ display[level] = [active |-> TRUE, bp |-> Contexts[i].frame.bp,
                              slots |-> Contexts[i].frame.slots]
  BY <1>3 DEF IsLatest, NoEntry
<1>5. \A j \in 1..n : Records[j].level = Contexts[j].frame.level
  <2> SUFFICES ASSUME NEW j \in 1..n PROVE Records[j].level = Contexts[j].frame.level
    OBVIOUS
  <2>1. Records[j] = View(Contexts, stack, j)
    BY <1>1 DEF Views
  <2> QED
    BY <2>1 DEF View
<1> DEFINE Found(k) == /\ Records[k].level = level
                       /\ \A j \in (k + 1)..n : Records[j].level # level
<1>6. i \in 1..n /\ Found(i)
  <2>1. i \in 1..n /\ \A j \in (i + 1)..n : j \in 2..n /\ j \in 1..n /\ ~(j <= i)
    BY <1>1
  <2> QED
    BY <1>4, <1>5, <2>1
<1>7. ASSUME NEW k \in 1..n, Found(k) PROVE k = i
  <2>1. CASE k < i
    <3>1. i \in (k + 1)..n
      BY <1>1, <1>6, <2>1
    <3> QED
      BY <1>6, <1>7, <3>1
  <2>2. CASE k > i
    <3>1. k \in 2..n /\ ~(k <= i)
      BY <1>1, <1>6, <2>2
    <3> QED
      BY <1>4, <1>5, <1>7, <3>1
  <2> QED
    BY <1>1, <2>1, <2>2
<1>8. Activation!Latest(level) = CHOOSE k \in 1..n : Found(k)
  BY <1>1, Zenon DEF Activation!Latest
<1> HIDE DEF Found
<1>9. Activation!Latest(level) = i
  BY <1>6, <1>7, <1>8
<1> QED
  BY <1>1, <1>4, <1>9

\* A place in a frame is a slot of it.
LEMMA SlotFound ==
    ASSUME NEW held, held.bp \in Nat, held.slots \in Nat, NEW left, NEW offset \in Nat,
           FramePlace(held, left, offset).area # "nowhere"
    PROVE  /\ held.active /\ FramePlace(held, left, offset).area = "stack"
           /\ offset + 1 \in 1..held.slots
           /\ FramePlace(held, left, offset).at = held.bp + (offset + 1)
<1>1. held.active /\ offset < held.slots /\ held.bp + offset < Len(left)
  BY DEF FramePlace, NoPlace
<1>2. FramePlace(held, left, offset) = Place("stack", held.bp + offset)
  BY <1>1 DEF FramePlace
<1>3. PICK bp \in Nat, slots \in Nat : bp = held.bp /\ slots = held.slots /\ offset < slots
  BY <1>1
<1>4. offset + 1 \in 1..slots /\ bp + offset + 1 = bp + (offset + 1)
  BY <1>3
<1> QED
  BY <1>1, <1>2, <1>3, <1>4 DEF Place

\* A level of the display names a local of the latest record of that level.
LEMMA LocalFound ==
    ASSUME BalancedInvariant, result # "false", NEW level, NEW left, NEW offset \in Nat,
           LevelPlace(level, left, offset).area # "nowhere"
    PROVE  Names(Activation!Local(level, offset), LevelPlace(level, left, offset))
<1>1. level \in Levels
  BY DEF LevelPlace, NoPlace
<1>2. LevelPlace(level, left, offset) = FramePlace(display[level], left, offset)
  BY <1>1 DEF LevelPlace
<1>3. display[level].bp \in Nat /\ display[level].slots \in Nat
  BY <1>1 DEF BalancedInvariant, MachineInvariant, TypeOK, DisplayEntry
<1>4. /\ display[level].active /\ FramePlace(display[level], left, offset).area = "stack"
      /\ offset + 1 \in 1..display[level].slots
      /\ FramePlace(display[level], left, offset).at = display[level].bp + (offset + 1)
  BY <1>2, <1>3, SlotFound
<1>5. PICK i : i = Activation!Latest(level)
  OBVIOUS
<1>6. /\ i \in 2..(callDepth + 1)
      /\ display[level].bp = Contexts[i].frame.bp /\ display[level].slots = Contexts[i].frame.slots
  BY <1>1, <1>4, <1>5, LatestRecord
<1>7. Activation!Local(level, offset) = [record |-> i, at |-> offset + 1]
  BY <1>5, Zenon DEF Activation!Local
<1> QED
  BY <1>2, <1>4, <1>6, <1>7 DEF Names

\* An address of the running frame names a local of the last record.
LEMMA RunningFound ==
    ASSUME BalancedInvariant, result # "false", NEW left, NEW offset \in Nat,
           RunningPlace(left, offset).area # "nowhere"
    PROVE  Names([record |-> Activation!Depth, at |-> offset + 1], RunningPlace(left, offset))
<1> DEFINE held == [active |-> callDepth > 0, bp |-> frame.bp, slots |-> frame.slots]
<1>1. /\ callDepth \in Nat /\ frame.bp \in Nat /\ frame.slots \in Nat
      /\ Contexts[callDepth + 1].frame = frame
  BY ContextsAreTyped
<1>2. held.bp = frame.bp /\ held.slots = frame.slots /\ held.active = (callDepth > 0)
  OBVIOUS
<1>3. RunningPlace(left, offset) = FramePlace(held, left, offset)
  BY DEF RunningPlace
<1> HIDE DEF held
<1>4. /\ held.active /\ FramePlace(held, left, offset).area = "stack"
      /\ offset + 1 \in 1..held.slots
      /\ FramePlace(held, left, offset).at = held.bp + (offset + 1)
  BY <1>1, <1>2, <1>3, SlotFound
<1>5. Activation!Depth = callDepth + 1
  BY RunningOperands
<1>6. callDepth + 1 \in 2..(callDepth + 1)
  <2>1. callDepth > 0
    BY <1>2, <1>4, Zenon
  <2> QED
    BY <1>1, <2>1
<1> QED
  BY <1>1, <1>2, <1>3, <1>4, <1>5, <1>6 DEF Names

\* An address that is none of a frame names a global.
LEMMA GlobalFound ==
    ASSUME NEW address, MemoryPlace(address).area # "nowhere"
    PROVE  Names(Activation!Global(address), MemoryPlace(address))
<1>1. MemoryPlace(address) = Place("memory", address)
  BY DEF MemoryPlace, NoPlace
<1>2. Activation!Global(address) = [record |-> 0, at |-> address + 1]
  BY Zenon DEF Activation!Global
<1> QED
  BY <1>1, <1>2 DEF Place, Names

\* An address on top of the stack names the same variable in both.
LEMMA AddressedFound ==
    ASSUME BalancedInvariant, result # "false", NEW address \in Int, NEW left,
           AddressedPlace(address, left).area # "nowhere"
    PROVE  Names(Activation!Addressed(address), AddressedPlace(address, left))
<1>0. /\ Activation!IsFrameAddress(address) = IsFrameAddress(address)
      /\ Activation!DecodedLevel(address) = DecodedLevel(address)
      /\ Activation!DecodedOffset(address) = DecodedOffset(address)
      /\ Activation!RunningFrame = RunningFrame
  BY SameAddresses
<1>1. CASE ~IsFrameAddress(address)
  <2>1. AddressedPlace(address, left) = MemoryPlace(address)
    BY <1>1 DEF AddressedPlace
  <2>2. Activation!Addressed(address) = Activation!Global(address)
    BY <1>0, <1>1, Zenon DEF Activation!Addressed
  <2> QED
    BY <2>1, <2>2, GlobalFound
<1>2. CASE IsFrameAddress(address) /\ FrameBase <= address
  <2>1. DecodedLevel(address) = RunningFrame
    BY <1>2 DEF DecodedLevel
  <2>2. DecodedOffset(address) \in Nat
    BY <1>2, FrameAddressAssumption DEF DecodedOffset
  <2>3. AddressedPlace(address, left) = RunningPlace(left, DecodedOffset(address))
    BY <1>2, <2>1 DEF AddressedPlace
  <2>4. Activation!Addressed(address)
          = [record |-> Activation!Depth, at |-> DecodedOffset(address) + 1]
    BY <1>0, <1>2, <2>1, Zenon DEF Activation!Addressed
  <2> QED
    BY <2>2, <2>3, <2>4, RunningFound
<1>3. CASE IsFrameAddress(address) /\ address < FrameBase
  <2>1. /\ DecodedLevel(address) \in Levels
        /\ DecodedOffset(address) \in 0..(LevelStride - 1)
    BY <1>3, DecodingIsSound
  <2>2. DecodedLevel(address) # RunningFrame /\ DecodedOffset(address) \in Nat
    BY <2>1, FrameAddressAssumption DEF Levels, RunningFrame
  <2>3. AddressedPlace(address, left)
          = LevelPlace(DecodedLevel(address), left, DecodedOffset(address))
    BY <1>3, <2>2 DEF AddressedPlace
  <2>4. Activation!Addressed(address)
          = Activation!Local(DecodedLevel(address), DecodedOffset(address))
    BY <1>0, <1>3, <2>2, Zenon DEF Activation!Addressed
  <2> QED
    BY <2>2, <2>3, <2>4, LocalFound
<1> QED
  BY <1>1, <1>2, <1>3, FrameAddressAssumption

\* The variable the machine of records addresses is at the place the executor finds.
LEMMA VariableFound ==
    ASSUME BalancedInvariant, result # "false", Activation!Fetched = Fetched,
           Fetched.level \in Int, Fetched.operand \in Int, PoppedAddress \in Int,
           Indirect => 1 <= Heights[prog][pc], NEW left, NEW place,
           place = PlaceOf(Fetched.level, Fetched.operand, PoppedAddress, left),
           place.area \in {"memory", "stack"}
    PROVE  Names(Activation!Variable, place)
<1>0. place.area # "nowhere" /\ \A kind : NoPlace(kind).area = "nowhere"
  BY DEF NoPlace
<1>1. CASE Fetched.level >= 2
  <2>0. Fetched.level # 1 /\ Fetched.level # 0 /\ ~(Fetched.level < 0)
    BY <1>1
  <2>1. place = IF Fetched.operand < 0 THEN NoPlace(Silent)
                ELSE LevelPlace(Fetched.level - 1, left, Fetched.operand)
    BY <1>1, <2>0, Zenon DEF PlaceOf
  <2>2. Fetched.operand \in Nat /\ place = LevelPlace(Fetched.level - 1, left, Fetched.operand)
    <3>1. ~(Fetched.operand < 0)
      BY <1>0, <2>1
    <3> QED
      BY <2>1, <3>1
  <2>3. Activation!Variable = Activation!Local(Fetched.level - 1, Fetched.operand)
    BY <1>1, <2>0, Zenon DEF Activation!Variable
  <2> QED
    BY <1>0, <2>2, <2>3, LocalFound
<1>2. CASE Fetched.level = 1
  <2>0. ~(Fetched.level >= 2) /\ Fetched.level # 0 /\ ~(Fetched.level < 0) /\ Indirect
    BY <1>2 DEF Indirect
  <2>1. place = AddressedPlace(PoppedAddress, left)
    BY <1>2, <2>0, Zenon DEF PlaceOf
  <2>2. Activation!AsInteger(Activation!Top(1, 1)) = PoppedAddress
    <3>1. Activation!Top(1, 1) = Operand(1, 1)
      BY <2>0, OperandsAlike
    <3>2. Activation!AsInteger(Operand(1, 1)) = AsInteger(Operand(1, 1))
      BY SameValues
    <3> QED
      BY <2>0, <3>1, <3>2, Zenon DEF PoppedAddress
  <2>3. Activation!Variable = Activation!Addressed(PoppedAddress)
    BY <1>2, <2>0, <2>2, Zenon DEF Activation!Variable
  <2> QED
    BY <1>0, <2>1, <2>3, AddressedFound
<1>3. CASE Fetched.level = 0
  <2>0. ~(Fetched.level >= 2) /\ Fetched.level # 1 /\ ~(Fetched.level < 0)
    BY <1>3
  <2>1. place = MemoryPlace(Fetched.operand)
    BY <1>3, <2>0, Zenon DEF PlaceOf
  <2>2. Activation!Variable = Activation!Global(Fetched.operand)
    BY <1>3, <2>0, Zenon DEF Activation!Variable
  <2> QED
    BY <1>0, <2>1, <2>2, GlobalFound
<1>4. CASE Fetched.level < 0
  <2>0. ~(Fetched.level >= 2) /\ Fetched.level # 1 /\ Fetched.level # 0
    BY <1>4
  <2>1. place = NoPlace("Invalid addressing mode")
    BY <1>4, <2>0, Zenon DEF PlaceOf
  <2> QED
    BY <1>0, <2>1
<1> QED
  BY <1>1, <1>2, <1>3, <1>4

-----------------------------------------------------------------------------
(* Loads and stores, on the records. *)

\* A slot of a frame lies below the running base.
LEMMA SlotsLieBelow ==
    ASSUME BalancedInvariant, result # "false", NEW r \in 2..(callDepth + 1)
    PROVE  /\ Contexts[r].frame.bp \in Nat /\ Contexts[r].frame.slots \in Nat
           /\ Contexts[r].frame.bp + Contexts[r].frame.slots <= Floor
           /\ Floor \in Nat /\ Floor <= Len(stack) /\ stack \in Seq(Value)
<1> DEFINE n == callDepth + 1
<1>1. /\ callDepth \in Nat /\ Contexts \in Seq(Context) /\ Len(Contexts) = n
      /\ FramesApart(Contexts) /\ Floor = Base(Contexts, n) /\ Floor \in Nat
  BY ContextsAreTyped DEF BalancedInvariant, FramesStand, Floor
<1>2. r \in 1..n /\ r # 1 /\ n \in Nat \ {0}
  BY <1>1
<1>3. Contexts[r].frame.bp \in Nat /\ Contexts[r].frame.slots \in Nat
  BY <1>1, <1>2, ContextIsTyped
<1>4. Contexts[r].frame.bp + Contexts[r].frame.slots <= Floor
  BY <1>1, <1>2, FramesLieBelow
<1>5. Floor <= Len(stack) /\ stack \in Seq(Value)
  BY StackKeepsFloor DEF KeepsFloor
<1> QED
  BY <1>1, <1>3, <1>4, <1>5

\* What the executor reads at a place is what the variable holds.
LEMMA ContentsFound ==
    ASSUME BalancedInvariant, result # "false", NEW left, KeepsFloor(left),
           NEW x, NEW place, Names(x, place)
    PROVE  Activation!Contents(x) = ValueAt(place, left)
<1>1. CASE place.area = "memory" /\ x.record = 0 /\ x.at = place.at
  BY <1>1, Zenon DEF Activation!Contents, ValueAt
<1>2. CASE /\ place.area = "stack"
           /\ x.record \in 2..(callDepth + 1)
           /\ x.at \in 1..Contexts[x.record].frame.slots
           /\ place.at = Contexts[x.record].frame.bp + x.at
  <2> DEFINE r == x.record
             held == Contexts[r].frame
  <2>1. /\ callDepth \in Nat /\ Len(Contexts) = callDepth + 1
        /\ Records = Views(Contexts, stack)
    BY ContextsAreTyped, RecordsAreViews
  <2>2. /\ held.bp \in Nat /\ held.slots \in Nat /\ held.bp + held.slots <= Floor
        /\ Floor \in Nat /\ Floor <= Len(stack) /\ stack \in Seq(Value)
    BY <1>2, SlotsLieBelow
  <2>3. r \in 1..Len(Contexts) /\ r # 0
    BY <1>2, <2>1
  <2>4. Records[r].locals = SubSeq(stack, held.bp + 1, held.bp + held.slots)
    <3>1. Records[r] = View(Contexts, stack, r)
      BY <2>1, <2>3 DEF Views
    <3>2. Records[r].locals = LocalsIn(stack, held)
      BY <3>1 DEF View
    <3> QED
      BY <3>2 DEF LocalsIn
  <2>5. /\ x.at \in 1..held.slots /\ place.at = held.bp + x.at
        /\ place.area # "memory"
    BY <1>2
  <2>6. Activation!Contents(x) = Records[r].locals[x.at]
    BY <2>3, Zenon DEF Activation!Contents
  <2>7. ValueAt(place, left) = left[held.bp + x.at]
    BY <2>5, Zenon DEF ValueAt
  <2> HIDE DEF r, held
  <2>8. PICK bp \in Nat, slots \in Nat, floor \in Nat, size \in Nat, at \in Nat :
           /\ bp = held.bp /\ slots = held.slots /\ floor = Floor /\ size = Len(stack)
           /\ at = x.at /\ at \in 1..slots
    <3>1. Len(stack) \in Nat
      BY <2>2, LenProperties
    <3>2. PICK slots \in Nat : slots = held.slots
      BY <2>2
    <3>3. x.at \in 1..slots
      BY <2>5, <3>2, Zenon
    <3>4. PICK at : at = x.at
      OBVIOUS
    <3>5. at \in Nat /\ at \in 1..slots
      BY ONLY slots \in Nat, at = x.at, <3>3, <3>4
    <3> QED
      BY <2>2, <3>1, <3>2, <3>4, <3>5, Zenon
  <2>9. PICK high \in Nat : high = bp + slots
    OBVIOUS
  <2>10. bp <= high /\ high <= Len(stack) /\ at \in 1..(high - bp) /\ bp + at \in 1..floor
    <3>1. bp + slots <= floor /\ floor <= size
      BY <2>2, <2>8, Zenon
    <3>2. at \in 1..slots /\ high = bp + slots /\ Len(stack) = size
      BY <2>8, <2>9
    <3>3. bp \in Nat /\ slots \in Nat /\ floor \in Nat /\ size \in Nat /\ at \in Nat /\ high \in Nat
      OBVIOUS
    <3> QED
      BY ONLY <3>1, <3>2, <3>3
  <2>11. SubSeq(stack, bp + 1, high)[at] = stack[bp + at]
    <3>1. \A i \in 1..(high - bp) : SubSeq(stack, bp + 1, high)[i] = stack[bp + i]
      <4>1. stack \in Seq(Value) /\ bp \in Nat /\ high \in Nat
        BY <2>2
      <4> QED
        BY ONLY <4>1, <2>10, PartOfSequence
    <3> QED
      BY <2>10, <3>1
  <2>12. left[bp + at] = stack[bp + at]
    <3>1. \A i \in 1..floor : left[i] = stack[i]
      BY <2>8 DEF KeepsFloor
    <3> QED
      BY <2>10, <3>1
  <2> QED
    BY <2>4, <2>6, <2>7, <2>8, <2>9, <2>11, <2>12, Zenon
<1> QED
  BY <1>1, <1>2 DEF Names

\* LOD and RLOD push the contents of the same variable.
LEMMA LoadMapped ==
    ASSUME BalancedInvariant, BalancedInvariant', Track, Load
    PROVE  Activation!Read \/ Activation!Abort
<1>1. Executing({"LOD", "RLOD"})
  BY DEF Load
<1>2. /\ Activation!Executing({"LOD", "RLOD"}) /\ Activation!Fetched = Fetched
      /\ InLoop /\ Fetched.opcode \in {"LOD", "RLOD"}
  BY <1>1, ExecutingAlike
<1>3. PICK pops \in {0, 1} : pops = IF Indirect THEN 1 ELSE 0
  OBVIOUS
<1>4. /\ result # "false" /\ pops <= Heights[prog][pc] /\ MachineInvariant
      /\ Heights[prog][pc] \in Nat
  BY <1>2, <1>3, AtBalancedLine, EffectOfInstruction DEF Indirect
<1> DEFINE left  == Below(pops)
           place == PlaceOf(Fetched.level, Fetched.operand, PoppedAddress, left)
           value == ValueAt(place, left)
<1>5. /\ left \in Seq(Value) /\ KeepsFloor(left) /\ Len(stack) >= pops /\ ~Underflow(pops)
  BY <1>3, <1>4, PoppingKeepsFloor, NothingUnderflows
<1>6. Activation!AddressOperands = pops
  BY <1>2, <1>3, Zenon DEF Activation!AddressOperands, Indirect
<1>7. Activation!Rest(pops) = Above(left, Floor)
  BY <1>3, <1>4, OperandsAlike
<1>8. CASE \E kind : Fail(kind, left)
  BY <1>2, <1>8, FailingAborts
<1>9. CASE /\ AddressError = NoError /\ place.error = NoError
           /\ Fetched.opcode = "LOD" => value.type # "none"
           /\ PushAndNext(left, value)
  <2>1. SoundPlace(place, left)
    BY <1>2, <1>3, <1>4, <1>5, <1>9, FoundPlaceIsSound
  <2>2. place.area \in {"memory", "stack"}
    BY <1>9, <2>1 DEF SoundPlace
  <2>3. value \in Value
    <3>1. CASE place.area = "memory"
      BY <1>2, <1>4, <2>1, <3>1, AtInstruction, ElementOfSeq DEF SoundPlace, ValueAt
    <3>2. CASE place.area = "stack"
      BY <1>5, <2>1, <3>2, ElementOfSeq DEF SoundPlace, ValueAt
    <3> QED
      BY <2>2, <3>1, <3>2
  <2>4. Names(Activation!Variable, place)
    <3>1. Fetched.level \in Int /\ Fetched.operand \in Int
      BY <1>2, <1>4, AtInstruction DEF Instruction
    <3>2. PoppedAddress \in Int
      <4>1. Indirect => stack # <<>>
        BY <1>3, <1>5, <1>4, EmptySeq
      <4> QED
        BY <1>9, <4>1, PoppedAddressIsTyped DEF BalancedInvariant, MachineInvariant
    <3>3. Indirect => 1 <= Heights[prog][pc]
      BY <1>3, <1>4
    <3> QED
      BY <1>2, <1>4, <2>2, <3>1, <3>2, <3>3, VariableFound
  <2> HIDE DEF left, place, value
  <2>5. Activation!Contents(Activation!Variable) = value
    BY <1>4, <1>5, <2>4, ContentsFound DEF value
  <2>6. \/ Activation!Abort
        \/ /\ Activation!Step(pc + 1, Activation!With(Append(Above(left, Floor), value)))
           /\ UNCHANGED <<memory, output>>
    BY <1>2, <1>5, <1>9, <2>3, PushMapped
  <2>7. Activation!Contents(Activation!Variable).type = "none" => Fetched.opcode = "RLOD"
    BY <1>2, <1>9, <2>5
  <2> QED
    BY <1>2, <1>6, <1>7, <2>5, <2>6, <2>7, Zenon DEF Activation!Read
<1> QED
  <2>1. CASE Indirect
    BY <1>3, <1>5, <1>8, <1>9, <2>1 DEF Load
  <2>2. CASE ~Indirect
    BY <1>3, <1>5, <1>8, <1>9, <2>2 DEF Load
  <2> QED
    BY <2>1, <2>2

-----------------------------------------------------------------------------
(* A local in its slot. *)

\* A slot of one frame is neither a slot nor an operand of another.
LEMMA SlotIsOfOneFrame ==
    ASSUME NEW C \in Seq(Context), FramesApart(C), C[1].frame = NoFrame,
           NEW n \in Nat \ {0}, Len(C) = n,
           NEW words \in Seq(Value), Base(C, n) <= Len(words),
           NEW r \in 2..n, NEW at \in SlotsOf(C[r].frame), NEW j \in 1..n
    PROVE  /\ at \in 1..Len(words)
           /\ EndIn(C, words, j) \in Nat
           /\ at \notin (Base(C, j) + 1)..EndIn(C, words, j)
           /\ j # r => at \notin SlotsOf(C[j].frame)
<1>1. \A k \in 1..n : /\ Base(C, k) \in Nat /\ C[k].frame.bp \in Nat /\ C[k].frame.slots \in Nat
                      /\ k # 1 => Base(C, k) = C[k].frame.bp + C[k].frame.slots + 13
  BY ContextIsTyped
<1>2. \A k, l \in 2..n : k < l => Base(C, k) <= C[l].frame.bp
  BY DEF FramesApart
<1>3. r \in 1..n /\ r # 1 /\ n \in 1..n
  OBVIOUS
<1>4. PICK bp \in Nat, slots \in Nat : bp = C[r].frame.bp /\ slots = C[r].frame.slots
  BY <1>1, <1>3
<1>5. Base(C, r) = bp + slots + 13
  BY <1>1, <1>3, <1>4
<1>6. at \in Nat /\ bp < at /\ at <= bp + slots
  BY <1>4 DEF SlotsOf
<1>7. PICK size \in Nat : size = Len(words)
  BY LenProperties
<1>8. bp + slots <= Base(C, n) /\ Base(C, n) <= size /\ Base(C, n) \in Nat
  BY <1>1, <1>3, <1>4, <1>7, FramesLieBelow
<1>9. at \in 1..Len(words)
  BY <1>6, <1>7, <1>8
<1>10. EndIn(C, words, j) \in Nat
  BY <1>1, <1>7, SMTT(30) DEF EndIn
<1>11. ASSUME j # n, j < r PROVE EndIn(C, words, j) <= bp
  <2>1. j + 1 \in 1..n /\ j + 1 \in 2..n /\ r \in 2..n /\ (j + 1 = r \/ j + 1 < r)
    BY <1>11
  <2>2. EndIn(C, words, j) = C[j + 1].frame.bp
    BY <1>11 DEF EndIn
  <2>3. CASE j + 1 = r
    BY <1>4, <2>2, <2>3
  <2>4. CASE j + 1 < r
    <3>1. Base(C, j + 1) <= bp
      BY <1>2, <1>4, <2>1, <2>4
    <3>2. PICK b \in Nat, s \in Nat : b = C[j + 1].frame.bp /\ s = C[j + 1].frame.slots
      BY <1>1, <2>1
    <3>3. Base(C, j + 1) = b + s + 13
      BY <1>1, <2>1, <3>2, SMTT(30)
    <3> QED
      BY <2>2, <3>1, <3>2, <3>3, SMTT(30)
  <2> QED
    BY <2>1, <2>3, <2>4
<1>12. at \notin (Base(C, j) + 1)..EndIn(C, words, j)
  <2>1. CASE j < r
    <3>1. j # n
      BY <2>1
    <3>2. PICK end \in Nat : end = EndIn(C, words, j)
      BY <1>10
    <3>3. end <= bp
      BY <1>11, <2>1, <3>1, <3>2
    <3> QED
      BY <1>6, <3>2, <3>3
  <2>2. CASE j = r
    BY <1>5, <1>6, <2>2
  <2>3. CASE j > r
    <3>1. j \in 2..n /\ j # 1
      BY <2>3
    <3>2. Base(C, r) <= C[j].frame.bp
      BY <1>2, <2>3, <3>1
    <3>3. PICK b \in Nat, s \in Nat : b = C[j].frame.bp /\ s = C[j].frame.slots
      BY <1>1
    <3>4. Base(C, j) = b + s + 13
      BY <1>1, <3>1, <3>3
    <3> QED
      BY <1>5, <1>6, <3>2, <3>3, <3>4, SMTT(30)
  <2> QED
    BY <2>1, <2>2, <2>3
<1>13. ASSUME j # r PROVE at \notin SlotsOf(C[j].frame)
  <2>1. CASE j = 1
    <3>1. SlotsOf(C[j].frame) = (0 + 1)..(0 + 0)
      BY <2>1 DEF SlotsOf, NoFrame
    <3> QED
      BY <3>1
  <2>2. CASE j # 1
    <3>1. j \in 2..n
      BY <2>2
    <3>2. PICK b \in Nat, s \in Nat : b = C[j].frame.bp /\ s = C[j].frame.slots
      BY <1>1
    <3>3. SlotsOf(C[j].frame) = (b + 1)..(b + s) /\ Base(C, j) = b + s + 13
      BY <1>1, <2>2, <3>2 DEF SlotsOf
    <3>4. CASE j < r
      <4>1. Base(C, j) <= bp
        BY <1>2, <1>4, <3>1, <3>4
      <4> QED
        BY <1>6, <3>3, <4>1
    <3>5. CASE j > r
      <4>1. Base(C, r) <= b
        BY <1>2, <3>1, <3>2, <3>5
      <4> QED
        BY <1>5, <1>6, <3>3, <4>1
    <3> QED
      BY <1>13, <3>4, <3>5
  <2> QED
    BY <2>1, <2>2
<1> QED
  BY <1>9, <1>10, <1>12, <1>13

\* at is the position of the slot a of frame r.
InSlot(C, n, words, r, a, at) ==
    /\ C \in Seq(Context) /\ FramesApart(C) /\ C[1].frame = NoFrame
    /\ n \in Nat \ {0} /\ Len(C) = n
    /\ words \in Seq(Value) /\ Base(C, n) <= Len(words)
    /\ r \in 2..n /\ a \in 1..C[r].frame.slots
    /\ at = C[r].frame.bp + a

Stored(words, at, value) == [words EXCEPT ![at] = value]

WithLocal(views, r, a, value) == [views EXCEPT ![r].locals[a] = value]

\* Writing a slot of a frame writes that local of its record, and nothing else.
LEMMA StoreInSlot ==
    ASSUME NEW C, NEW n, NEW words, NEW r, NEW a, NEW at, NEW value \in Value,
           InSlot(C, n, words, r, a, at)
    PROVE  Views(C, Stored(words, at, value)) = WithLocal(Views(C, words), r, a, value)
<1>0. /\ C \in Seq(Context) /\ FramesApart(C) /\ C[1].frame = NoFrame
      /\ n \in Nat \ {0} /\ Len(C) = n
      /\ words \in Seq(Value) /\ Base(C, n) <= Len(words)
      /\ r \in 2..n /\ a \in 1..C[r].frame.slots
      /\ at = C[r].frame.bp + a
  BY DEF InSlot
<1> USE <1>0
<1> DEFINE stored == [words EXCEPT ![at] = value]
<1>1. \A k \in 1..n : Base(C, k) \in Nat /\ C[k].frame.bp \in Nat /\ C[k].frame.slots \in Nat
  BY ContextIsTyped
<1>2. r \in 1..n
  OBVIOUS
<1>3. PICK bp \in Nat, slots \in Nat : bp = C[r].frame.bp /\ slots = C[r].frame.slots
  BY <1>1, <1>2
<1>4. a \in 1..slots /\ at = bp + a /\ at \in SlotsOf(C[r].frame)
  BY <1>3, SMTT(30) DEF SlotsOf
<1>5. at \in 1..Len(words)
  BY <1>2, <1>4, SlotIsOfOneFrame
<1>6. /\ stored \in Seq(Value) /\ Len(stored) = Len(words)
      /\ \A i \in 1..Len(words) : stored[i] = IF i = at THEN value ELSE words[i]
  BY <1>5, ExceptSeq
<1>7. \A i : i # at => stored[i] = words[i]
  <2> SUFFICES ASSUME NEW i, i # at PROVE stored[i] = words[i]
    OBVIOUS
  <2>1. CASE i \in DOMAIN words
    BY <2>1
  <2>2. CASE i \notin DOMAIN words
    BY <2>2
  <2> QED
    BY <2>1, <2>2
<1> HIDE DEF stored
<1>8. \A j \in 1..n : EndIn(C, stored, j) = EndIn(C, words, j)
  BY <1>6 DEF EndIn
<1>9. ASSUME NEW j \in 1..n, j # r PROVE View(C, stored, j) = View(C, words, j)
  <2>1. /\ EndIn(C, words, j) \in Nat
        /\ at \notin (Base(C, j) + 1)..EndIn(C, words, j)
        /\ at \notin SlotsOf(C[j].frame)
    BY <1>4, <1>9, SlotIsOfOneFrame
  <2>2. j \in 1..Len(C)
    OBVIOUS
  <2>3. \A i \in (Base(C, j) + 1)..EndIn(C, words, j) : stored[i] = words[i]
    BY <1>7, <2>1
  <2>4. \A i \in SlotsOf(C[j].frame) : stored[i] = words[i]
    BY <1>7, <2>1
  <2> QED
    BY <1>8, <2>1, <2>2, <2>3, <2>4, SameView
<1>10. OperandsIn(C, stored, r) = OperandsIn(C, words, r)
  <2>1. /\ EndIn(C, words, r) \in Nat
        /\ at \notin (Base(C, r) + 1)..EndIn(C, words, r)
    BY <1>2, <1>4, SlotIsOfOneFrame
  <2>2. PICK low \in Nat, high \in Nat : low = Base(C, r) /\ high = EndIn(C, words, r)
    BY <1>1, <1>2, <2>1
  <2>3. Agree(words, stored, low, high)
    BY <1>7, <2>1, <2>2 DEF Agree
  <2>4. SubSeq(stored, low + 1, high) = SubSeq(words, low + 1, high)
    <3>1. low \in Nat /\ high \in Nat
      OBVIOUS
    <3> QED
      BY ONLY <2>3, <3>1, SameParts
  <2>5. /\ OperandsIn(C, stored, r) = SubSeq(stored, Base(C, r) + 1, EndIn(C, stored, r))
        /\ OperandsIn(C, words, r) = SubSeq(words, Base(C, r) + 1, EndIn(C, words, r))
    BY Zenon DEF OperandsIn, EndIn
  <2> QED
    BY <1>2, <1>8, <2>2, <2>4, <2>5, Zenon
<1>11. LocalsIn(stored, C[r].frame) = [LocalsIn(words, C[r].frame) EXCEPT ![a] = value]
  <2>1. PICK size \in Nat : size = Len(words)
    BY LenProperties
  <2>2. PICK high \in Nat : high = bp + slots
    OBVIOUS
  <2>3. bp + slots <= Base(C, n) /\ Base(C, n) <= size /\ Base(C, n) \in Nat
    <3>1. n \in 1..n /\ r # 1
      OBVIOUS
    <3> QED
      BY <1>1, <1>2, <1>3, <2>1, <3>1, FramesLieBelow
  <2>4. bp <= high /\ high <= Len(words) /\ high <= Len(stored) /\ high - bp = slots
    BY <1>6, <2>1, <2>2, <2>3
  <2>5. /\ SubSeq(words, bp + 1, high) \in Seq(Value)
        /\ Len(SubSeq(words, bp + 1, high)) = high - bp
        /\ \A i \in 1..(high - bp) : SubSeq(words, bp + 1, high)[i] = words[bp + i]
    BY <2>4, PartOfSequence
  <2>6. /\ SubSeq(stored, bp + 1, high) \in Seq(Value)
        /\ Len(SubSeq(stored, bp + 1, high)) = high - bp
        /\ \A i \in 1..(high - bp) : SubSeq(stored, bp + 1, high)[i] = stored[bp + i]
    BY <1>6, <2>4, PartOfSequence
  <2>7. PICK old, new : old = SubSeq(words, bp + 1, high) /\ new = SubSeq(stored, bp + 1, high)
    OBVIOUS
  <2>8. /\ old \in Seq(Value) /\ Len(old) = slots /\ new \in Seq(Value) /\ Len(new) = slots
        /\ \A i \in 1..slots : old[i] = words[bp + i] /\ new[i] = stored[bp + i]
    BY <2>4, <2>5, <2>6, <2>7
  <2>9. /\ [old EXCEPT ![a] = value] \in Seq(Value) /\ Len([old EXCEPT ![a] = value]) = slots
        /\ \A i \in 1..slots : [old EXCEPT ![a] = value][i] = IF i = a THEN value ELSE old[i]
    <3>1. a \in 1..Len(old)
      BY <1>4, <2>8
    <3> QED
      BY <2>8, <3>1, ExceptSeq
  <2>10. \A i \in 1..slots : new[i] = [old EXCEPT ![a] = value][i]
    <3> SUFFICES ASSUME NEW i \in 1..slots PROVE new[i] = [old EXCEPT ![a] = value][i]
      OBVIOUS
    <3>1. bp + i \in 1..Len(words) /\ (bp + i = at <=> i = a)
      BY <1>4, <2>1, <2>3
    <3> QED
      BY <1>6, <2>8, <2>9, <3>1
  <2>11. new = [old EXCEPT ![a] = value]
    BY <2>8, <2>9, <2>10, SeqEqual
  <2>12. LocalsIn(words, C[r].frame) = old /\ LocalsIn(stored, C[r].frame) = new
    BY <1>3, <2>2, <2>7 DEF LocalsIn
  <2> QED
    BY <2>11, <2>12
<1>12. View(C, stored, r)
         = [View(C, words, r) EXCEPT !.locals = [View(C, words, r).locals EXCEPT ![a] = value]]
  <2>1. View(C, words, r).locals = LocalsIn(words, C[r].frame)
    BY DEF View
  <2>2. PICK locals : locals = [LocalsIn(words, C[r].frame) EXCEPT ![a] = value]
    OBVIOUS
  <2>3. View(C, stored, r) = [View(C, words, r) EXCEPT !.locals = locals]
    <3>1. PICK level, old, operands, resume, info :
             /\ level = C[r].frame.level /\ old = LocalsIn(words, C[r].frame)
             /\ operands = OperandsIn(C, words, r) /\ resume = ResumeIn(C, r)
             /\ info = ResultIn(C[r].frame)
      OBVIOUS
    <3>2. View(C, stored, r) = [level |-> level, locals |-> locals, operands |-> operands,
                                resume |-> resume, result |-> info]
      BY <1>10, <1>11, <2>2, <3>1, Zenon DEF View
    <3>3. View(C, words, r) = [level |-> level, locals |-> old, operands |-> operands,
                               resume |-> resume, result |-> info]
      BY <3>1, Zenon DEF View
    <3> QED
      BY ONLY <3>2, <3>3
  <2> QED
    BY <2>1, <2>2, <2>3, Zenon
<1> DEFINE views == Views(C, words)
<1>13. views = [j \in 1..n |-> View(C, words, j)] /\ Views(C, stored) = [j \in 1..n |-> View(C, stored, j)]
  BY Zenon DEF Views
<1> HIDE DEF views
<1>14. views[r] = View(C, words, r) /\ DOMAIN views = 1..n
  BY <1>2, <1>13
<1>15. [views EXCEPT ![r].locals[a] = value]
         = [views EXCEPT ![r] = [views[r] EXCEPT !.locals = [views[r].locals EXCEPT ![a] = value]]]
  BY Zenon
<1>16. [views EXCEPT ![r].locals[a] = value] = [views EXCEPT ![r] = View(C, stored, r)]
  BY <1>12, <1>14, <1>15, Zenon
<1>17. Views(C, stored) = [views EXCEPT ![r] = View(C, stored, r)]
  BY <1>2, <1>9, <1>13, <1>14
<1> QED
  BY <1>16, <1>17 DEF views, stored, Stored, WithLocal

-----------------------------------------------------------------------------
(* STO. *)

\* What the invariant says of the contexts and the words.
ContextsStand ==
    /\ Contexts \in Seq(Context) /\ Len(Contexts) = callDepth + 1
    /\ FramesApart(Contexts) /\ Contexts[1].frame = NoFrame
    /\ callDepth + 1 \in Nat \ {0}
    /\ Base(Contexts, callDepth + 1) <= Len(stack)
    /\ Contexts[callDepth + 1] = [frame |-> frame, display |-> display, resume |-> pc]
    /\ \A j \in 1..callDepth : Contexts[j] = suspended[j]
    /\ suspended \in Seq(Context) /\ Len(suspended) = callDepth
    /\ stack \in Seq(Value) /\ Len(stack) \in Nat

\* They follow from the invariant, in a state and in the next one.
LEMMA ContextsStandUp == BalancedInvariant => ContextsStand
<1> SUFFICES ASSUME BalancedInvariant PROVE ContextsStand
  OBVIOUS
<1>1. stack \in Seq(Value) /\ Len(stack) \in Nat
  BY LenProperties DEF BalancedInvariant, MachineInvariant, TypeOK
<1> QED
  BY <1>1, ContextsAreTyped DEF BalancedInvariant, FramesStand, ContextsStand

\* The same in the next state.
LEMMA ContextsStandNext == (BalancedInvariant => ContextsStand)'
BY ContextsStandUp, PTL

\* Storing at the place of a local writes it in its record.
LEMMA StoringMapped ==
    ASSUME BalancedInvariant, BalancedInvariant', Track, InLoop,
           NEW left \in Seq(Value), KeepsFloor(left), NEW value \in Value, NEW x, NEW place,
           Names(x, place), place.area = "stack",
           Continue(pc + 1, [left EXCEPT ![place.at] = value])
    PROVE  /\ x.record # 0
           /\ Activation!Step(pc + 1, [Activation!With(Above(left, Floor))
                                          EXCEPT ![x.record].locals[x.at] = value])
<1>1. /\ pc' = pc + 1 /\ stack' = [left EXCEPT ![place.at] = value]
      /\ UNCHANGED <<prog, frame, display, callDepth, stopped, error, result>>
  BY DEF Continue
<1>2. result # "false" /\ result' # "false"
  BY <1>1 DEF InLoop
<1>3. /\ x.record \in 2..(callDepth + 1)
      /\ x.at \in 1..Contexts[x.record].frame.slots
      /\ place.at = Contexts[x.record].frame.bp + x.at
  BY DEF Names
<1> DEFINE D == Contexts'
           n == callDepth + 1
<1>4. /\ D \in Seq(Context) /\ Len(D) = n /\ n \in Nat \ {0}
      /\ FramesApart(D) /\ D[1].frame = NoFrame
  BY <1>1, ContextsStandNext DEF ContextsStand
<1>5. \A j \in 1..n : D[j].frame = Contexts[j].frame
  BY <1>1, FramesStay
<1>6. Base(D, n) = Floor /\ Floor <= Len(left)
  <2>1. n \in 1..n
    BY <1>4
  <2>2. D[n].frame = Contexts[n].frame
    BY <1>5, <2>1
  <2> QED
    BY <2>2, Zenon DEF Base, Floor, KeepsFloor
<1>7. Views(D, left) = Activation!With(Above(left, Floor))
  BY <1>1, <1>2, ViewsAfter
<1>8. Records' = Views(D, stack')
  BY <1>2, RecordsNext
<1> HIDE DEF D, n
<1>9. PICK r, a, at : r = x.record /\ a = x.at /\ at = place.at
  OBVIOUS
<1>10. r \in 2..n /\ a \in 1..D[r].frame.slots /\ at = D[r].frame.bp + a
  <2>1. r \in 2..n /\ r \in 1..n
    BY <1>3, <1>4, <1>9 DEF n
  <2>2. D[r].frame = Contexts[r].frame
    BY <1>5, <2>1
  <2> QED
    BY <1>3, <1>9, <2>1, <2>2, Zenon
<1>11. Views(D, Stored(left, at, value)) = WithLocal(Views(D, left), r, a, value)
  <2>1. InSlot(D, n, left, r, a, at)
    BY <1>4, <1>6, <1>10, Zenon DEF InSlot
  <2> QED
    BY <2>1, StoreInSlot
<1>12. Records' = [Activation!With(Above(left, Floor)) EXCEPT ![x.record].locals[x.at] = value]
  BY <1>1, <1>7, <1>8, <1>9, <1>11, Zenon DEF Stored, WithLocal
<1>13. (IF stopped /\ result = "running" THEN "stopped" ELSE result)'
        = (IF stopped /\ result = "running" THEN "stopped" ELSE result)
  BY <1>1
<1>14. x.record # 0
  BY <1>3
<1> QED
  BY <1>1, <1>12, <1>13, <1>14, Zenon DEF Activation!Step

\* STO assigns to the same variable: a global, or a local of the record it belongs to.
LEMMA StoreMapped ==
    ASSUME BalancedInvariant, BalancedInvariant', Track, Store
    PROVE  Activation!Assign \/ Activation!Abort
<1>1. Executing({"STO"})
  BY DEF Store
<1>2. /\ Activation!Executing({"STO"}) /\ Activation!Fetched = Fetched
      /\ InLoop /\ Fetched.opcode \in {"STO"}
  BY <1>1, ExecutingAlike
<1>3. PICK pops \in {1, 2} : pops = IF Indirect THEN 2 ELSE 1
  OBVIOUS
<1>4. /\ result # "false" /\ pops <= Heights[prog][pc] /\ MachineInvariant
      /\ Heights[prog][pc] \in Nat
  BY <1>2, <1>3, AtBalancedLine, EffectOfInstruction DEF Indirect
<1> DEFINE left  == Below(pops)
           value == Operand(pops, 1)
           place == PlaceOf(Fetched.level, Fetched.operand, PoppedAddress, left)
<1>5. /\ left \in Seq(Value) /\ KeepsFloor(left) /\ Len(stack) >= pops /\ ~Underflow(pops)
      /\ pops \in 0..Len(stack)
  BY <1>3, <1>4, PoppingKeepsFloor, NothingUnderflows
<1>6. value \in Value
  <2>1. 1 \in 1..pops
    BY <1>3
  <2> QED
    BY <1>2, <1>4, <1>5, <2>1, AtInstruction, PoppedIsTyped
<1>7. Activation!AddressOperands + 1 = pops
  <2>1. Activation!AddressOperands = IF Indirect THEN 1 ELSE 0
    BY <1>2, Zenon DEF Activation!AddressOperands, Indirect
  <2> QED
    BY <1>3, <2>1
<1>8. Activation!Rest(pops) = Above(left, Floor) /\ Activation!Top(pops, 1) = value
  <2>1. 1 \in 1..pops /\ pops \in Nat
    BY <1>3
  <2> QED
    BY <1>4, <2>1, OperandsAlike
<1>9. CASE \E kind, words : Fail(kind, words)
  BY <1>2, <1>9, FailingAborts
<1>10. ASSUME AddressError = NoError, place.area \in {"memory", "stack"}
       PROVE  Names(Activation!Variable, place)
  <2>1. Fetched.level \in Int /\ Fetched.operand \in Int
    BY <1>2, <1>4, AtInstruction DEF Instruction
  <2>2. Indirect => 1 <= Heights[prog][pc]
    BY <1>3, <1>4
  <2>3. PoppedAddress \in Int
    <3>1. Indirect => stack # <<>>
      BY <1>3, <1>5, EmptySeq
    <3> QED
      BY <1>10, <3>1, PoppedAddressIsTyped DEF BalancedInvariant, MachineInvariant
  <2> QED
    BY <1>2, <1>4, <1>10, <2>1, <2>2, <2>3, VariableFound
<1> HIDE DEF left, value, place
<1>11. CASE /\ AddressError = NoError /\ place.area = "memory"
            /\ memory' = [memory EXCEPT ![place.at] = value]
            /\ Continue(pc + 1, left) /\ UNCHANGED output
  <2>1. Names(Activation!Variable, place)
    BY <1>10, <1>11
  <2>2. Activation!Variable.record = 0 /\ Activation!Variable.at = place.at
    BY <1>11, <2>1 DEF Names
  <2>3. Activation!Step(pc + 1, Activation!With(Above(left, Floor)))
    BY <1>2, <1>5, <1>11, GoingOn
  <2> QED
    BY <1>2, <1>7, <1>8, <1>11, <2>2, <2>3, Zenon DEF Activation!Assign
<1>12. CASE /\ AddressError = NoError /\ place.area = "stack"
            /\ Continue(pc + 1, [left EXCEPT ![place.at] = value])
            /\ UNCHANGED <<memory, output>>
  <2>1. Names(Activation!Variable, place)
    BY <1>10, <1>12
  <2>2. PICK x : x = Activation!Variable
    OBVIOUS
  <2>3. /\ x.record # 0
        /\ Activation!Step(pc + 1, [Activation!With(Above(left, Floor))
                                       EXCEPT ![x.record].locals[x.at] = value])
    BY <1>2, <1>5, <1>6, <1>12, <2>1, <2>2, StoringMapped
  <2> QED
    BY <1>2, <1>7, <1>8, <1>12, <2>2, <2>3, Zenon DEF Activation!Assign
<1> QED
  <2>1. CASE Indirect
    BY <1>3, <1>5, <1>9, <1>11, <1>12, <2>1 DEF Store, left, value, place
  <2>2. CASE ~Indirect
    BY <1>3, <1>5, <1>9, <1>11, <1>12, <2>2 DEF Store, left, value, place
  <2> QED
    BY <2>1, <2>2

-----------------------------------------------------------------------------
(* One context more, and one less. *)

\* A sequence given by its last element and the others.
LEMMA OthersAndLast ==
    ASSUME NEW n \in Nat, NEW g, g = [j \in 1..(n + 1) |-> g[j]],
           NEW f, f = [i \in 1..n |-> g[i]]
    PROVE  Append(f, g[n + 1]) = g /\ Len(f) = n
<1> DEFINE S == {g[j] : j \in 1..(n + 1)}
<1>1. f \in Seq(S) /\ Len(f) = n /\ g \in Seq(S) /\ Len(g) = n + 1
  <2>1. \A i \in 1..n : i \in 1..(n + 1)
    OBVIOUS
  <2>2. f \in [1..n -> S] /\ g \in [1..(n + 1) -> S]
    BY <2>1
  <2>3. f \in Seq(S) /\ g \in Seq(S)
    <3> HIDE DEF S
    <3>1. n + 1 \in Nat
      OBVIOUS
    <3>2. \A m \in Nat : [1..m -> S] \subseteq Seq(S)
      BY SeqDef
    <3> QED
      BY <2>2, <3>1, <3>2
  <2>4. DOMAIN f = 1..Len(f) /\ Len(f) \in Nat /\ DOMAIN g = 1..Len(g) /\ Len(g) \in Nat
    BY <2>3
  <2>5. DOMAIN f = 1..n /\ DOMAIN g = 1..(n + 1)
    BY <2>2
  <2> QED
    BY <2>3, <2>4, <2>5
<1>2. g[n + 1] \in S
  <2>1. n + 1 \in 1..(n + 1)
    OBVIOUS
  <2> QED
    BY <2>1
<1> HIDE DEF S
<1>3. PICK last \in S : last = g[n + 1]
  BY <1>2
<1>4. /\ Append(f, last) \in Seq(S) /\ Len(Append(f, last)) = n + 1
      /\ Append(f, last)[n + 1] = last /\ \A i \in 1..n : Append(f, last)[i] = f[i]
  BY <1>1, AppendProperties
<1>5. \A j \in 1..(n + 1) : Append(f, last)[j] = g[j]
  <2>1. \A j \in 1..(n + 1) : j \in 1..n \/ j = n + 1
    OBVIOUS
  <2>2. \A i \in 1..n : f[i] = g[i]
    OBVIOUS
  <2> QED
    BY <1>3, <1>4, <2>1, <2>2
<1>6. Append(f, last) = g
  BY <1>1, <1>4, <1>5, SeqEqual
<1> QED
  BY <1>1, <1>3, <1>6

\* D has one context more than C, its frame right above the words S.
Extends(C, D, S, T, n) ==
    /\ C \in Seq(Context) /\ D \in Seq(Context) /\ S \in Seq(Value)
    /\ n \in Nat \ {0} /\ Len(C) = n /\ Len(D) = n + 1
    /\ FramesApart(C) /\ C[1].frame = NoFrame
    /\ \A j \in 1..n : D[j].frame = C[j].frame
    /\ \A j \in 1..(n - 1) : D[j] = C[j]
    /\ Base(C, n) <= Len(S) /\ D[n + 1].frame.bp = Len(S)
    /\ \A i \in 1..Len(S) : T[i] = S[i]

\* The views of such contexts: one view more, the others as they were.
LEMMA ExtendedViews ==
    ASSUME NEW C, NEW D, NEW S, NEW T, NEW n, Extends(C, D, S, T, n)
    PROVE  /\ Views(D, T) = Append(Views(C, S), View(D, T, n + 1))
           /\ \A j \in 1..n : View(D, T, j) = View(C, S, j)
<1>0. /\ C \in Seq(Context) /\ D \in Seq(Context) /\ S \in Seq(Value)
      /\ n \in Nat \ {0} /\ Len(C) = n /\ Len(D) = n + 1
      /\ FramesApart(C) /\ C[1].frame = NoFrame
      /\ \A j \in 1..n : D[j].frame = C[j].frame
      /\ \A j \in 1..(n - 1) : D[j] = C[j]
      /\ Base(C, n) <= Len(S) /\ D[n + 1].frame.bp = Len(S)
      /\ \A i \in 1..Len(S) : T[i] = S[i]
  BY DEF Extends
<1> USE <1>0
<1>1. \A j \in 1..n : Base(C, j) \in Nat /\ C[j].frame.bp \in Nat /\ C[j].frame.slots \in Nat
  BY ContextIsTyped
<1>2. PICK size \in Nat, top \in Nat : size = Len(S) /\ top = Base(C, n) /\ top <= size
  <2>1. n \in 1..n
    OBVIOUS
  <2> QED
    BY <1>1, <2>1, LenProperties
<1>3. ASSUME NEW j \in 1..n PROVE View(D, T, j) = View(C, S, j)
  <2>1. j \in 1..Len(C) /\ j \in 1..Len(D) /\ (j # 1 => j - 1 \in 1..(n - 1))
    OBVIOUS
  <2>2. j # 1 => D[j - 1].resume = C[j - 1].resume
    BY <2>1
  <2>3. PICK end \in Nat : EndIn(C, S, j) = end /\ EndIn(D, T, j) = end /\ end <= size
    <3>1. CASE j = n
      BY <1>2, <3>1 DEF EndIn
    <3>2. CASE j # n
      <4>1. j + 1 \in 1..n /\ j # n + 1
        BY <3>2
      <4>2. EndIn(C, S, j) = C[j + 1].frame.bp /\ EndIn(D, T, j) = C[j + 1].frame.bp
        BY <3>2, <4>1 DEF EndIn
      <4>3. C[j + 1].frame.bp \in Nat /\ C[j + 1].frame.bp <= top
        BY <1>2, <3>2, FramesLieBelow
      <4> QED
        BY <1>2, <4>2, <4>3
    <3> QED
      BY <3>1, <3>2
  <2>4. \A i \in (Base(C, j) + 1)..end : T[i] = S[i]
    <3>1. \A i \in (Base(C, j) + 1)..end : i \in 1..Len(S)
      BY <1>1, <1>2, <2>3
    <3> QED
      BY <3>1
  <2>5. \A i \in SlotsOf(C[j].frame) : T[i] = S[i]
    <3>1. CASE j = 1
      <4>1. SlotsOf(C[j].frame) = (0 + 1)..(0 + 0)
        BY <3>1 DEF SlotsOf, NoFrame
      <4> QED
        BY <4>1
    <3>2. CASE j # 1
      <4>1. PICK bp \in Nat, slots \in Nat : bp = C[j].frame.bp /\ slots = C[j].frame.slots
        BY <1>1
      <4>2. bp + slots <= top
        BY <1>2, <3>2, <4>1, FramesLieBelow
      <4>3. SlotsOf(C[j].frame) = (bp + 1)..(bp + slots)
        BY <4>1 DEF SlotsOf
      <4>4. \A i \in (bp + 1)..(bp + slots) : i \in 1..Len(S)
        BY <1>2, <4>2
      <4> QED
        BY <4>3, <4>4
    <3> QED
      BY <3>1, <3>2
  <2>6. /\ EndIn(C, S, j) \in Nat /\ EndIn(D, T, j) = EndIn(C, S, j)
        /\ \A i \in (Base(C, j) + 1)..EndIn(C, S, j) : T[i] = S[i]
    BY <2>3, <2>4
  <2>7. C \in Seq(Context) /\ D \in Seq(Context) /\ D[j].frame = C[j].frame
    OBVIOUS
  <2> QED
    BY ONLY <2>1, <2>2, <2>5, <2>6, <2>7, SameView
<1> DEFINE g == Views(D, T)
           f == Views(C, S)
<1>4. g = [j \in 1..(n + 1) |-> View(D, T, j)] /\ f = [j \in 1..n |-> View(C, S, j)]
  BY Zenon DEF Views
<1> HIDE DEF g, f
<1>5. g = [j \in 1..(n + 1) |-> g[j]] /\ g[n + 1] = View(D, T, n + 1)
  <2>1. n + 1 \in 1..(n + 1)
    OBVIOUS
  <2> QED
    BY <1>4, <2>1
<1>6. f = [j \in 1..n |-> g[j]]
  BY <1>3, <1>4
<1>7. Append(f, g[n + 1]) = g /\ Len(f) = n
  BY <1>5, <1>6, OthersAndLast
<1> QED
  BY <1>3, <1>5, <1>7 DEF f, g

-----------------------------------------------------------------------------
(* CAL. *)

\* What is put between two sequences.
LEMMA ConcatMiddle ==
    ASSUME NEW S, NEW s \in Seq(S), NEW t \in Seq(S), NEW u \in Seq(S), NEW k \in 1..Len(t)
    PROVE  (s \o t \o u)[Len(s) + k] = t[k]
<1>1. Len(s) \in Nat /\ Len(t) \in Nat /\ Len(u) \in Nat
  BY LenProperties
<1>2. PICK st \in Seq(S) : st = s \o t /\ Len(st) = Len(s) + Len(t)
  BY ConcatProperties
<1>3. PICK i \in Nat : i = Len(s) + k
  BY <1>1
<1>4. /\ i \in 1..(Len(s) + Len(t)) /\ ~(i <= Len(s)) /\ i - Len(s) = k
      /\ i \in 1..(Len(st) + Len(u)) /\ i <= Len(st)
  BY <1>1, <1>2, <1>3
<1>5. st[i] = t[k]
  BY <1>2, <1>4, ConcatProperties
<1>6. (st \o u)[i] = st[i]
  BY <1>4, ConcatProperties
<1> QED
  BY <1>2, <1>3, <1>5, <1>6

\* The parameters a call binds are those it copies into the slots.
LEMMA SlotsAreBound ==
    ASSUME BalancedInvariant, InLoop, Fetched.opcode = "CAL"
    PROVE  FrameSlots(Calls[Fetched.operand]) = Activation!Bound(Calls[Fetched.operand])
<1> DEFINE info == Calls[Fetched.operand]
<1>1. /\ result # "false" /\ prog \in DOMAIN Library /\ Fetched.operand \in DOMAIN Calls
      /\ IsLayout(info) /\ Pops(Fetched, Calls) <= Heights[prog][pc]
  BY AtBalancedLine DEF MachineInvariant, TypeOK
<1>2. info \in CallInfo /\ HasOffsets(info)
  BY <1>1, LibraryAssumption DEF IsInstructionList, Calls
<1>3. info.parameterSlotCount \in Nat /\ info.parameterSlotCount <= Heights[prog][pc]
  <2>1. Pops(Fetched, Calls) = info.parameterSlotCount
    BY EffectOfInstruction
  <2>2. info.frameSlotCount \in Int
    BY <1>2 DEF CallInfo
  <2> QED
    BY <1>1, <2>1, <2>2 DEF IsLayout
<1> HIDE DEF info
<1>4. PICK count \in Nat, size \in Int : count = info.parameterSlotCount /\ size = info.frameSlotCount
  <2>1. info.frameSlotCount \in Int
    BY <1>2 DEF CallInfo
  <2> QED
    BY <1>3, <2>1
<1>5. \A p \in 1..count : Activation!Top(count, p) = Operand(count, p)
  BY <1>1, <1>3, <1>4, OperandsAlike
<1>6. PICK offsets : offsets = info.parameterOffsets
  OBVIOUS
<1>7. \A p, q \in 1..count : offsets[p] = offsets[q] => p = q
  BY <1>2, <1>4, <1>6, Zenon DEF HasOffsets
<1> DEFINE Given(slot) == {p \in 1..count : offsets[p] = slot - 1}
           Slot(slot)  == IF \E p \in 1..count : offsets[p] = slot - 1
                          THEN Operand(count, CHOOSE p \in 1..count : offsets[p] = slot - 1)
                          ELSE None
           Local(slot) == IF Given(slot) = {} THEN Activation!None
                          ELSE Activation!Top(count, CHOOSE p \in Given(slot) : TRUE)
<1>8. ASSUME NEW slot \in 1..size PROVE Slot(slot) = Local(slot)
  <2>1. CASE \E p \in 1..count : offsets[p] = slot - 1
    <3>1. PICK p \in 1..count : offsets[p] = slot - 1
      BY <2>1
    <3>2. p \in Given(slot) /\ \A q \in Given(slot) : q = p
      BY <1>7, <3>1
    <3>3. Given(slot) # {} /\ (CHOOSE q \in Given(slot) : TRUE) = p
      BY <3>2
    <3>4. (CHOOSE q \in 1..count : offsets[q] = slot - 1) = p
      BY <1>7, <3>1
    <3>5. Slot(slot) = Operand(count, p)
      BY <2>1, <3>4, Zenon
    <3>6. Local(slot) = Activation!Top(count, p)
      BY <3>3, Zenon
    <3> QED
      BY <1>5, <3>5, <3>6
  <2>2. CASE ~\E p \in 1..count : offsets[p] = slot - 1
    <3>1. Given(slot) = {}
      BY <2>2
    <3>2. Slot(slot) = None
      BY <2>2, Zenon
    <3>3. Local(slot) = Activation!None
      BY <3>1, Zenon
    <3> QED
      BY <3>2, <3>3, SameValues
  <2> QED
    BY <2>1, <2>2
<1>9. FrameSlots(info) = [slot \in 1..size |-> Slot(slot)]
  BY <1>4, <1>6, Zenon DEF FrameSlots
<1>10. Activation!Bound(info) = [slot \in 1..size |-> Local(slot)]
  <2>1. Activation!Bound(info) =
          [slot \in 1..info.frameSlotCount |->
             IF {p \in 1..info.parameterSlotCount : info.parameterOffsets[p] = slot - 1} = {}
             THEN Activation!None
             ELSE Activation!Top(info.parameterSlotCount,
                    CHOOSE p \in {q \in 1..info.parameterSlotCount :
                                     info.parameterOffsets[q] = slot - 1} : TRUE)]
    BY DEF Activation!Bound
  <2> QED
    BY <1>4, <1>6, <2>1, ZenonT(30)
<1> HIDE DEF Slot, Local
<1>11. FrameSlots(info) = Activation!Bound(info)
  BY <1>8, <1>9, <1>10
<1> QED
  BY <1>11 DEF info

\* The slots of the new frame hold what the call copied into them.
LEMMA SlotsOfCall ==
    ASSUME BalancedInvariant, InLoop, Fetched.opcode = "CAL",
           CallError(Fetched.operand) = NoError
    PROVE  LET info  == Calls[Fetched.operand]
               kept  == Below(info.parameterSlotCount)
               grown == kept \o FrameSlots(info) \o Linkage(info.lexicalLevel, pc + 1)
           IN  /\ FrameSlots(info) \in Seq(Value)
               /\ Len(FrameSlots(info)) = info.frameSlotCount
               /\ \A k \in 1..info.frameSlotCount : grown[Len(kept) + k] = FrameSlots(info)[k]
<1> DEFINE info == Calls[Fetched.operand]
<1>1. /\ MachineInvariant /\ result # "false" /\ TypeOK /\ stack \in Seq(Value)
      /\ Len(stack) \in Nat
  BY AtBalancedLine, AtInstruction
<1>2. /\ info.lexicalLevel \in Levels /\ info.frameSlotCount \in Nat
      /\ info.parameterSlotCount \in 0..Len(stack)
  BY <1>1, CallIsChecked
<1> HIDE DEF info
<1>3. info.parameterSlotCount \in Nat /\ info.parameterSlotCount <= Heights[prog][pc]
  BY <1>1, <1>2, AtBalancedLine, EffectOfInstruction DEF info
<1>4. PICK kept : kept = Below(info.parameterSlotCount)
  OBVIOUS
<1>5. Value \subseteq WideValue
  BY DEF WideValue
<1>6. kept \in Seq(WideValue)
  <2>1. kept \in Seq(Value)
    BY <1>1, <1>3, <1>4, PoppingKeepsFloor
  <2> QED
    BY <1>5, <2>1, SeqMonotonic
<1>7. FrameSlots(info) \in Seq(Value) /\ Len(FrameSlots(info)) = info.frameSlotCount
  BY <1>1, <1>2, FrameSlotsAreValues
<1>8. PICK slots \in Seq(WideValue) : slots = FrameSlots(info)
  BY <1>5, <1>7, SeqMonotonic
<1>9. PICK linkage \in Seq(WideValue) : linkage = Linkage(info.lexicalLevel, pc + 1)
  <2>1. pc + 1 \in Int
    BY <1>1, FetchedIsTyped
  <2> QED
    BY <1>1, <1>2, <2>1, LinkageIsWide
<1>10. \A k \in 1..Len(slots) : (kept \o slots \o linkage)[Len(kept) + k] = slots[k]
  BY <1>6, ConcatMiddle
<1>11. \A k \in 1..info.frameSlotCount :
          (kept \o FrameSlots(info) \o Linkage(info.lexicalLevel, pc + 1))[Len(kept) + k]
            = FrameSlots(info)[k]
  BY <1>7, <1>8, <1>9, <1>10
<1> QED
  BY <1>4, <1>7, <1>11 DEF info

\* The contexts of a call: the caller waits behind it, the callee is on top.
LEMMA CallContexts ==
    ASSUME BalancedInvariant, BalancedInvariant', Track, result # "false",
           callDepth' = callDepth + 1
    PROVE  LET n == callDepth + 1
               D == Contexts'
           IN  /\ D \in Seq(Context) /\ Len(D) = n + 1
               /\ \A j \in 1..n : D[j].frame = Contexts[j].frame
               /\ \A j \in 1..(n - 1) : D[j] = Contexts[j]
               /\ D[n].resume = pc + 1 /\ D[n + 1].frame = frame'
<1> DEFINE caller == [frame |-> frame, display |-> display, resume |-> pc + 1]
           D == Contexts'
<1>1. PICK n \in Nat \ {0} : n = callDepth + 1 /\ n - 1 = callDepth
  BY ContextsAreTyped
<1>2. /\ suspended \in Seq(Context) /\ Len(suspended) = n - 1
      /\ Contexts[n] = [frame |-> frame, display |-> display, resume |-> pc]
      /\ \A j \in 1..(n - 1) : Contexts[j] = suspended[j]
  BY <1>1, ContextsStandUp DEF ContextsStand
<1>3. /\ D \in Seq(Context) /\ Len(D) = callDepth' + 1
      /\ D[callDepth' + 1] = [frame |-> frame', display |-> display', resume |-> pc']
      /\ \A j \in 1..callDepth' : D[j] = suspended'[j]
  BY ContextsStandNext DEF ContextsStand
<1>4. /\ Len(D) = n + 1 /\ D[n + 1].frame = frame' /\ \A j \in 1..n : D[j] = suspended'[j]
  BY <1>1, <1>3
<1>5. suspended' = Append(suspended, caller)
  <2>1. callDepth' > callDepth
    BY <1>1
  <2> QED
    BY <2>1 DEF Track
<1>6. suspended'[n] = caller /\ \A j \in 1..(n - 1) : suspended'[j] = suspended[j]
  <2>1. PICK top : top = caller
    OBVIOUS
  <2>2. suspended \in Seq(Context \cup {top}) /\ top \in Context \cup {top}
    BY <1>2, SeqMonotonic
  <2>3. /\ Append(suspended, top)[n] = top
        /\ \A j \in 1..(n - 1) : Append(suspended, top)[j] = suspended[j]
    <3>1. n - 1 + 1 = n
      OBVIOUS
    <3> QED
      BY <1>2, <2>2, <3>1, AppendProperties
  <2> QED
    BY <1>5, <2>1, <2>3
<1> HIDE DEF D
<1>7. n \in 1..n /\ \A j \in 1..n : j \in 1..(n - 1) \/ j = n
  OBVIOUS
<1>8. D[n].frame = frame /\ D[n].resume = pc + 1
  BY <1>4, <1>6, <1>7
<1>9. \A j \in 1..(n - 1) : D[j] = Contexts[j]
  BY <1>2, <1>4, <1>6
<1>10. \A j \in 1..n : D[j].frame = Contexts[j].frame
  BY <1>2, <1>7, <1>8, <1>9
<1> QED
  BY <1>1, <1>3, <1>4, <1>8, <1>9, <1>10 DEF D

\* The views before a step, with fewer operands in the running record.
LEMMA ViewsOfKept ==
    ASSUME BalancedInvariant, result # "false", NEW left, KeepsFloor(left)
    PROVE  Views(Contexts, left) = Activation!With(Above(left, Floor))
<1> DEFINE n == callDepth + 1
<1>1. /\ Contexts \in Seq(Context) /\ Len(Contexts) = n /\ n \in Nat \ {0}
      /\ FramesApart(Contexts) /\ Contexts[1].frame = NoFrame
  BY ContextsStandUp DEF ContextsStand
<1>2. \A i \in 1..Base(Contexts, n) : left[i] = stack[i]
  BY DEF KeepsFloor, Floor
<1> HIDE DEF n
<1>3. SameBelow(Contexts, Contexts, stack, left, n)
  BY <1>1, <1>2 DEF SameBelow
<1>4. Views(Contexts, left) = WithOperands(Views(Contexts, stack), n, Above(left, Base(Contexts, n)))
  BY <1>3, StepAboveBase
<1>5. Records = Views(Contexts, stack) /\ Len(Records) = n
  BY RecordsAreViews DEF n
<1>6. Base(Contexts, n) = Floor
  BY Zenon DEF Floor, n
<1> QED
  BY <1>4, <1>5, <1>6, Zenon DEF Activation!With, Activation!Depth, WithOperands

\* The record of a call.
LEMMA NewRecord ==
    ASSUME NEW D \in Seq(Context), NEW T \in Seq(Value), NEW n \in Nat \ {0}, Len(D) = n + 1,
           NEW slots \in Seq(Value), D[n + 1].frame.slots = Len(slots),
           NEW bp \in Nat, D[n + 1].frame.bp = bp,
           Len(T) = bp + Len(slots) + LinkageWords,
           \A k \in 1..Len(slots) : T[bp + k] = slots[k]
    PROVE  View(D, T, n + 1)
             = [level |-> D[n + 1].frame.level, locals |-> slots, operands |-> <<>>,
                resume |-> D[n].resume, result |-> ResultIn(D[n + 1].frame)]
<1>1. PICK size \in Nat, high \in Nat : size = Len(slots) /\ high = bp + size
  <2>1. PICK size \in Nat : size = Len(slots)
    BY LenProperties
  <2> QED
    BY <2>1
<1>2. n + 1 # 1 /\ n + 1 - 1 = n
  OBVIOUS
<1>3. LocalsIn(T, D[n + 1].frame) = slots
  <2>1. /\ SubSeq(T, bp + 1, high) \in Seq(Value)
        /\ Len(SubSeq(T, bp + 1, high)) = high - bp
        /\ \A i \in 1..(high - bp) : SubSeq(T, bp + 1, high)[i] = T[bp + i]
    <3>1. bp <= high /\ high <= Len(T)
      BY <1>1 DEF LinkageWords
    <3> QED
      BY <3>1, PartOfSequence
  <2>2. high - bp = size
    BY <1>1
  <2>3. SubSeq(T, bp + 1, high) = slots
    <3>1. PICK part : part = SubSeq(T, bp + 1, high)
      OBVIOUS
    <3>2. part \in Seq(Value) /\ Len(part) = size /\ \A i \in 1..size : part[i] = slots[i]
      BY <1>1, <2>1, <2>2, <3>1
    <3>3. Len(part) = Len(slots) /\ \A i \in 1..Len(part) : part[i] = slots[i]
      BY <1>1, <3>2
    <3> QED
      BY <3>1, <3>2, <3>3, SeqEqual
  <2> QED
    BY <1>1, <2>3 DEF LocalsIn
<1>4. OperandsIn(D, T, n + 1) = <<>>
  <2>1. Base(D, n + 1) = bp + size + 13
    BY <1>1, <1>2 DEF Base, OperandBase, LinkageWords
  <2>2. Len(T) = bp + size + 13
    BY <1>1 DEF LinkageWords
  <2>3. OperandsIn(D, T, n + 1) = SubSeq(T, bp + size + 13 + 1, bp + size + 13)
    BY <2>1, <2>2, Zenon DEF OperandsIn
  <2>4. PICK low \in Nat : low = bp + size + 13
    OBVIOUS
  <2>5. /\ SubSeq(T, low + 1, low) \in Seq(Value) /\ Len(SubSeq(T, low + 1, low)) = low - low
    <3>1. low <= low /\ low <= Len(T)
      BY <2>2, <2>4
    <3> QED
      BY <3>1, PartOfSequence
  <2>6. SubSeq(T, low + 1, low) = <<>>
    <3>1. low - low = 0
      OBVIOUS
    <3> QED
      BY <2>5, <3>1, EmptySeq
  <2> QED
    BY <2>3, <2>4, <2>6, Zenon
<1>5. ResumeIn(D, n + 1) = D[n].resume
  BY <1>2 DEF ResumeIn
<1> QED
  BY <1>3, <1>4, <1>5, Zenon DEF View

\* CAL takes the parameters off the caller and puts a record on top, bound to them.
LEMMA CallMapped ==
    ASSUME BalancedInvariant, BalancedInvariant', Track, Call
    PROVE  Activation!Enter \/ Activation!Abort
<1> DEFINE target == Fetched.operand
           info   == Calls[target]
           kept   == Below(info.parameterSlotCount)
           grown  == kept \o FrameSlots(info) \o Linkage(info.lexicalLevel, pc + 1)
           count  == info.parameterSlotCount
           callee == Activation!Record(info.lexicalLevel, Activation!Bound(info), pc + 1,
                       [offset |-> info.returnOffset, slots |-> info.returnSlotCount,
                        structured |-> info.structuredReturn])
<1>1. Executing({"CAL"})
  BY DEF Call
<1>2. /\ Activation!Executing({"CAL"}) /\ Activation!Fetched = Fetched /\ Activation!Calls = Calls
      /\ InLoop /\ Fetched.opcode = "CAL"
  BY <1>1, ExecutingAlike
<1>3. CASE \E kind, words : Fail(kind, words)
  BY <1>2, <1>3, FailingAborts
<1>4. CASE /\ CallError(target) = NoError
           /\ pc' = target
           /\ stack' = grown
           /\ frame' = [bp |-> Len(kept), slots |-> info.frameSlotCount,
                        returnOffset |-> info.returnOffset,
                        returnSlots |-> info.returnSlotCount,
                        structured |-> info.structuredReturn,
                        level |-> info.lexicalLevel]
           /\ callDepth' = callDepth + 1
           /\ UNCHANGED <<prog, memory, output, stopped, error, result>>
  <2>1. /\ result # "false" /\ result' # "false" /\ target \in DOMAIN Calls
        /\ IsLayout(info) /\ Pops(Fetched, Calls) <= Heights[prog][pc]
    BY <1>2, <1>4, AtBalancedLine
  <2>2. /\ Len(kept) \in Nat /\ Floor <= Len(kept) /\ info.frameSlotCount \in Nat
        /\ Len(grown) = Len(kept) + info.frameSlotCount + LinkageWords
        /\ \A i \in 1..Len(kept) : grown[i] = stack[i]
    BY <1>2, <1>4, CallGrows
  <2>3. count \in Nat /\ count <= Heights[prog][pc]
    <3>1. Pops(Fetched, Calls) = count
      BY <1>2, EffectOfInstruction
    <3> QED
      BY <2>1, <2>2, <3>1 DEF IsLayout
  <2>4. kept \in Seq(Value) /\ KeepsFloor(kept) /\ count \in 0..Len(stack)
    BY <2>1, <2>3, PoppingKeepsFloor
  <2>5. Activation!Rest(count) = Above(kept, Floor)
    BY <2>1, <2>3, OperandsAlike
  <2>6. /\ FrameSlots(info) \in Seq(Value) /\ Len(FrameSlots(info)) = info.frameSlotCount
        /\ \A k \in 1..info.frameSlotCount : grown[Len(kept) + k] = FrameSlots(info)[k]
    BY <1>2, <1>4, SlotsOfCall
  <2>7. FrameSlots(info) = Activation!Bound(info)
    BY <1>2, SlotsAreBound
  <2>8. \A i \in 1..Len(kept) : kept[i] = stack[i]
    <3>1. stack \in Seq(Value) /\ Len(stack) \in Nat
      BY ContextsStandUp DEF ContextsStand
    <3>2. PICK m \in 0..Len(stack) : m = Len(stack) - count
      BY <2>4, <3>1
    <3>3. kept = SubSeq(stack, 1, m)
      BY <3>2, Zenon DEF Below
    <3> QED
      BY <3>1, <3>3, PrefixProperties
  <2> HIDE DEF info, kept, grown, count, callee
  <2>0. PICK n \in Nat \ {0} : n = callDepth + 1
    BY ContextsAreTyped
  <2>9. PICK D, T : n = callDepth + 1 /\ D = Contexts' /\ T = stack'
    BY <2>0
  <2>10. /\ D \in Seq(Context) /\ Len(D) = n + 1
         /\ \A j \in 1..n : D[j].frame = Contexts[j].frame
         /\ \A j \in 1..(n - 1) : D[j] = Contexts[j]
         /\ D[n].resume = pc + 1 /\ D[n + 1].frame = frame'
    BY <1>4, <2>1, <2>9, CallContexts
  <2>11. /\ Contexts \in Seq(Context) /\ Len(Contexts) = n
         /\ FramesApart(Contexts) /\ Contexts[1].frame = NoFrame
         /\ Base(Contexts, n) = Floor
    BY <2>9, ContextsStandUp DEF ContextsStand, Floor
  <2>12. T \in Seq(Value) /\ T = grown
    BY <1>4, <2>9, ContextsStandNext DEF ContextsStand
  <2>13. /\ D[n + 1].frame.bp = Len(kept) /\ D[n + 1].frame.slots = info.frameSlotCount
         /\ D[n + 1].frame.level = info.lexicalLevel
         /\ ResultIn(D[n + 1].frame)
              = [offset |-> info.returnOffset, slots |-> info.returnSlotCount,
                 structured |-> info.structuredReturn]
    BY <1>4, <2>10 DEF ResultIn
  <2>14. Extends(Contexts, D, kept, T, n)
    BY <2>2, <2>4, <2>8, <2>10, <2>11, <2>12, <2>13 DEF Extends
  <2>15. Views(D, T) = Append(Views(Contexts, kept), View(D, T, n + 1))
    BY <2>14, ExtendedViews
  <2>16. Views(Contexts, kept) = Activation!With(Activation!Rest(count))
    BY <2>1, <2>4, <2>5, ViewsOfKept
  <2>17. View(D, T, n + 1) = callee
    <3>1. PICK slots \in Seq(Value), bp \in Nat : slots = FrameSlots(info) /\ bp = Len(kept)
      BY <2>2, <2>6
    <3>2. /\ D[n + 1].frame.slots = Len(slots) /\ D[n + 1].frame.bp = bp
          /\ Len(T) = bp + Len(slots) + LinkageWords
          /\ \A k \in 1..Len(slots) : T[bp + k] = slots[k]
      BY <2>2, <2>6, <2>12, <2>13, <3>1
    <3>3. View(D, T, n + 1)
            = [level |-> D[n + 1].frame.level, locals |-> slots, operands |-> <<>>,
               resume |-> D[n].resume, result |-> ResultIn(D[n + 1].frame)]
      BY <2>10, <2>12, <3>2, NewRecord
    <3> QED
      BY <2>7, <2>10, <2>13, <3>1, <3>3, Zenon DEF callee, Activation!Record
  <2>18. Records' = Append(Activation!With(Activation!Rest(count)), callee)
    <3>1. Records' = Views(D, T)
      BY <2>1, <2>9, RecordsNext
    <3> QED
      BY <2>15, <2>16, <2>17, <3>1, Zenon
  <2>19. (IF stopped /\ result = "running" THEN "stopped" ELSE result)'
           = (IF stopped /\ result = "running" THEN "stopped" ELSE result)
    BY <1>4
  <2>20. Activation!Step(target, Append(Activation!With(Activation!Rest(count)), callee))
    BY <1>4, <2>18, <2>19, Zenon DEF Activation!Step
  <2> QED
    BY <1>2, <1>4, <2>1, <2>20, Zenon DEF Activation!Enter, info, count, callee
<1> QED
  BY <1>3, <1>4 DEF Call

-----------------------------------------------------------------------------
(* RET. *)

\* What is put on top of words is put on top of those above a floor.
LEMMA PuttingMoreOn ==
    ASSUME NEW S, NEW words \in Seq(S), NEW more \in Seq(S), NEW floor \in Nat,
           floor <= Len(words)
    PROVE  Above(words \o more, floor) = Above(words, floor) \o more
<1>1. PICK size \in Nat, count \in Nat : size = Len(words) /\ count = Len(more)
  BY LenProperties
<1>2. PICK longer : longer = words \o more
  OBVIOUS
<1>3. /\ longer \in Seq(S) /\ Len(longer) = size + count
      /\ \A i \in 1..(size + count) :
            longer[i] = IF i <= size THEN words[i] ELSE more[i - size]
  BY <1>1, <1>2, ConcatProperties
<1>4. PICK operands : operands = Above(words, floor)
  OBVIOUS
<1>5. /\ operands \in Seq(S) /\ Len(operands) = size - floor
      /\ \A i \in 1..(size - floor) : operands[i] = words[floor + i]
  BY <1>1, <1>4, PartOfSequence DEF Above
<1>6. PICK left : left = Above(longer, floor)
  OBVIOUS
<1>7. /\ left \in Seq(S) /\ Len(left) = size + count - floor
      /\ \A i \in 1..(size + count - floor) : left[i] = longer[floor + i]
  <2>1. size + count \in Nat /\ floor <= size + count /\ size + count <= Len(longer)
    BY <1>1, <1>3
  <2>2. PICK total \in Nat : total = size + count
    OBVIOUS
  <2>3. /\ SubSeq(longer, floor + 1, total) \in Seq(S)
        /\ Len(SubSeq(longer, floor + 1, total)) = total - floor
        /\ \A i \in 1..(total - floor) : SubSeq(longer, floor + 1, total)[i] = longer[floor + i]
    BY <1>3, <2>1, <2>2, PartOfSequence
  <2>4. left = SubSeq(longer, floor + 1, total)
    BY <1>3, <1>6, <2>2, Zenon DEF Above
  <2> QED
    BY <2>2, <2>3, <2>4
<1>8. PICK right : right = operands \o more
  OBVIOUS
<1>9. PICK rest \in Nat : rest = size - floor
  <2>1. floor <= size
    BY <1>1
  <2>2. size - floor \in Nat
    BY <2>1
  <2> QED
    BY <2>2
<1>10. /\ right \in Seq(S) /\ Len(right) = rest + count
       /\ \A i \in 1..(rest + count) :
             right[i] = IF i <= rest THEN operands[i] ELSE more[i - rest]
  <2>1. operands \in Seq(S) /\ more \in Seq(S) /\ Len(operands) = rest /\ Len(more) = count
    BY <1>1, <1>5, <1>9
  <2> QED
    BY <1>8, <2>1, ConcatProperties
<1>11. \A i \in 1..(rest + count) : left[i] = right[i]
  <2> SUFFICES ASSUME NEW i \in 1..(rest + count) PROVE left[i] = right[i]
    OBVIOUS
  <2>1. i \in 1..(size + count - floor) /\ floor + i \in 1..(size + count)
    BY <1>1, <1>9
  <2>2. left[i] = longer[floor + i]
    BY <1>7, <2>1
  <2>3. CASE i <= rest
    <3>1. floor + i <= size /\ i \in 1..(size - floor)
      BY <1>9, <2>3
    <3> QED
      BY <1>3, <1>5, <1>10, <2>1, <2>2, <2>3, <3>1
  <2>4. CASE ~(i <= rest)
    <3>1. ~(floor + i <= size) /\ floor + i - size = i - rest
      BY <1>9, <2>4
    <3>2. longer[floor + i] = more[floor + i - size]
      BY <1>3, <2>1, <3>1, SMTT(30)
    <3>3. right[i] = more[i - rest]
      BY <1>10, <2>4
    <3> QED
      BY <2>2, <3>1, <3>2, <3>3
  <2> QED
    BY <2>3, <2>4
<1>12. Len(left) = Len(right) /\ Len(left) = rest + count
  BY <1>1, <1>7, <1>9, <1>10
<1>13. left = right
  BY <1>7, <1>10, <1>11, <1>12, SeqEqual
<1> QED
  BY <1>2, <1>4, <1>6, <1>8, <1>13

\* A part of a part of a sequence.
LEMMA PartOfPart ==
    ASSUME NEW S, NEW words \in Seq(S), NEW low \in Nat, NEW size \in Nat,
           low + size <= Len(words),
           NEW from \in Nat, NEW count \in Nat, from + count <= size
    PROVE  LET part == SubSeq(words, low + 1, low + size)
               inner == SubSeq(part, from + 1, from + count)
           IN  /\ inner = SubSeq(words, low + from + 1, low + from + count)
               /\ inner \in Seq(S) /\ Len(inner) = count
<1>1. PICK high \in Nat, begin \in Nat, end \in Nat, stop \in Nat, total \in Nat :
         /\ high = low + size /\ begin = low + from /\ end = low + from + count
         /\ stop = from + count /\ total = Len(words)
  <2>1. Len(words) \in Nat
    BY LenProperties
  <2>2. low + size \in Nat /\ low + from \in Nat /\ low + from + count \in Nat /\ from + count \in Nat
    OBVIOUS
  <2> QED
    BY <2>1, <2>2
<1>2. PICK part : part = SubSeq(words, low + 1, high)
  OBVIOUS
<1>3. /\ part \in Seq(S) /\ Len(part) = size
      /\ \A i \in 1..size : part[i] = words[low + i]
  <2>1. low <= high /\ high <= Len(words) /\ high - low = size
    BY <1>1
  <2> QED
    BY <1>2, <2>1, PartOfSequence
<1>4. PICK inner, other : inner = SubSeq(part, from + 1, stop) /\ other = SubSeq(words, begin + 1, end)
  OBVIOUS
<1>5. /\ inner \in Seq(S) /\ Len(inner) = count
      /\ \A i \in 1..count : inner[i] = part[from + i]
  <2>1. from <= stop /\ stop <= Len(part) /\ stop - from = count
    BY <1>1, <1>3
  <2> QED
    BY <1>3, <1>4, <2>1, PartOfSequence
<1>6. /\ other \in Seq(S) /\ Len(other) = count
      /\ \A i \in 1..count : other[i] = words[begin + i]
  <2>1. begin <= end /\ end <= Len(words) /\ end - begin = count
    BY <1>1
  <2> QED
    BY <1>4, <2>1, PartOfSequence
<1>7. \A i \in 1..count : inner[i] = other[i]
  <2> SUFFICES ASSUME NEW i \in 1..count PROVE inner[i] = other[i]
    OBVIOUS
  <2>1. from + i \in 1..size /\ low + (from + i) = begin + i
    BY <1>1
  <2> QED
    BY <1>3, <1>5, <1>6, <2>1
<1>8. inner = other
  <2>1. Len(inner) = Len(other) /\ \A i \in 1..Len(inner) : inner[i] = other[i]
    BY <1>5, <1>6, <1>7
  <2> QED
    BY <1>5, <1>6, <2>1, SeqEqual
<1> QED
  BY <1>1, <1>2, <1>4, <1>5, <1>8

\* The last record goes, and the one below it has more operands.
Resumed(records, n, more) ==
    [i \in 1..n |->
        IF i < n THEN records[i] ELSE [records[i] EXCEPT !.operands = @ \o more]]

\* The views of the contexts without the last one, over the words below its
\* frame with more words on top.
LEMMA ReturnedViews ==
    ASSUME NEW C, NEW D, NEW kept, NEW S, NEW n, Extends(D, C, kept, S, n),
           NEW more \in Seq(Value)
    PROVE  Views(D, kept \o more) = Resumed(Views(C, S), n, more)
<1>1. /\ D \in Seq(Context) /\ C \in Seq(Context) /\ kept \in Seq(Value)
      /\ n \in Nat \ {0} /\ Len(D) = n /\ Len(C) = n + 1
      /\ FramesApart(D) /\ D[1].frame = NoFrame
      /\ Base(D, n) <= Len(kept)
  BY DEF Extends
<1>2. n \in 1..n /\ n \in 1..Len(D)
  BY <1>1
<1>3. PICK base \in Nat : base = Base(D, n) /\ base <= Len(kept)
  BY <1>1, <1>2, ContextIsTyped
<1>4. PICK T : T = kept \o more
  OBVIOUS
<1>5. \A i \in 1..base : T[i] = kept[i]
  <2>1. PICK size \in Nat : size = Len(kept)
    BY <1>1, LenProperties
  <2>2. PICK count \in Nat : count = Len(more)
    BY LenProperties
  <2>3. \A i \in 1..base : i \in 1..size /\ i \in 1..(size + count) /\ i <= size
    BY <1>3, <2>1
  <2> QED
    BY <1>1, <1>4, <2>1, <2>2, <2>3, ConcatProperties
<1>6. Views(D, T) = WithOperands(Views(D, kept), n, Above(T, base))
  <2>1. SameBelow(D, D, kept, T, n)
    BY <1>1, <1>3, <1>5 DEF SameBelow
  <2> QED
    BY <1>3, <2>1, StepAboveBase
<1>7. Above(T, base) = Above(kept, base) \o more
  BY <1>1, <1>3, <1>4, PuttingMoreOn
<1>8. \A j \in 1..n : View(C, S, j) = View(D, kept, j)
  BY <1>1, ExtendedViews
<1> DEFINE views == Views(D, kept)
           old   == Views(C, S)
<1>9. views = [j \in 1..n |-> View(D, kept, j)] /\ old = [j \in 1..(n + 1) |-> View(C, S, j)]
  BY <1>1, Zenon DEF Views
<1>10. View(D, kept, n).operands = Above(kept, base)
  <2>1. View(D, kept, n).operands = OperandsIn(D, kept, n)
    BY DEF View
  <2> QED
    BY <1>1, <1>3, <2>1, Zenon DEF OperandsIn, Above
<1> HIDE DEF views, old
<1>11. \A j \in 1..n : old[j] = views[j]
  <2>1. \A j \in 1..n : j \in 1..(n + 1)
    BY <1>1
  <2> QED
    BY <1>8, <1>9, <2>1
<1>12. views[n] = View(D, kept, n) /\ DOMAIN views = 1..n
  BY <1>2, <1>9
<1>13. PICK record : record = [views[n] EXCEPT !.operands = Above(T, base)]
  OBVIOUS
<1>14. [old[n] EXCEPT !.operands = @ \o more] = record
  BY <1>2, <1>7, <1>10, <1>11, <1>12, <1>13, Zenon
<1>15. WithOperands(views, n, Above(T, base)) = [views EXCEPT ![n] = record]
  BY <1>13, Zenon DEF WithOperands
<1>16. Resumed(old, n, more) = [i \in 1..n |-> IF i < n THEN old[i] ELSE record]
  <2>1. \A i \in 1..n : i < n \/ i = n
    BY <1>1
  <2>2. \A i \in 1..n : (IF i < n THEN old[i] ELSE [old[i] EXCEPT !.operands = @ \o more])
                           = (IF i < n THEN old[i] ELSE record)
    BY <1>14, <2>1, Zenon
  <2> QED
    BY <2>2, Zenon DEF Resumed
<1>17. [views EXCEPT ![n] = record] = [i \in 1..n |-> IF i < n THEN old[i] ELSE record]
  <2>1. [views EXCEPT ![n] = record] = [i \in 1..n |-> IF i = n THEN record ELSE views[i]]
    BY <1>9
  <2>2. \A i \in 1..n : (IF i = n THEN record ELSE views[i]) = (IF i < n THEN old[i] ELSE record)
    BY <1>1, <1>11
  <2> QED
    BY <2>1, <2>2
<1> QED
  BY <1>4, <1>6, <1>15, <1>16, <1>17, Zenon DEF views, old

\* The contexts of a return: those of the calls below, as they were.
LEMMA ReturnContexts ==
    ASSUME BalancedInvariant, BalancedInvariant', Return, Track, callDepth > 0,
           ReturnError = NoError
    PROVE  LET D == Contexts'
           IN  /\ D \in Seq(Context) /\ Len(D) = callDepth
               /\ \A j \in 1..callDepth : D[j] = Contexts[j]
<1>1. PICK caller : caller = Contexts[callDepth]
  OBVIOUS
<1>2. /\ frame' = caller.frame /\ display' = caller.display /\ pc' = caller.resume
      /\ callDepth' = callDepth - 1
  BY <1>1, ReturnFindsCaller DEF BalancedInvariant
<1>4. PICK n \in Nat \ {0} : n = callDepth
  BY ContextsAreTyped
<1>5. /\ suspended \in Seq(Context) /\ Len(suspended) = n
      /\ \A j \in 1..n : Contexts[j] = suspended[j]
  BY <1>4, ContextsStandUp DEF ContextsStand
<1>6. caller \in Context /\ caller = suspended[n]
  BY <1>1, <1>4, AtRunningFrame
<1>7. /\ suspended' \in Seq(Context) /\ Len(suspended') = n - 1
      /\ \A j \in 1..(n - 1) : suspended'[j] = suspended[j]
  <2>1. suspended' = SubSeq(suspended, 1, n - 1)
    BY <1>2, <1>4, <1>5 DEF Track
  <2>2. n - 1 \in 0..Len(suspended)
    BY <1>5
  <2> QED
    BY <1>5, <2>1, <2>2, PrefixProperties
<1>8. PICK D : D = Contexts'
  OBVIOUS
<1>9. D = Append(suspended', caller)
  <2>1. caller = [frame |-> caller.frame, display |-> caller.display, resume |-> caller.resume]
    BY <1>6 DEF Context
  <2> QED
    BY <1>2, <1>8, <2>1 DEF Contexts
<1>10. /\ D \in Seq(Context) /\ Len(D) = n - 1 + 1
       /\ D[n - 1 + 1] = caller /\ \A j \in 1..(n - 1) : D[j] = suspended'[j]
  BY <1>6, <1>7, <1>9, AppendProperties
<1>11. n - 1 + 1 = n /\ \A j \in 1..n : j \in 1..(n - 1) \/ j = n
  OBVIOUS
<1>12. Len(D) = n /\ \A j \in 1..n : D[j] = Contexts[j]
  BY <1>5, <1>6, <1>7, <1>10, <1>11
<1> QED
  BY <1>4, <1>8, <1>10, <1>12

\* The running record of a subprogram, and the result it would return.
LEMMA RunningRecord ==
    ASSUME BalancedInvariant, callDepth > 0, result # "false"
    PROVE  /\ Activation!Depth = callDepth + 1
           /\ Activation!Running.locals = SubSeq(stack, frame.bp + 1, frame.bp + frame.slots)
           /\ Activation!Running.resume = Contexts[callDepth].resume
           /\ Activation!Running.result
                = [offset |-> frame.returnOffset, slots |-> frame.returnSlots,
                   structured |-> frame.structured]
<1>1. /\ callDepth \in Nat /\ Len(Contexts) = callDepth + 1
      /\ Records = Views(Contexts, stack) /\ Len(Records) = callDepth + 1
  BY ContextsAreTyped, RecordsAreViews
<1>2. callDepth + 1 \in 1..Len(Contexts) /\ callDepth + 1 # 1 /\ callDepth + 1 - 1 = callDepth
  BY <1>1
<1>3. Views(Contexts, stack)[callDepth + 1] = View(Contexts, stack, callDepth + 1)
  BY <1>2 DEF Views
<1>4. Contexts[callDepth + 1].frame = frame
  BY AtRunningFrame
<1>5. Activation!Running = View(Contexts, stack, callDepth + 1) /\ Activation!Depth = callDepth + 1
  BY <1>1, <1>3, Zenon DEF Activation!Running, Activation!Depth
<1>6. /\ View(Contexts, stack, callDepth + 1).locals = LocalsIn(stack, frame)
      /\ View(Contexts, stack, callDepth + 1).resume = ResumeIn(Contexts, callDepth + 1)
      /\ View(Contexts, stack, callDepth + 1).result = ResultIn(frame)
  BY <1>4 DEF View
<1>7. ResumeIn(Contexts, callDepth + 1) = Contexts[callDepth].resume
  <2>1. PICK n, m, C : n = callDepth + 1 /\ m = callDepth /\ C = Contexts
    OBVIOUS
  <2>2. n # 1 /\ n - 1 = m
    BY <1>1, <2>1
  <2>3. ResumeIn(C, n) = C[n - 1].resume
    BY <2>2, Zenon DEF ResumeIn
  <2> QED
    BY <2>1, <2>2, <2>3, Zenon
<1> QED
  BY <1>5, <1>6, <1>7, Zenon DEF LocalsIn, ResultIn

\* The result in the record is what RET copies down the stack.
LEMMA ResultIsReturned ==
    ASSUME BalancedInvariant, callDepth > 0, result # "false"
    PROVE  /\ Activation!ResultOf(Activation!Running) = ReturnedSlots
           /\ ReturnedSlots \in Seq(Value)
           /\ ReturnsValue => Len(ReturnedSlots) = frame.returnSlots
           /\ ~ReturnsValue => ReturnedSlots = <<>>
<1>1. PICK running : running = Activation!Running
  OBVIOUS
<1>2. /\ running.locals = SubSeq(stack, frame.bp + 1, frame.bp + frame.slots)
      /\ running.result.offset = frame.returnOffset
      /\ running.result.slots = frame.returnSlots
  BY <1>1, RunningRecord
<1>3. CASE ~ReturnsValue
  <2>1. ~(running.result.offset >= 0 /\ running.result.slots > 0)
    BY <1>2, <1>3 DEF ReturnsValue
  <2>2. ReturnedSlots = <<>>
    BY <1>3 DEF ReturnedSlots
  <2>3. Activation!ResultOf(running) = <<>>
    BY <2>1, Zenon DEF Activation!ResultOf
  <2>4. <<>> \in Seq(Value)
    BY EmptySeq
  <2> QED
    BY <1>1, <1>3, <2>2, <2>3, <2>4
<1>4. CASE ReturnsValue
  <2>1. PICK low \in Nat, size \in Nat, from \in Nat, count \in Nat :
           /\ low = frame.bp /\ size = frame.slots
           /\ from = frame.returnOffset /\ count = frame.returnSlots
           /\ from + count <= size /\ count > 0
    <3>1. frame.bp \in Nat /\ frame.slots \in Nat
      BY ContextsAreTyped
    <3>2. /\ frame.returnOffset \in Nat /\ frame.returnSlots \in Nat
          /\ frame.returnOffset + frame.returnSlots <= frame.slots
      BY <1>4, AtRunningFrame DEF ReturnsValue
    <3> QED
      BY <1>4, <3>1, <3>2 DEF ReturnsValue
  <2>2. stack \in Seq(Value) /\ low + size <= Len(stack)
    <3>1. PICK floor \in Nat : floor = Floor /\ floor = frame.bp + frame.slots + 13
      BY ContextsAreTyped
    <3>2. stack \in Seq(Value) /\ Floor <= Len(stack) /\ Len(stack) \in Nat
      BY ContextsStandUp DEF ContextsStand, Floor
    <3> QED
      BY <2>1, <3>1, <3>2
  <2>3. PICK part : part = SubSeq(stack, low + 1, low + size)
    OBVIOUS
  <2>4. PICK inner : inner = SubSeq(part, from + 1, from + count)
    OBVIOUS
  <2>5. /\ inner = SubSeq(stack, low + from + 1, low + from + count)
        /\ inner \in Seq(Value) /\ Len(inner) = count
    <3>1. from + count <= size
      BY <2>1
    <3>2. PICK words \in Seq(Value) : words = stack /\ low + size <= Len(words)
      BY <2>2
    <3>3. LET whole == SubSeq(words, low + 1, low + size)
              within == SubSeq(whole, from + 1, from + count)
          IN  /\ within = SubSeq(words, low + from + 1, low + from + count)
              /\ within \in Seq(Value) /\ Len(within) = count
      BY ONLY words \in Seq(Value), low \in Nat, size \in Nat, from \in Nat, count \in
         Nat,
              <3>1, <3>2, PartOfPart
    <3> QED
      BY <2>3, <2>4, <3>2, <3>3, Zenon
  <2>6. ReturnedSlots = inner
    BY <1>4, <2>1, <2>5, Zenon DEF ReturnedSlots
  <2>7. Activation!ResultOf(running) = inner
    <3>1. running.result.offset >= 0 /\ running.result.slots > 0
      BY <1>2, <2>1
    <3>2. running.locals = part
      BY <1>2, <2>1, <2>3
    <3> QED
      BY <1>2, <2>1, <2>4, <3>1, <3>2, Zenon DEF Activation!ResultOf
  <2> QED
    BY <1>1, <1>4, <2>1, <2>5, <2>6, <2>7
<1> QED
  BY <1>3, <1>4

\* At a RET of a subprogram its record has no operands.
LEMMA NothingLeft ==
    ASSUME BalancedInvariant, InLoop, Fetched.opcode = "RET"
    PROVE  Activation!Operands = <<>> /\ Len(stack) = Floor
<1>1. Heights[prog][pc] = 0 /\ result # "false"
  BY AtBalancedLine DEF InLoop
<1>2. PICK floor \in Nat : floor = Floor
  BY ContextsAreTyped
<1>3. Len(stack) = floor
  <2>1. Len(stack) = floor + 0
    BY <1>1, <1>2, AtLine
  <2> QED
    BY <2>1
<1>4. SubSeq(stack, floor + 1, floor) = <<>>
  <2>1. stack \in Seq(Value) /\ floor <= floor /\ floor <= Len(stack)
    BY <1>3, ContextsStandUp DEF ContextsStand
  <2>2. /\ SubSeq(stack, floor + 1, floor) \in Seq(Value)
        /\ Len(SubSeq(stack, floor + 1, floor)) = floor - floor
    BY <2>1, PartOfSequence
  <2>3. floor - floor = 0
    OBVIOUS
  <2> QED
    BY <2>2, <2>3, EmptySeq
<1>5. Activation!Operands = Above(stack, Floor)
  BY <1>1, RunningOperands
<1> QED
  BY <1>2, <1>3, <1>4, <1>5, Zenon DEF Above

\* The records after a return.
LEMMA ReturnedRecords ==
    ASSUME BalancedInvariant, BalancedInvariant', Return, Track, callDepth > 0,
           ReturnError = NoError, result # "false", result' # "false"
    PROVE  Records' = Resumed(Records, callDepth, ReturnedSlots)
<1>1. PICK D, T : D = Contexts' /\ T = stack'
  OBVIOUS
<1>2. PICK n \in Nat \ {0} : n = callDepth
  BY ContextsAreTyped
<1>3. D \in Seq(Context) /\ Len(D) = n /\ \A j \in 1..n : D[j] = Contexts[j]
  BY <1>1, <1>2, ReturnContexts
<1>4. T = SubSeq(stack, 1, frame.bp) \o ReturnedSlots /\ callDepth' + 1 = n
  <2>1. stack' = SubSeq(stack, 1, frame.bp) \o ReturnedSlots /\ callDepth' = callDepth - 1
    BY ReturnFindsCaller DEF BalancedInvariant
  <2> QED
    BY <1>1, <1>2, <2>1
<1>5. FramesApart(D) /\ D[1].frame = NoFrame
  BY <1>1, ContextsStandNext DEF ContextsStand
<1>6. /\ Contexts \in Seq(Context) /\ Len(Contexts) = n + 1 /\ FramesApart(Contexts)
      /\ Contexts[n + 1].frame = frame
      /\ stack \in Seq(Value)
  BY <1>2, ContextsStandUp DEF ContextsStand
<1>7. PICK bp \in Nat : bp = frame.bp /\ bp <= Len(stack)
  <2>1. PICK bp \in Nat, slots \in Nat : bp = frame.bp /\ slots = frame.slots
    BY ContextsAreTyped
  <2>2. PICK floor \in Nat : floor = Floor /\ floor = frame.bp + frame.slots + 13
    BY ContextsAreTyped
  <2>3. Floor <= Len(stack) /\ Len(stack) \in Nat
    BY ContextsStandUp DEF ContextsStand, Floor
  <2> QED
    BY <2>1, <2>2, <2>3
<1>8. PICK kept : kept = SubSeq(stack, 1, bp)
  OBVIOUS
<1>9. kept \in Seq(Value) /\ Len(kept) = bp /\ \A i \in 1..bp : kept[i] = stack[i]
  <2>1. bp \in 0..Len(stack)
    <3>1. Len(stack) \in Nat
      BY ContextsStandUp DEF ContextsStand
    <3> QED
      BY <1>7, <3>1
  <2> QED
    BY <1>6, <1>8, <2>1, PrefixProperties
<1>10. Base(D, n) <= bp
  <2>1. CASE n = 1
    BY <2>1 DEF Base
  <2>2. CASE n # 1
    <3>1. n \in 2..(n + 1) /\ n + 1 \in 2..(n + 1) /\ n < n + 1 /\ n \in 1..n
      BY <2>2
    <3>2. Base(Contexts, n) <= Contexts[n + 1].frame.bp
      BY <1>6, <3>1 DEF FramesApart
    <3>3. Base(D, n) = Base(Contexts, n)
      BY <1>3, <3>1, Zenon DEF Base
    <3> QED
      BY <1>6, <1>7, <3>2, <3>3
  <2> QED
    BY <2>1, <2>2
<1>11. Extends(D, Contexts, kept, stack, n)
  <2>1. \A j \in 1..(n - 1) : j \in 1..n
    OBVIOUS
  <2>2. \A j \in 1..n : Contexts[j].frame = D[j].frame
    BY <1>3
  <2>3. \A j \in 1..(n - 1) : Contexts[j] = D[j]
    BY <1>3, <2>1
  <2>4. \A i \in 1..Len(kept) : stack[i] = kept[i]
    BY <1>9
  <2> HIDE DEF Contexts
  <2> QED
    BY <1>3, <1>5, <1>6, <1>7, <1>9, <1>10, <2>2, <2>3, <2>4 DEF Extends
<1>12. PICK more \in Seq(Value) : more = ReturnedSlots
  BY ResultIsReturned
<1>13. Views(D, kept \o more) = Resumed(Views(Contexts, stack), n, more)
  BY <1>11, ReturnedViews
<1>14. Records' = Views(D, T) /\ Records = Views(Contexts, stack)
  BY <1>1, RecordsAreViews, RecordsNext
<1>15. T = kept \o more
  BY <1>4, <1>7, <1>8, <1>12, Zenon
<1> QED
  BY <1>2, <1>12, <1>13, <1>14, <1>15, Zenon

\* RET takes the record away and hands its result to the record below.
LEMMA ReturnMapped ==
    ASSUME BalancedInvariant, BalancedInvariant', Track, Return
    PROVE  Activation!Exit \/ Activation!Stop \/ Activation!Abort
<1>1. Executing({"RET"})
  BY DEF Return
<1>2. /\ Activation!Executing({"RET"}) /\ InLoop /\ Fetched.opcode = "RET"
      /\ result = "running" /\ callDepth \in Nat
  BY <1>1, ExecutingAlike, ContextsAreTyped DEF InLoop
<1>3. CASE callDepth = 0
  BY <1>3, StopMapped
<1>4. CASE callDepth > 0 /\ ReturnError # NoError
  <2>1. callDepth # 0
    BY <1>2, <1>4
  <2>2. Fail(ReturnError, stack)
    BY <1>4, <2>1, Zenon DEF Return
  <2> QED
    BY <1>2, <2>2, FailingAborts
<1>5. CASE callDepth > 0 /\ ReturnError = NoError
  <2>1. /\ pc' = Contexts[callDepth].resume
        /\ UNCHANGED <<prog, memory, output, stopped, error, result>>
    BY <1>5, ReturnFindsCaller DEF BalancedInvariant
  <2>2. /\ Activation!Depth = callDepth + 1 /\ Activation!Depth > 1
        /\ Activation!Depth - 1 = callDepth
        /\ Activation!Running.resume = Contexts[callDepth].resume
        /\ Activation!Running.result.structured = frame.structured
    <3>1. PICK depth : depth = Activation!Depth
      OBVIOUS
    <3>2. /\ depth = callDepth + 1
          /\ Activation!Running.resume = Contexts[callDepth].resume
          /\ Activation!Running.result.structured = frame.structured
      BY <1>2, <1>5, <3>1, RunningRecord
    <3>3. depth > 1 /\ depth - 1 = callDepth
      BY <1>2, <1>5, <3>2
    <3> QED
      BY <3>1, <3>2, <3>3
  <2>3. Activation!Operands = <<>>
    BY <1>2, NothingLeft
  <2>4. Activation!ResultOf(Activation!Running) = ReturnedSlots
    BY <1>2, <1>5, ResultIsReturned
  <2>5. ~frame.structured => \A i \in DOMAIN ReturnedSlots : ReturnedSlots[i].type # "none"
    <3>1. CASE ReturnsValue
      <4>1. ReturnedSlots \in Seq(Value) /\ Len(ReturnedSlots) = frame.returnSlots
        BY <1>2, <1>5, <3>1, ResultIsReturned
      <4>2. DOMAIN ReturnedSlots = 1..frame.returnSlots
        BY <4>1, LenProperties
      <4>3. ~frame.structured => ~(\E i \in 1..frame.returnSlots : ReturnedSlots[i].type = "none")
        BY <1>5, <3>1 DEF ReturnError, NoError
      <4> QED
        BY <4>2, <4>3
    <3>2. CASE ~ReturnsValue
      <4>1. ReturnedSlots = <<>>
        BY <1>2, <1>5, <3>2, ResultIsReturned
      <4>2. DOMAIN <<>> = {}
        OBVIOUS
      <4> QED
        BY <4>1, <4>2
    <3> QED
      BY <3>1, <3>2
  <2>6. Records' = Resumed(Records, callDepth, ReturnedSlots)
    BY <1>2, <1>5, <2>1, ReturnedRecords
  <2>7. (IF stopped /\ result = "running" THEN "stopped" ELSE result)'
           = (IF stopped /\ result = "running" THEN "stopped" ELSE result)
    BY <2>1
  <2>8. Activation!Step(Activation!Running.resume,
                        Resumed(Records, callDepth, ReturnedSlots))
    BY <2>1, <2>2, <2>6, <2>7, Zenon DEF Activation!Step
  <2>9. [i \in 1..(Activation!Depth - 1) |->
            IF i < Activation!Depth - 1 THEN Records[i]
            ELSE [Records[i] EXCEPT !.operands = @ \o Activation!ResultOf(Activation!Running)]]
          = Resumed(Records, callDepth, ReturnedSlots)
    BY <2>2, <2>4, Zenon DEF Resumed
  <2> QED
    BY <1>2, <2>1, <2>2, <2>3, <2>4, <2>5, <2>8, <2>9, Zenon DEF Activation!Exit
<1> QED
  BY <1>2, <1>3, <1>4, <1>5

-----------------------------------------------------------------------------
(* Every step. *)

\* Every step of the executor is one of the machine of records, or stutters.
LEMMA StepMapped ==
    ASSUME BalancedInvariant, BalancedInvariant', [TrackedNext]_TrackedVars
    PROVE  [Activation!Next]_(Activation!vars)
<1>1. ASSUME Next, Track PROVE Activation!Next \/ UNCHANGED Activation!vars
  <2>1. CASE Int_ \/ Literal \/ Load \/ Store \/ Jump \/ JumpIfZero
    BY <1>1, <2>1, IntMapped, LiteralMapped, LoadMapped, StoreMapped, JumpMapped,
       JumpIfZeroMapped, Zenon DEF Activation!Next
  <2>2. CASE Call \/ Return
    BY <1>1, <2>2, CallMapped, ReturnMapped, Zenon DEF Activation!Next
  <2>3. CASE Negate \/ Calculate \/ Compare \/ ConvertToReal \/ ConvertToChar
    <3>1. /\ {OPR_NEG} \in SUBSET ValueCodes
          /\ ArithmeticCodes \in SUBSET ValueCodes
          /\ ComparisonCodes \in SUBSET ValueCodes
          /\ {OPR_TO_REAL} \in SUBSET ValueCodes
          /\ {OPR_TO_CHAR} \in SUBSET ValueCodes
      BY DEF ValueCodes, UnaryCodes
    <3>2. PICK codes \in SUBSET ValueCodes : Operate(codes)
      BY <2>3, <3>1 DEF Negate, Calculate, Compare, ConvertToReal, ConvertToChar
    <3>3. Activation!Evaluate \/ Activation!Abort
      BY <1>1, <3>2, OperateMapped
    <3> QED
      BY <3>3, Zenon DEF Activation!Next
  <2>4. CASE Write \/ ReportRange \/ Discard \/ Leave
    BY <1>1, <2>4, WriteMapped, ReportRangeMapped, DiscardMapped, LeaveMapped, Zenon
       DEF Activation!Next
  <2>5. ~InvalidOperation
    BY NoInvalidOperation
  <2>6. CASE Finished
    <3>1. UNCHANGED vars
      BY <2>6 DEF Finished
    <3>2. callDepth' = callDepth /\ callDepth \in Nat
      BY <3>1, ContextsAreTyped DEF vars
    <3>3. UNCHANGED <<vars, suspended>>
      BY <1>1, <3>1, <3>2 DEF Track
    <3> QED
      BY <3>3, StandingMapped
  <2> QED
    BY <1>1, <2>1, <2>2, <2>3, <2>4, <2>5, <2>6, Zenon DEF Next, Instructions
<1>2. CASE UNCHANGED TrackedVars
  <2>1. UNCHANGED <<vars, suspended>>
    BY <1>2 DEF TrackedVars
  <2> QED
    BY <2>1, StandingMapped
<1> QED
  BY <1>1, <1>2, Zenon DEF TrackedNext

\* In every state of a run of balanced code the stack has the height its line was
\* found to have, and the contexts of the calls stand in it one above the other.
THEOREM BalanceHolds == TrackedSpec => []BalancedInvariant
BY InvariantIsInductive, PTL DEF TrackedSpec

\* Balanced code runs on the shared stack as it would run with an activation record
\* for every call: locals and pending operands of suspended calls are out of reach,
\* enclosing variables are found through any nesting, and a return resumes the
\* caller where and as the call left it.
THEOREM SharedStackImplementsRecords == TrackedSpec => ImplementsActivations
<1>1. BalancedInvariant /\ BalancedInvariant' /\ [TrackedNext]_TrackedVars
        => [Activation!Next]_(Activation!vars)
  BY StepMapped
<1> QED
  BY <1>1, InitMapped, InvariantIsInductive, PTL
     DEF TrackedSpec, ImplementsActivations, Activation!Spec
==============================================================================
