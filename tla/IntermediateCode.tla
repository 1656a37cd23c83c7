--------------------------- MODULE IntermediateCode ---------------------------
(***************************************************************************)
(* What code generator and executor share: the tagged values of the        *)
(* runtime (runtime_value.c), and the instruction list handed from one to  *)
(* the other (intermediate_code.h): the code, indexed from 0 as the        *)
(* program counter is, and the call metadata of the subprograms, keyed by  *)
(* their entry.                                                            *)
(*                                                                         *)
(* A value is a record [type, v]:                                          *)
(*   "integer"  v is an integer of Arion's 32-bit range IntMin..IntMax     *)
(*   "boolean"  v is 0 or 1                                                *)
(*   "char"     v is the character's code 0..255                           *)
(*   "real"     v is <<n, d>>, the number n/d: the rounding of a double is *)
(*              abstracted, a real is the exact fraction                   *)
(*   "string"   v is the sequence of its character codes                   *)
(*   "none"     the value of a cell nothing was stored in                  *)
(***************************************************************************)
EXTENDS Integers, Sequences

CONSTANT IntMax               \* ARION_INT_MAX

ASSUME IntRangeAssumption == IntMax \in Nat \ {0}

IntMin == -IntMax - 1         \* ARION_INT_MIN

Integer(n) == [type |-> "integer", v |-> n]
Real(q)    == [type |-> "real",    v |-> q]
Boolean(b) == [type |-> "boolean", v |-> IF b THEN 1 ELSE 0]
Char(c)    == [type |-> "char",    v |-> c]
String(s)  == [type |-> "string",  v |-> s]
None       == [type |-> "none",    v |-> 0]

Fraction == Int \X (Nat \ {0})

IntegerValue == [type : {"integer"}, v : IntMin..IntMax]

Value == IntegerValue
           \cup [type : {"real"},    v : Fraction]
           \cup [type : {"boolean"}, v : {0, 1}]
           \cup [type : {"char"},    v : 0..255]
           \cup [type : {"string"},  v : Seq(0..255)]
           \cup {None}

Magnitude(n) == IF n < 0 THEN -n ELSE n

(***************************************************************************)
(* C's integer division: the quotient is rounded towards zero.             *)
(***************************************************************************)
TruncDiv(n, d) ==
    LET quotient == Magnitude(n) \div Magnitude(d)
    IN  IF (n < 0) = (d < 0) THEN quotient ELSE -quotient

IsNumeric(x) == x.type \in {"integer", "real", "boolean", "char"}

IsZero(x) ==
    CASE x.type = "real"   -> x.v[1] = 0
      [] x.type = "string" -> x.v = <<>>
      [] x.type = "none"   -> TRUE
      [] OTHER             -> x.v = 0

\* The two views the operations take of a numeric value.
AsFraction(x) == IF x.type = "real" THEN x.v ELSE <<x.v, 1>>
AsInteger(x)  == IF x.type = "real" THEN TruncDiv(x.v[1], x.v[2]) ELSE x.v

-----------------------------------------------------------------------------
(* Instructions and call metadata. *)

Opcodes == {"INT", "LIT", "LOD", "RLOD", "STO", "CAL", "JMP", "JPC", "OPR", "RET"}

\* The operands of OPR.
OPR_NEG         == 1
OPR_ADD         == 2
OPR_SUB         == 3
OPR_MUL         == 4
OPR_DIV         == 5
OPR_MOD         == 6
OPR_EQL         == 7
OPR_NEQ         == 8
OPR_LSS         == 9
OPR_GEQ         == 10
OPR_GTR         == 11
OPR_LEQ         == 12
OPR_WRT         == 13
OPR_WRTLN       == 14
OPR_RDIV        == 15
OPR_TO_REAL     == 16
OPR_INDEX_ERROR == 17
OPR_RANGE_ERROR == 18
OPR_TO_CHAR     == 19
OPR_POP         == 20

\* The number in the source is taken as it is written: it may be too large.
LiteralValue == Value \cup [type : {"integer"}, v : Int]

Instruction ==
    [opcode : Opcodes, level : Int, operand : Int, literal : LiteralValue]

\* instructionCreate and instructionCreateLiteral.
Create(opcode, level, operand) ==
    [opcode |-> opcode, level |-> level, operand |-> operand, literal |-> None]
CreateLiteral(value) ==
    [opcode |-> "LIT", level |-> 0, operand |-> 0, literal |-> value]

(***************************************************************************)
(* RuntimeCallInfo: what CAL needs to know of a subprogram.  parameter     *)
(* offsets are the frame slots the actual parameters, pushed in order, go  *)
(* to; a function's result is returnSlotCount slots from returnOffset.     *)
(***************************************************************************)
CallInfo ==
    [lexicalLevel : Int, frameSlotCount : Int,
     parameterSlotCount : Int, parameterOffsets : Seq(Int),
     returnOffset : Int, returnSlotCount : Int, structuredReturn : BOOLEAN]

\* As many parameter offsets as are counted are there, each parameter's its own.
HasOffsets(info) ==
    /\ info.parameterSlotCount <= Len(info.parameterOffsets)
    /\ \A p, q \in 1..info.parameterSlotCount :
          info.parameterOffsets[p] = info.parameterOffsets[q] => p = q

IsInstructionList(list) ==
    /\ list.code \in Seq(Instruction)
    /\ \A target \in DOMAIN list.calls :
          /\ list.calls[target] \in CallInfo
          /\ HasOffsets(list.calls[target])
=============================================================================
