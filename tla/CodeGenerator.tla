----------------------------- MODULE CodeGenerator -----------------------------
(***************************************************************************)
(* The code generator (intermediate_code_generator.c): from a decorated    *)
(* tree and the symbol tables to an instruction list.                      *)
(*                                                                         *)
(* `g` is the generator's context: the tables, the tree, and what it reads *)
(* from them again and again.  An operator gives the code of one node.     *)
(* Within such a piece of code the operand of JMP and JPC is the distance  *)
(* to the target, and that of CAL is the entry of the subprogram called,   *)
(* so that pieces are put together by \o; Patched makes them line numbers, *)
(* as the patching in C does.  Where C reports an error and emits nothing  *)
(* more, the code has a Refused instruction.                               *)
(***************************************************************************)
EXTENDS TreeDecorator, InstructionLists

CONSTANT MaxParameterSlots    \* IC_MAX_CALL_PARAM_SLOTS

ReservedCells == 3            \* IC_RESERVED_RUNTIME_CELLS
TempCount     == 3            \* IC_COMPILER_TEMP_COUNT
CaseSelector  == 0
CheckValue    == 1
ForNext       == 2

\* The same function; TLC evaluates it once for every argument.
Tabulated(f) == f @@ <<>>

Refused == <<Create("refused", 0, 0)>>

IsRefused(code) == \E k \in DOMAIN code : code[k].opcode = "refused"

\* The distance from a jump in front of the code to what follows the code.
Past(code) == Len(code) + 1

\* compilerTempAddress: the cells behind the global variables.
Temp(g, k) == ReservedCells + g.dataSize + k

\* nodeSymbolIndex: a node without a mark is looked up, now that only the global
\* scope is open.
NodeSymbolIndex(g, node) ==
    IF node.tab # Unresolved THEN node.tab ELSE SymLookup(g.sym, node.name)

-----------------------------------------------------------------------------
(***************************************************************************)
(* Declarations found again in the tree.                                   *)
(***************************************************************************)
IsSubprogramNode(node) == node.kind \in {"procedure", "function"}

RECURSIVE AllDeclarations(_)

\* Every declaration, in the order the searches meet them.
AllDeclarations(declarations) ==
    FlattenSeq([k \in DOMAIN declarations |->
        <<declarations[k]>> \o IF IsSubprogramNode(declarations[k])
                               THEN AllDeclarations(declarations[k].declarations) ELSE <<>>])

\* The variables of subprograms, which have a slot in a frame.
LocalVariables(table) ==
    {i \in DOMAIN table.tab : table.tab[i].obj = "variable" /\ table.tab[i].lev # 0}

ContextOf(table, program) ==
    [sym          |-> table,
     root         |-> program,
     declarations |-> AllDeclarations(program.declarations),
     dataSize     |-> GlobalDataSize(table),
     offsets      |-> Tabulated([i \in LocalVariables(table) |->
                                    SymFrameOffsetForTabIndex(table, i)])]

\* findSubprogramNode: the first declaration with this index or with this name.
FindSubprogramNode(g, i) ==
    SelectSeq(g.declarations,
              LAMBDA node : /\ IsSubprogramNode(node)
                            /\ node.tab = i \/ node.name = g.sym.tab[i].identifier)

\* findConstValueNode.
FindConstNode(g, i) ==
    SelectSeq(g.declarations,
              LAMBDA node : node.kind = "const" /\ node.tab = i)

-----------------------------------------------------------------------------
(***************************************************************************)
(* Variables and types.                                                    *)
(***************************************************************************)
IsVariable(g, i) == i # NoIndex /\ g.sym.tab[i].obj = "variable"

\* A global variable, or a slot an address can name.
HasPlace(g, i) ==
    /\ IsVariable(g, i)
    /\ g.sym.tab[i].lev # 0 => g.offsets[i] \in 0..LevelStride - 1

\* directVariableReference: the level and the operand of LOD and STO.
DirectReference(g, i) ==
    IF g.sym.tab[i].lev = 0
    THEN [level |-> 0, operand |-> ReservedCells + g.sym.tab[i].adr]
    ELSE [level |-> g.sym.tab[i].lev + 1, operand |-> g.offsets[i]]

LoadFrom(at) == LOD(at.level, at.operand)
StoreInto(at) == STO(at.level, at.operand)

LoadOf(g, i) == IF HasPlace(g, i) THEN <<LoadFrom(DirectReference(g, i))>> ELSE Refused

StoreTo(g, i) == IF HasPlace(g, i) THEN <<StoreInto(DirectReference(g, i))>> ELSE Refused

\* intermediateCodeRuntimeAddressForTabIndex.
RuntimeAddress(g, i) ==
    IF g.sym.tab[i].lev = 0 THEN ReservedCells + g.sym.tab[i].adr
    ELSE FrameAddress(g.sym.tab[i].lev, g.offsets[i])

InvalidType == [type |-> "invalid", ref |-> NoIndex]

TypeOfEntry(g, i) ==
    IF i = NoIndex THEN InvalidType ELSE [type |-> g.sym.tab[i].type, ref |-> g.sym.tab[i].ref]

\* The elements of an array reached by nodeTypeRef.
ElementType(g, at) ==
    IF at.type = "array" /\ at.ref # NoIndex THEN ElementOf(g.sym, at) ELSE InvalidType

ReturnTypeRef(g, i) ==
    IF i = NoIndex THEN InvalidType ELSE TypeOfEntry(g, FunctionReturnTabIndex(g.sym, i))

RECURSIVE NodeTypeRef(_, _)

\* nodeTypeRef: the type of an access comes from the tables, of an operation from its mark.
NodeTypeRef(g, node) ==
    CASE node.kind = "name"    -> TypeOfEntry(g, NodeSymbolIndex(g, node))
      [] node.kind = "field"   -> TypeOfEntry(g, node.tab)
      [] node.kind = "element" ->
           FoldLeft(LAMBDA at, index : ElementType(g, at), NodeTypeRef(g, node.base),
                    node.indexes)
      [] node.kind = "apply"   -> ReturnTypeRef(g, NodeSymbolIndex(g, node))
      [] OTHER -> [type |-> node.typed, ref |-> NoIndex]

-----------------------------------------------------------------------------
(***************************************************************************)
(* Addresses and checks.                                                   *)
(***************************************************************************)
\* generateBoundsCheck and generateRuntimeRangeCheck: the operand is kept in a cell,
\* and reported if it is not between low and high.
Check(g, low, high, report) ==
    LET value == LOD(0, Temp(g, CheckValue))
    IN  <<STO(0, Temp(g, CheckValue)),
          value, LIT(low), OPR(OPR_GEQ), JPC(6),
          value, LIT(high), OPR(OPR_LEQ), JPC(2), JMP(5),
          value, LIT(low), LIT(high), OPR(report)>>

\* CodeFor is the code of any expression or statement; it is defined below them.
RECURSIVE CodeFor(_, _), AddressCode(_, _)

\* Mutant of IndexCode: the index is not counted from the lower bound.
IndexCodeFromZero(g, array, index) ==
    CodeFor(g, index)
      \o Check(g, array.low, array.high, OPR_INDEX_ERROR)
      \o <<LOD(0, Temp(g, CheckValue)), LIT(array.elsz), OPR(OPR_MUL), OPR(OPR_ADD)>>

\* The offset of an element, added to the address below it.
IndexCode(g, array, index) ==
    CodeFor(g, index)
      \o Check(g, array.low, array.high, OPR_INDEX_ERROR)
      \o <<LOD(0, Temp(g, CheckValue)), LIT(array.low), OPR(OPR_SUB),
           LIT(array.elsz), OPR(OPR_MUL), OPR(OPR_ADD)>>

\* The address an element is added to, its type, and the code that computes it.
Enter(g, at, index) ==
    IF at.type # "array" \/ at.ref = NoIndex
    THEN [at EXCEPT !.type = "invalid", !.code = Refused]
    ELSE [type |-> g.sym.atab[at.ref].etyp, ref |-> g.sym.atab[at.ref].eref,
          code |-> at.code \o IndexCode(g, g.sym.atab[at.ref], index)]

ElementAddressCode(g, node) ==
    FoldLeft(LAMBDA at, index : Enter(g, at, index),
             [code |-> AddressCode(g, node.base)] @@ NodeTypeRef(g, node.base),
             node.indexes).code

EntryAddressCode(g, i) == IF HasPlace(g, i) THEN <<LIT(RuntimeAddress(g, i))>> ELSE Refused

\* generateAddress.
AddressCode(g, node) ==
    CASE node.kind = "name" -> EntryAddressCode(g, NodeSymbolIndex(g, node))
      [] node.kind = "field" ->
           IF node.tab = Unresolved THEN Refused
           ELSE AddressCode(g, node.base) \o <<LIT(g.sym.tab[node.tab].adr), OPR(OPR_ADD)>>
      [] node.kind = "element" -> ElementAddressCode(g, node)
      [] OTHER -> Refused

\* The address of a slot of a structured value.
SlotAddressCode(g, node, offset) ==
    AddressCode(g, node) \o IF offset > 0 THEN <<LIT(offset), OPR(OPR_ADD)>> ELSE <<>>

RangeOfElements(g, at) ==
    IF at.type = "array" /\ at.ref # NoIndex THEN g.sym.atab[at.ref].range ELSE NoRange

RangeOfEntry(g, i) == IF i = NoIndex THEN NoRange ELSE g.sym.tab[i].range

\* rangeForTarget: the range of an element is the array's, else the entry's.
RangeOfTarget(g, target) ==
    CASE target.kind = "element" ->
           RangeOfElements(g, FoldLeft(LAMBDA at, index : ElementType(g, at),
                                       NodeTypeRef(g, target.base), Front(target.indexes)))
      [] target.kind = "name" -> RangeOfEntry(g, NodeSymbolIndex(g, target))
      [] OTHER                -> RangeOfEntry(g, target.tab)

\* emitValueGuardsForType: what a value goes through on its way into a variable.
GuardCode(g, targetType, sourceType, range) ==
    (IF range # NoRange
     THEN Check(g, range.low, range.high, OPR_RANGE_ERROR) \o <<LOD(0, Temp(g, CheckValue))>>
     ELSE <<>>)
      \o IF targetType = "real" /\ sourceType = "integer" THEN <<OPR(OPR_TO_REAL)>> ELSE <<>>

\* emitValueGuardsForTabIndex.
EntryGuardCode(g, i, sourceType) ==
    GuardCode(g, g.sym.tab[i].type, sourceType, g.sym.tab[i].range)

-----------------------------------------------------------------------------
(***************************************************************************)
(* Calls.                                                                  *)
(***************************************************************************)
\* emitStructuredArgument: the slots of the actual, in their order.
StructuredArgumentCode(g, actual, formal) ==
    IF actual.kind = "apply" THEN CodeFor(g, actual)
    ELSE FlattenSeq([k \in 1..Slots(g.sym, formal) |->
                        SlotAddressCode(g, actual, k - 1) \o <<RLOD(1, 0)>>])

ArgumentCode(g, actual, formal) ==
    IF g.sym.tab[formal].type \in {"array", "record"}
    THEN StructuredArgumentCode(g, actual, formal)
    ELSE CodeFor(g, actual) \o EntryGuardCode(g, formal, actual.typed)

ArgumentsCode(g, formals, arguments) ==
    IF Len(formals) # Len(arguments) \/ NoIndex \in Range(formals) THEN Refused
    ELSE FlattenSeq([k \in DOMAIN arguments |-> ArgumentCode(g, arguments[k], formals[k])])

CallOfDeclared(g, i, declarations, arguments) ==
    IF declarations = <<>> THEN Refused
    ELSE ArgumentsCode(g, declarations[1].formals, arguments) \o <<CAL(i)>>

\* emitCallArguments and emitCall.
CallCode(g, i, arguments) == CallOfDeclared(g, i, FindSubprogramNode(g, i), arguments)

ApplyCodeOf(g, i, arguments) ==
    IF i = NoIndex THEN Refused
    ELSE IF g.sym.tab[i].obj # "function" THEN Refused
    ELSE CallCode(g, i, arguments)

\* generateFunctionCall.
ApplyCode(g, node) == ApplyCodeOf(g, NodeSymbolIndex(g, node), node.arguments)

\* Mutant of ReturnSlots: a structured result counts as one slot.
OneReturnSlot(g, i) == IF g.sym.tab[i].obj = "function" THEN 1 ELSE 0

\* functionReturnSlotCount: what a function leaves when it is called as a statement.
ReturnSlots(g, i) ==
    IF g.sym.tab[i].obj # "function" THEN 0
    ELSE Slots(g.sym, FunctionReturnTabIndex(g.sym, i))

\* generateWriteCall.
WriteCode(g, node) ==
    LET newline   == node.name = "writeln"
        count     == Len(node.arguments)
        Write(k)  == CodeFor(g, node.arguments[k])
                       \o <<OPR(IF newline /\ k = count THEN OPR_WRTLN ELSE OPR_WRT)>>
    IN  IF count = 0 /\ newline THEN <<CreateLiteral(String(<<>>)), OPR(OPR_WRTLN)>>
        ELSE FlattenSeq([k \in 1..count |-> Write(k)])

CallStatementOf(g, i, arguments) ==
    IF ~IsSubprogram(g.sym, i) THEN Refused
    ELSE CallCode(g, i, arguments) \o [k \in 1..ReturnSlots(g, i) |-> OPR(OPR_POP)]

\* generateCallStatement.
CallStatementCode(g, node) ==
    CASE node.name \in {"read", "readln"}   -> Refused
      [] node.name \in {"write", "writeln"} -> WriteCode(g, node)
      [] OTHER -> CallStatementOf(g, NodeSymbolIndex(g, node), node.arguments)

-----------------------------------------------------------------------------
(***************************************************************************)
(* Expressions.                                                            *)
(***************************************************************************)
DeclaredCode(g, declarations) ==
    IF declarations = <<>> THEN Refused ELSE CodeFor(g, declarations[1].value)

\* emitConstantLoad: the value of a real or of a string is in the declaration.
ConstantCode(g, i) ==
    LET entry == g.sym.tab[i]
    IN  CASE entry.type = "integer" -> <<LIT(entry.adr)>>
          [] entry.type = "boolean" -> <<CreateLiteral(Boolean(entry.adr # 0))>>
          [] entry.type = "char"    -> <<CreateLiteral(Char(entry.adr))>>
          [] entry.type \in {"real", "string"} -> DeclaredCode(g, FindConstNode(g, i))
          [] OTHER -> Refused

\* emitIdentifierLoad.
EntryCode(g, i) == IF Is(g.sym, i, "constant") THEN ConstantCode(g, i) ELSE LoadOf(g, i)

NameCode(g, node) == EntryCode(g, NodeSymbolIndex(g, node))

OperationOf ==
    [plus |-> OPR_ADD, minus |-> OPR_SUB, times |-> OPR_MUL, idiv |-> OPR_DIV,
     rdiv |-> OPR_RDIV, imod |-> OPR_MOD, eql |-> OPR_EQL, neq |-> OPR_NEQ,
     lss |-> OPR_LSS, leq |-> OPR_LEQ, gtr |-> OPR_GTR, geq |-> OPR_GEQ]

Truth(b) == <<CreateLiteral(Boolean(b))>>

\* The right operand of or and of and is jumped over when the left one decides.
OperationCode(op, left, right) ==
    CASE op = "orsy"  -> left \o <<JPC(3)>> \o Truth(TRUE) \o <<JMP(Past(right))>> \o right
      [] op = "andsy" ->
           left \o <<JPC(Past(right) + 1)>> \o right \o <<JMP(2)>> \o Truth(FALSE)
      [] OTHER        -> left \o right \o <<OPR(OperationOf[op])>>

\* generateBinaryExpression.
BinaryCode(g, node) ==
    OperationCode(node.op, CodeFor(g, node.left), CodeFor(g, node.right))

UnaryCode(g, node) ==
    CodeFor(g, node.operand)
      \o IF node.op = "not" THEN Truth(FALSE) \o <<OPR(OPR_EQL)>> ELSE <<OPR(OPR_NEG)>>

\* generateExpression.
ExpressionCode(g, node) ==
    CASE node.kind = "literal" -> <<CreateLiteral([type |-> node.type, v |-> node.value])>>
      [] node.kind = "name"    -> NameCode(g, node)
      [] node.kind \in {"element", "field"} -> AddressCode(g, node) \o <<LOD(1, 0)>>
      [] node.kind = "apply"   -> ApplyCode(g, node)
      [] node.kind = "binop"   -> BinaryCode(g, node)
      [] node.kind = "unop"    -> UnaryCode(g, node)

-----------------------------------------------------------------------------
(***************************************************************************)
(* Assignments.                                                            *)
(***************************************************************************)
Structured == {"array", "record"}

\* emitStructuredAssignment: slot by slot; a function's result is on the stack with
\* its last slot on top.
StructuredAssignCode(g, target, source, size) ==
    LET Store(k) == SlotAddressCode(g, target, k - 1) \o <<STO(1, 0)>>
        Copy(k)  == SlotAddressCode(g, source, k - 1) \o <<RLOD(1, 0)>> \o Store(k)
    IN  IF source.kind = "apply"
        THEN ApplyCode(g, source) \o FlattenSeq([k \in 1..size |-> Store(size + 1 - k)])
        ELSE FlattenSeq([k \in 1..size |-> Copy(k)])

\* The address is computed after the value.
ScalarAssignCode(g, target, source, type) ==
    CodeFor(g, source)
      \o GuardCode(g, type, source.typed, RangeOfTarget(g, target))
      \o IF target.kind = "name" THEN StoreTo(g, NodeSymbolIndex(g, target))
         ELSE AddressCode(g, target) \o <<STO(1, 0)>>

AssignCodeOf(g, node, to, from) ==
    CASE "invalid" \in {to.type, from.type} -> Refused
      [] /\ "invalid" \notin {to.type, from.type}
         /\ Structured \cap {to.type, from.type} = {} ->
           ScalarAssignCode(g, node.target, node.source, to.type)
      [] OTHER ->
           IF to.type # from.type \/ SizeOf(g.sym, to) # SizeOf(g.sym, from) THEN Refused
           ELSE StructuredAssignCode(g, node.target, node.source, SizeOf(g.sym, to))

\* generateAssignment.
AssignCode(g, node) ==
    AssignCodeOf(g, node, NodeTypeRef(g, node.target), NodeTypeRef(g, node.source))

-----------------------------------------------------------------------------
(***************************************************************************)
(* The other statements.                                                   *)
(***************************************************************************)
StatementsCode(g, nodes) ==
    FlattenSeq([k \in DOMAIN nodes |-> CodeFor(g, nodes[k])])

Conditional(test, branches) ==
    LET then == branches[1]
        else == branches[2]
    IN  IF Len(branches) = 1
        THEN test \o <<JPC(Past(then))>> \o then
        ELSE test \o <<JPC(Past(then) + 1)>> \o then \o <<JMP(Past(else))>> \o else

IfCode(g, node) ==
    Conditional(CodeFor(g, node.condition),
                [k \in DOMAIN node.branches |-> CodeFor(g, node.branches[k])])

Loop(test, body) ==
    test \o <<JPC(Past(body) + 1)>> \o body \o <<JMP(-(Len(test) + 1 + Len(body)))>>

WhileCode(g, node) == Loop(CodeFor(g, node.condition), CodeFor(g, node.body))

\* Mutant of LoopUntil: the jump back leads to the condition.
LoopUntilOfCondition(body, test) == body \o test \o <<JPC(-Len(test))>>

LoopUntil(body, test) == body \o test \o <<JPC(-Len(body \o test))>>

RepeatCode(g, node) ==
    LoopUntil(StatementsCode(g, node.body), CodeFor(g, node.condition))

LimitCode(g, node) ==
    CodeFor(g, node.to) \o <<OPR(IF node.down THEN OPR_GEQ ELSE OPR_LEQ)>>

NextValueCode(g, i, down) ==
    LoadOf(g, i) \o <<LIT(1), OPR(IF down THEN OPR_SUB ELSE OPR_ADD),
                      STO(0, Temp(g, ForNext)), LOD(0, Temp(g, ForNext))>>

\* The counter is set to the next value, through the guards of its type.
AgainCode(g, i) ==
    <<LOD(0, Temp(g, ForNext))>>
      \o (IF g.sym.tab[i].type = "char" THEN <<OPR(OPR_TO_CHAR)>> ELSE <<>>)
      \o EntryGuardCode(g, i, g.sym.tab[i].type) \o StoreTo(g, i)

\* The counter is only set to the next value if the limit admits it.
Rounds(test, inner, again) ==
    test \o <<JPC(Past(inner \o again) + 2)>>
      \o inner \o <<JPC(Past(again) + 1)>>
      \o again \o <<JMP(-(Len(test) + Len(inner) + Len(again) + 2))>>

\* The limit is evaluated for both tests of every round, and all loops keep the next
\* value in one cell.
ForCodeOf(g, node, i, limit) ==
    IF ~IsVariable(g, i) THEN Refused
    ELSE CodeFor(g, node.from) \o EntryGuardCode(g, i, node.from.typed) \o StoreTo(g, i)
           \o Rounds(LoadOf(g, i) \o limit,
                     CodeFor(g, node.body) \o NextValueCode(g, i, node.down) \o limit,
                     AgainCode(g, i))

\* generateFor.
ForCode(g, node) == ForCodeOf(g, node, NodeSymbolIndex(g, node), LimitCode(g, node))

TryCode(g, label, statement, rest) ==
    <<LOD(0, Temp(g, CaseSelector))>> \o label
      \o <<OPR(OPR_EQL), JPC(Past(statement) + 1)>> \o statement
      \o <<JMP(Past(rest))>> \o rest

TriesCode(g, tries) ==
    FoldRight(LAMBDA try, rest :
                 TryCode(g, CodeFor(g, try.label), CodeFor(g, try.statement), rest),
              tries, <<>>)

TriesOf(block) ==
    [k \in DOMAIN block.labels |-> [label |-> block.labels[k], statement |-> block.statement]]

CaseCodeOf(g, node, tries) ==
    IF Len(tries) > MaxTab THEN Refused
    ELSE CodeFor(g, node.selector) \o <<STO(0, Temp(g, CaseSelector))>>
           \o TriesCode(g, tries)

\* generateCase: the labels are tried in order, each with a copy of its statement.
CaseCode(g, node) ==
    CaseCodeOf(g, node, FlattenSeq([k \in DOMAIN node.blocks |-> TriesOf(node.blocks[k])]))

StatementCode(g, node) ==
    CASE node.kind = "empty"    -> <<>>
      [] node.kind = "compound" -> StatementsCode(g, node.statements)
      [] node.kind = "assign"   -> AssignCode(g, node)
      [] node.kind = "if"       -> IfCode(g, node)
      [] node.kind = "while"    -> WhileCode(g, node)
      [] node.kind = "repeat"   -> RepeatCode(g, node)
      [] node.kind = "for"      -> ForCode(g, node)
      [] node.kind = "case"     -> CaseCode(g, node)
      [] node.kind = "call"     -> CallStatementCode(g, node)

CodeFor(g, node) ==
    IF node.kind \in ExpressionKinds THEN ExpressionCode(g, node) ELSE StatementCode(g, node)

-----------------------------------------------------------------------------
(***************************************************************************)
(* Subprograms and the program.  A piece is code with the labels defined   *)
(* in it: the line each subprogram begins at.                              *)
(***************************************************************************)
NoPiece == [code |-> <<>>, labels |-> <<>>]

Moved(labels, lines) == [i \in DOMAIN labels |-> labels[i] + lines]

RECURSIVE SubprogramPiece(_, _)

Followed(before, piece) ==
    [code   |-> before.code \o piece.code,
     labels |-> before.labels @@ Moved(piece.labels, Len(before.code))]

\* generateSubprograms.
SubprogramPieces(g, declarations) ==
    FoldLeft(LAMBDA before, node : Followed(before, SubprogramPiece(g, node)), NoPiece,
             SelectSeq(declarations, IsSubprogramNode))

\* What addRuntimeCallInfo refuses.
InfoFits(info) ==
    /\ info.parameterSlotCount <= MaxParameterSlots
    /\ info.parameterSlotCount <= info.frameSlotCount
    /\ info.lexicalLevel < LevelStride

Enclosed(g, node, inner) ==
    [code   |-> IF ~InfoFits(CallInfoOf(g.sym, node.tab)) THEN Refused
                ELSE <<JMP(Past(inner.code))>> \o inner.code
                       \o CodeFor(g, node.body) \o <<RET>>,
     labels |-> (node.tab :> 0) @@ Moved(inner.labels, 1)]

\* generateSubprogram: a jump over its own subprograms, these, and its body.
SubprogramPiece(g, node) == Enclosed(g, node, SubprogramPieces(g, node.declarations))

\* Jumps to lines, and calls to the lines of their labels (emitCall, patchPendingCalls).
Patched(piece) ==
    LET line(k) == k - 1
        Link(k) == CASE piece.code[k].opcode \in {"JMP", "JPC"} ->
                          [piece.code[k] EXCEPT !.operand = line(k) + @]
                     [] piece.code[k].opcode = "CAL" ->
                          [piece.code[k] EXCEPT !.operand = piece.labels[@]]
                     [] OTHER -> piece.code[k]
    IN  [k \in DOMAIN piece.code |-> Link(k)]

\* The calls met before the subprogram they call, which wait for its label.
PendingCalls(piece) ==
    {k \in DOMAIN piece.code :
        /\ piece.code[k].opcode = "CAL"
        /\ piece.code[k].operand \in DOMAIN piece.labels
        /\ piece.labels[piece.code[k].operand] > k - 1}

Linkable(piece) ==
    /\ ~IsRefused(piece.code)
    /\ \A k \in DOMAIN piece.code :
          piece.code[k].opcode = "CAL" => piece.code[k].operand \in DOMAIN piece.labels
    /\ Cardinality(DOMAIN piece.labels) <= MaxTab
    /\ Cardinality(PendingCalls(piece)) <= MaxTab

NoCode == [code |-> <<>>, calls |-> <<>>]

ProgramPiece(g, subs) ==
    [code   |-> <<INT(Temp(g, TempCount)), JMP(Past(subs.code))>> \o subs.code
                  \o CodeFor(g, g.root.body) \o <<RET>>,
     labels |-> Moved(subs.labels, 2)]

CallInfos(g, labels) ==
    [line \in Range(labels) |->
        CallInfoOf(g.sym, CHOOSE i \in DOMAIN labels : labels[i] = line)]

Emitted(g, piece) ==
    IF ~Linkable(piece) THEN NoCode
    ELSE [code |-> Patched(piece), calls |-> CallInfos(g, piece.labels)]

\* intermediateCodeGenerate: NoCode where it reports an error.
Generate(g) ==
    Emitted(g, ProgramPiece(g, SubprogramPieces(g, g.root.declarations)))
=============================================================================
