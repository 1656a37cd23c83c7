----------------------------- MODULE Declarations ------------------------------
(***************************************************************************)
(* What the semantic phase (ast_decorator.c) does with one declaration:    *)
(* the values of constants, the resolution of a type expression, and the   *)
(* entries a declaration or a heading makes, as operators on the tables.   *)
(*                                                                         *)
(* A type expression is a record with the node's kind; resolveTypeInfo is  *)
(* a recursion over it.                                                    *)
(***************************************************************************)
EXTENDS SymbolTable, SequencesExt

-----------------------------------------------------------------------------
(***************************************************************************)
(* Steps that may report an error.                                         *)
(***************************************************************************)
Step(s, ok) == [table |-> s, ok |-> ok]

\* C returns at the first error: what follows in a handler is not executed.
Then(step, Rest(_)) == IF step.ok THEN Rest(step.table) ELSE step

\* On the way out of a failed handler its scope is left.
OrExitScope(step) == IF step.ok THEN step ELSE Step(SymExitScope(step.table), FALSE)

TypeInfo(type, ref) == [type |-> type, ref |-> ref, range |-> NoRange]
NoType == TypeInfo("none", NoIndex)

\* What resolving a type leaves: a table and a type, NoType on an error.
Resolved(s, info) == [table |-> s, info |-> info]

\* The table of an entry made or refused, and its range.
Ranged(entered, range) ==
    Step(SymSetRange(entered.table, entered.index, range), entered.index # NoIndex)

\* symEnter, the error if it refuses, and symSetRange.
Declare(s, name, obj, info, nrm, adr) ==
    Ranged(SymEnter(s, name, obj, info.type, info.ref, nrm, adr), info.range)

\* The block of the scope being visited.
CurrentBlock(s) == s.btab[s.display[s.currentLevel]]

-----------------------------------------------------------------------------
(***************************************************************************)
(* Types.                                                                  *)
(***************************************************************************)
BaseTypeNames == {"integer", "real", "boolean", "char", "string"}

\* buildConstant of ast_builder.c: the node of a constant as it is written.  A minus
\* sign goes into a number, and is dropped before a name.
BuildConstant(c) ==
    CASE c.kind = "literal" /\ c.negative /\ c.type = "integer" ->
           [c EXCEPT !.value = -@, !.negative = FALSE]
      [] c.kind = "literal" /\ c.negative /\ c.type = "real" ->
           [c EXCEPT !.value = <<-@[1], @[2]>>, !.negative = FALSE]
      [] OTHER -> c

UnknownConstant == [known |-> FALSE, type |-> "none", value |-> 0]
Known(type, value) == [known |-> TRUE, type |-> type, value |-> value]

Is(s, i, obj) == i # NoIndex /\ s.tab[i].obj = obj

ValueOfConstant(s, i) ==
    IF Is(s, i, "constant") THEN Known(s.tab[i].type, s.tab[i].adr) ELSE UnknownConstant

NegatedConstant(v) ==
    IF v.known /\ v.type = "integer" THEN Known("integer", -v.value) ELSE UnknownConstant

RECURSIVE ConstantValue(_, _)

\* constantValue: literals of ordinal types, the names of constants, and an integer
\* constant under minus signs.
ConstantValue(s, c) ==
    CASE c.kind = "literal" /\ c.type \in {"integer", "char", "boolean"} ->
           Known(c.type, c.value)
      [] c.kind = "name"                    -> ValueOfConstant(s, SymLookup(s, c.name))
      [] c.kind = "unop" /\ c.op = "minus" -> NegatedConstant(ConstantValue(s, c.operand))
      [] OTHER                              -> UnknownConstant

SubrangeOf(type, low, high) ==
    [TypeInfo(type, NoIndex) EXCEPT !.range = [base |-> type, low |-> low, high |-> high]]

NamedType(s, i) ==
    IF Is(s, i, "type")
    THEN [type |-> s.tab[i].type, ref |-> s.tab[i].ref, range |-> s.tab[i].range]
    ELSE NoType

ResolveTypeName(s, name) ==
    CASE name = "boolean"                    -> SubrangeOf(name, 0, 1)
      [] name \in BaseTypeNames \ {"boolean"} -> TypeInfo(name, NoIndex)
      [] OTHER                               -> NamedType(s, SymLookup(s, name))

RangeOver(low, high) ==
    IF /\ low.known /\ high.known
       /\ low.type = high.type /\ low.type # "real"
       /\ low.value <= high.value
    THEN SubrangeOf(low.type, low.value, high.value) ELSE NoType

ResolveRange(s, t) ==
    RangeOver(ConstantValue(s, BuildConstant(t.low)), ConstantValue(s, BuildConstant(t.high)))

EnterNames(domain, names) ==
    FoldLeftDomain(
        LAMBDA step, k : Then(step, LAMBDA u :
            Declare(u, names[k], "constant", TypeInfo("integer", domain.index), 1, k - 1)),
        Step(domain.table, domain.index # NoIndex), names)

EnumerationOver(entered, domain, size) ==
    Resolved(entered.table,
        IF ~entered.ok THEN NoType
        ELSE [type |-> "integer", ref |-> domain,
              range |-> [base |-> "integer", low |-> 0, high |-> size - 1]])

NamesOf(domain, names) == EnumerationOver(EnterNames(domain, names), domain.index, Len(names))

\* The names of an enumeration are constants of the scope it is written in.
ResolveEnumerated(s, t) == NamesOf(SymEnterEnum(s, Len(t.names)), t.names)

\* The bounds of an array with this index type.
IndexBounds(s, info) ==
    CASE info.range # NoRange   -> <<info.range.low, info.range.high>>
      [] info.type = "boolean"  -> <<0, 1>>
      [] info.type = "integer" /\ SymEnumCount(s, info.ref) > 0 ->
            <<0, SymEnumCount(s, info.ref) - 1>>
      [] OTHER                  -> <<0, 0>>

IsIndexType(info) == info.type \in {"integer", "boolean", "char"}

RECURSIVE ResolveTypeInfo(_, _)

MadeType(type, made) ==
    Resolved(made.table, IF made.index = NoIndex THEN NoType ELSE TypeInfo(type, made.index))

AtLeastOneSlot(size) == IF size = 0 THEN 1 ELSE size

SizeOf(s, info) == SizeOfType(s, info.type, info.ref)

ArrayOver(index, bounds, element) ==
    IF element.info = NoType THEN element
    ELSE MadeType("array",
            SymEnterArray(element.table, index, element.info, bounds[1], bounds[2],
                          AtLeastOneSlot(SizeOf(element.table, element.info))))

IndexedBy(index, t) ==
    IF ~IsIndexType(index.info) THEN Resolved(index.table, NoType)
    ELSE ArrayOver(index.info, IndexBounds(index.table, index.info),
                   ResolveTypeInfo(index.table, t))

\* Index type, element type, array entry.  Elements take a slot at least.
ResolveArray(s, t) == IndexedBy(ResolveTypeInfo(s, t.index), t.element)

Placed(field, range, adr) ==
    [table |-> SymSetRange(field.table, field.index, range),
     ok |-> field.index # NoIndex, adr |-> adr]

\* Each field's address is the size of the fields before it.
PlaceField(fields, name, info, size) ==
    IF ~fields.ok THEN fields
    ELSE Placed(SymEnterField(fields.table, name, info.type, info.ref, fields.adr),
                info.range, fields.adr + size)

PlaceFields(before, type, names) ==
    FoldLeft(LAMBDA fields, name :
                PlaceField(fields, name, type.info, SizeOf(type.table, type.info)),
             [before EXCEPT !.table = type.table, !.ok = type.info # NoType], names)

\* A part of a record.
EnterFields(before, part) ==
    IF ~before.ok THEN before
    ELSE PlaceFields(before, ResolveTypeInfo(before.table, part.type), part.names)

\* Mutant of RecordOver: an error in a field leaves the record block open.
RecordOverUnclosed(b, fields) ==
    IF fields.ok THEN Resolved(SymExitRecordBlock(fields.table), TypeInfo("record", b))
    ELSE Resolved(fields.table, NoType)

\* Whatever happens, the record block is left.
RecordOver(b, fields) ==
    Resolved(SymExitRecordBlock(fields.table),
             IF fields.ok THEN TypeInfo("record", b) ELSE NoType)

InRecordBlock(block, parts) ==
    IF block.index = NoIndex THEN Resolved(block.table, NoType)
    ELSE RecordOver(block.index,
            FoldLeft(EnterFields, [table |-> block.table, ok |-> TRUE, adr |-> 0], parts))

\* A record is a block of its own.
ResolveRecord(s, t) == InRecordBlock(SymEnterRecordBlock(s), t.fields)

ResolveTypeInfo(s, t) ==
    CASE t.kind = "name"       -> Resolved(s, ResolveTypeName(s, t.name))
      [] t.kind = "range"      -> Resolved(s, ResolveRange(s, t))
      [] t.kind = "enumerated" -> ResolveEnumerated(s, t)
      [] t.kind = "array"      -> ResolveArray(s, t)
      [] t.kind = "record"     -> ResolveRecord(s, t)

-----------------------------------------------------------------------------
(***************************************************************************)
(* Declarations of one name.                                               *)
(***************************************************************************)

\* The entry of a name whose type has been resolved.
DeclareOfType(type, name, obj, adr) ==
    IF type.info = NoType THEN Step(type.table, FALSE)
    ELSE Declare(type.table, name, obj, type.info, 1, adr)

TypeOfConstantEntry(s, i) ==
    IF Is(s, i, "constant") THEN TypeInfo(s.tab[i].type, s.tab[i].ref) ELSE NoType

TypeOfConstant(s, c) ==
    CASE c.kind = "literal" -> TypeInfo(c.type, NoIndex)
      [] c.kind = "name"    -> TypeOfConstantEntry(s, SymLookup(s, c.name))
      [] OTHER              -> NoType

\* visitConstDecl.  The value of a constant that has no ordinal value is 0.
DeclareConstant(s, name, c) ==
    DeclareOfType(Resolved(s, TypeOfConstant(s, c)), name, "constant",
                  ConstantValue(s, c).value)

\* visitTypeDecl.
DeclareType(s, name, t) == DeclareOfType(ResolveTypeInfo(s, t), name, "type", 0)

\* Mutant of VariableOfType: the address counts parameters.
VariableAfterParameters(type, name) ==
    DeclareOfType(type, name, "variable", CurrentBlock(type.table).psze)

\* A variable's address is the size of those before it.
VariableOfType(type, name) ==
    DeclareOfType(type, name, "variable", CurrentBlock(type.table).vsze)

\* visitVarDecl.
DeclareVariable(s, name, t) == VariableOfType(ResolveTypeInfo(s, t), name)

-----------------------------------------------------------------------------
(***************************************************************************)
(* Subprogram headings.                                                    *)
(***************************************************************************)

Counted(step, p) ==
    IF step.ok THEN Step([step.table EXCEPT !.tab[p].nrm = @ + 1], TRUE) ELSE step

ParametersOfType(type, names, p) ==
    FoldLeft(LAMBDA step, name : Then(step, LAMBDA u :
                Counted(Declare(u, name, "variable", type.info, 0, CurrentBlock(u).psze), p)),
             Step(type.table, type.info # NoType), names)

\* visitParamGroup: every parameter is entered and counted in its subprogram.
VisitParamGroup(s, group, p) == ParametersOfType(ResolveTypeInfo(s, group.type), group.names, p)

VisitParamGroups(s, groups, p) ==
    FoldLeft(LAMBDA step, group : Then(step, LAMBDA u : VisitParamGroup(u, group, p)),
             Step(s, TRUE), groups)

\* The subprogram's entry learns its block and loses its parameter count.
Described(s, p) ==
    [s EXCEPT !.tab[p].ref = s.display[s.currentLevel], !.tab[p].nrm = 0]

EnterSubprogramScope(s, p) == Described(SymEnterScope(s), p)

ProcedureEntered(procedure, groups) ==
    IF procedure.index = NoIndex THEN Step(procedure.table, FALSE)
    ELSE OrExitScope(VisitParamGroups(
            EnterSubprogramScope(procedure.table, procedure.index), groups, procedure.index))

\* visitProcDecl up to the block.
ProcedureHeading(s, name, groups) ==
    ProcedureEntered(SymEnter(s, name, "procedure", "void", NoIndex, 0, 0), groups)

FunctionEntered(function, name, groups, returned) ==
    IF function.index = NoIndex THEN Step(function.table, FALSE)
    ELSE OrExitScope(Then(
            Declare(EnterSubprogramScope(
                        SymSetRange(function.table, function.index, returned.range),
                        function.index),
                    name, "variable", returned, 1, 0),
            LAMBDA u : VisitParamGroups(u, groups, function.index)))

FunctionReturning(s, name, groups, returned) ==
    IF returned = NoType THEN Step(s, FALSE)
    ELSE FunctionEntered(SymEnter(s, name, "function", returned.type, returned.ref, 0, 0),
                         name, groups, returned)

\* visitFuncDecl up to the block.  The result is the first variable of the scope,
\* under the function's name.
FunctionHeading(s, name, groups, resultName) ==
    FunctionReturning(s, name, groups, ResolveTypeName(s, resultName))

-----------------------------------------------------------------------------
(***************************************************************************)
(* Calls.                                                                  *)
(***************************************************************************)
IsSubprogram(s, i) == i # NoIndex /\ s.tab[i].obj \in {"procedure", "function"}

\* visitCall: what the scopes do not know as a subprogram is searched in the whole
\* table, from its end, whatever scope it was declared in.
Callee(s, name) ==
    LET i == SymLookup(s, name)
    IN  IF IsSubprogram(s, i) THEN i
        ELSE Latest({j \in Named(s, 1..Len(s.tab), name) : IsSubprogram(s, j)})

-----------------------------------------------------------------------------
(***************************************************************************)
(* What is read out of the symbol table later on: the call metadata of a   *)
(* subprogram and the size of the global data, as the code generator       *)
(* (intermediate_code_generator.c) computes them, and the formal           *)
(* parameters a call's arguments are compared with.                        *)
(***************************************************************************)
FirstOf(entries) == IF entries = {} THEN NoIndex ELSE Min(entries)

\* functionReturnTabIndexForCallInfo: the variable named as the function is.
FunctionReturnTabIndex(s, p) ==
    IF s.tab[p].obj # "function" THEN NoIndex
    ELSE FirstOf(Named(s, VariablesOf(s, s.tab[p].ref), s.tab[p].identifier))

\* The parameters of a subprogram are its block's variables with nrm = 0, in
\* the order of the table.
ParametersOf(s, p) ==
    SetToSortSeq({i \in VariablesOf(s, s.tab[p].ref) : s.tab[i].nrm = 0},
                 LAMBDA i, j : i < j)

IsShaped(s, i) == i # NoIndex /\ s.tab[i].type \in {"array", "record"}

SizeOfEntry(s, i) ==
    IF i = NoIndex THEN 0 ELSE SizeOfType(s, s.tab[i].type, s.tab[i].ref)

\* functionReturnSlotCount of a subprogram with this result.
ReturnSlotCount(s, p, returned) ==
    CASE s.tab[p].obj # "function"                -> 0
      [] /\ s.tab[p].obj = "function" /\ ~IsShaped(s, returned)
         /\ SizeOfEntry(s, returned) <= 0         -> 1
      [] OTHER                                    -> SizeOfEntry(s, returned)

SlotOffsets(s, i) == [k \in 1..Slots(s, i) |-> SymFrameOffsetForTabIndex(s, i) + k - 1]

ParameterOffsets(s, parameters) ==
    FlattenSeq([k \in DOMAIN parameters |-> SlotOffsets(s, parameters[k])])

CallInfoWith(s, p, offsets, returned) ==
    [lexicalLevel       |-> s.tab[p].lev + 1,
     frameSlotCount     |-> SymFrameSlotCountForBlock(s, s.tab[p].ref),
     parameterSlotCount |-> Len(offsets),
     parameterOffsets   |-> offsets,
     returnOffset       |-> IF returned = NoIndex THEN -1
                            ELSE SymFrameOffsetForTabIndex(s, returned),
     returnSlotCount    |-> ReturnSlotCount(s, p, returned),
     structuredReturn   |-> IsShaped(s, returned)]

\* addRuntimeCallInfo.  The generator refuses more parameter slots than the
\* metadata has room for, and more than the frame has; the parameter lists here
\* are far below the first, and FramesAreLegal excludes the second.
CallInfoOf(s, p) ==
    CallInfoWith(s, p, ParameterOffsets(s, ParametersOf(s, p)), FunctionReturnTabIndex(s, p))

\* visitCall walks the formal parameters back from the last one, by the links of
\* the chain.
FormalsOf(s, p) ==
    LET count == s.tab[p].nrm
        walk[k \in 1..count] ==
            IF k = 1 THEN s.btab[s.tab[p].ref].lpar
            ELSE IF walk[k - 1] = NoIndex THEN NoIndex ELSE s.tab[walk[k - 1]].link
    IN  [k \in 1..count |-> walk[count + 1 - k]]

\* globalDataSize.
GlobalDataSize(s) ==
    LET globals == {i \in 1..Len(s.tab) : s.tab[i].obj = "variable" /\ s.tab[i].lev = 0}
    IN  Max({0} \cup {s.tab[i].adr + Slots(s, i) : i \in globals})
=============================================================================
