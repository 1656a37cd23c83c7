----------------------------- MODULE TreeDecorator -----------------------------
(***************************************************************************)
(* The semantic phase (ast_decorator.c) on a whole tree: every name is     *)
(* resolved, every expression typed, and the tree the code generator reads *)
(* is the tree with these marks.                                           *)
(*                                                                         *)
(* Visiting an expression yields the node with its marks, untyped if there *)
(* was an error, and leaves the symbol table alone.  Visiting a statement  *)
(* or a declaration yields the table, the node and whether it was legal.   *)
(* C goes on for a while after some errors, but the first one decides.     *)
(***************************************************************************)
EXTENDS Declarations, SyntaxTree

-----------------------------------------------------------------------------
(***************************************************************************)
(* Compatibility of types.                                                 *)
(***************************************************************************)
Numeric == {"integer", "real"}


TypesCompatible(a, b) == a # "none" /\ b # "none" /\ (a = b \/ {a, b} \subseteq Numeric)

IsEnumRef(s, ref) == SymEnumCount(s, ref) > 0

EnumRefCompatible(s, target, source) ==
    \/ ~IsEnumRef(s, target) /\ ~IsEnumRef(s, source)
    \/ IsEnumRef(s, target) /\ IsEnumRef(s, source) /\ target = source

\* typesCompatibleRef: for comparisons.
Comparable(s, left, leftRef, right, rightRef) ==
    /\ "integer" \in {left, right} => EnumRefCompatible(s, leftRef, rightRef)
    /\ TypesCompatible(left, right)

RECURSIVE ArrayTypesCompatible(_, _, _)

\* Arrays are alike by structure, records only by declaration.
ArrayTypesCompatible(s, left, right) ==
    /\ {left, right} \subseteq 1..Len(s.atab)
    /\ LET l == s.atab[left]
           r == s.atab[right]
       IN  /\ <<l.xtyp, l.xref, l.low, l.high, l.etyp, l.range>>
                = <<r.xtyp, r.xref, r.low, r.high, r.etyp, r.range>>
           /\ CASE l.etyp = "array"  -> ArrayTypesCompatible(s, l.eref, r.eref)
                [] l.etyp = "record" -> l.eref = r.eref
                [] OTHER             -> EnumRefCompatible(s, l.eref, r.eref)

\* assignmentCompatibleRef: an integer goes into a real, never the other way.
AssignmentCompatible(s, target, targetRef, source, sourceRef) ==
    CASE "array" \in {target, source} ->
           target = source /\ ArrayTypesCompatible(s, targetRef, sourceRef)
      [] "record" \in {target, source} -> target = source /\ targetRef = sourceRef
      [] OTHER ->
           /\ "integer" \in {target, source} => EnumRefCompatible(s, targetRef, sourceRef)
           /\ target # "none" /\ source # "none"
           /\ \/ target = source
              \/ target = "real" /\ source = "integer" /\ sourceRef = NoIndex

-----------------------------------------------------------------------------
(***************************************************************************)
(* Expressions.                                                            *)
(***************************************************************************)
Marked(node, i, type) == [node EXCEPT !.tab = i, !.typed = type]
Typed(node, type) == [node EXCEPT !.typed = type]

\* Only a variable of the running level is refused for want of a value.
HasValue(s, i) ==
    s.tab[i].obj = "variable" /\ s.tab[i].lev = s.currentLevel => s.tab[i].initialized

ReferTo(s, node, i, requireInitialized) ==
    IF /\ i # NoIndex /\ s.tab[i].obj \in {"variable", "constant"}
       /\ requireInitialized => HasValue(s, i)
    THEN Marked(node, i, s.tab[i].type)
    ELSE Typed(node, Untyped)

\* resolveVarReference.
ResolveVarReference(s, node, requireInitialized) ==
    ReferTo(s, node, SymLookup(s, node.name), requireInitialized)

\* The elements of the array an access has reached: their type and its index.
ElementOf(s, at) == [type |-> s.atab[at.ref].etyp, ref |-> s.atab[at.ref].eref]

RefOfEntry(s, i) == IF i = NoIndex THEN NoIndex ELSE s.tab[i].ref

RECURSIVE RefOf(_, _)

\* typeRefForNode, arrayAccessResultRef and functionReturnRef.
RefOf(s, node) ==
    CASE node.kind \in {"name", "field"} -> RefOfEntry(s, node.tab)
      [] node.kind = "apply" -> RefOfEntry(s, FunctionReturnTabIndex(s, node.tab))
      [] node.kind = "element" ->
           FoldLeft(LAMBDA at, index : IF at.ref = NoIndex THEN at ELSE ElementOf(s, at),
                    [type |-> node.base.typed, ref |-> RefOf(s, node.base)],
                    node.indexes).ref
      [] OTHER -> NoIndex

SameDomain(ref, other) == NoIndex \in {ref, other} \/ ref = other

InBounds(array, value) ==
    array.low < array.high /\ value.known /\ value.type = array.xtyp
      => value.value \in array.low..array.high

\* The checks on one index.
IndexLegal(s, array, index) ==
    /\ index.typed # Untyped /\ index.typed = array.xtyp
    /\ SameDomain(array.xref, RefOf(s, index))
    /\ InBounds(array, ConstantValue(s, index))

\* Visit is the visit of any node (visit in C); it is defined at the end.
RECURSIVE VisitAccess(_, _, _), Visit(_, _)

\* One more index, where `at` has reached an array.
Reach(s, at, index) ==
    IF at.ok /\ at.type = "array" /\ at.ref # NoIndex /\ IndexLegal(s, s.atab[at.ref], index)
    THEN [at EXCEPT !.type = s.atab[at.ref].etyp, !.ref = s.atab[at.ref].eref,
                    !.indexes = Append(@, index)]
    ELSE [at EXCEPT !.ok = FALSE]

Reached(node, base, at) ==
    IF ~at.ok THEN Typed(node, Untyped)
    ELSE [Marked(node, base.tab, at.type) EXCEPT !.base = base, !.indexes = at.indexes]

ElementIn(s, node, base) ==
    Reached(node, base,
        FoldLeft(LAMBDA at, index : Reach(s, at, Visit(s, index)),
                 [ok |-> base.typed = "array", type |-> base.typed,
                  ref |-> RefOf(s, base), indexes |-> <<>>],
                 node.indexes))

\* visitArrayAccessMode.
VisitElement(s, node, requireInitialized) ==
    ElementIn(s, node, VisitAccess(s, node.base, requireInitialized))

FieldNamed(s, type, ref, name) ==
    IF type # "record" \/ ref = NoIndex THEN NoIndex ELSE FindSameNameInBlock(s, name, ref)

FieldAt(s, node, base, field) ==
    IF field = NoIndex THEN Typed(node, Untyped)
    ELSE [Marked(node, field, s.tab[field].type) EXCEPT !.base = base]

FieldIn(s, node, base) ==
    FieldAt(s, node, base, FieldNamed(s, base.typed, RefOf(s, base), node.field))

\* visitFieldAccessMode.
VisitField(s, node, requireInitialized) ==
    FieldIn(s, node, VisitAccess(s, node.base, requireInitialized))

VisitAccess(s, node, requireInitialized) ==
    CASE node.kind = "name"    -> ResolveVarReference(s, node, requireInitialized)
      [] node.kind = "element" -> VisitElement(s, node, requireInitialized)
      [] node.kind = "field"   -> VisitField(s, node, requireInitialized)
      [] OTHER                 -> Typed(node, Untyped)

ArgumentFits(s, formal, argument) ==
    AssignmentCompatible(s, s.tab[formal].type, s.tab[formal].ref,
                         argument.typed, RefOf(s, argument))

ArgumentsFit(s, formals, arguments) ==
    NoIndex \notin Range(formals)
      => \A k \in DOMAIN formals : ArgumentFits(s, formals[k], arguments[k])

\* The arguments against the formal parameters.  A predefined procedure takes any.
ArgumentsLegal(s, i, arguments) ==
    /\ \A k \in DOMAIN arguments : arguments[k].typed # Untyped
    /\ s.tab[i].nrm >= 0 =>
         /\ Len(arguments) = s.tab[i].nrm
         /\ ArgumentsFit(s, FormalsOf(s, i), arguments)

VisitArguments(s, arguments) ==
    [k \in DOMAIN arguments |-> Visit(s, arguments[k])]

Apply(s, node, i, arguments) ==
    IF i # NoIndex /\ s.tab[i].obj = "function" /\ ArgumentsLegal(s, i, arguments)
    THEN [Marked(node, i, s.tab[i].type) EXCEPT !.arguments = arguments]
    ELSE Typed(node, Untyped)

\* visitCall of an expression.
VisitApply(s, node) ==
    Apply(s, node, Callee(s, node.name), VisitArguments(s, node.arguments))

ArithmeticFits(s, op, l, leftRef, r, rightRef) ==
    /\ op \in ArithmeticOperators /\ {l, r} \subseteq Numeric
    /\ ~IsEnumRef(s, leftRef) /\ ~IsEnumRef(s, rightRef)
    /\ op \in {"idiv", "imod"} => l = "integer" /\ r = "integer"

\* The type of an operation, untyped where the operands do not fit.
OperatorType(s, op, l, leftRef, r, rightRef) ==
    CASE Untyped \in {l, r} -> Untyped
      [] op \in BooleanOperators /\ l = "boolean" /\ r = "boolean" -> "boolean"
      [] op \in RelationalOperators /\ Comparable(s, l, leftRef, r, rightRef) -> "boolean"
      [] op = "plus" /\ l = "string" /\ r = "string" -> "string"
      [] ArithmeticFits(s, op, l, leftRef, r, rightRef) ->
           IF op = "rdiv" \/ "real" \in {l, r} THEN "real" ELSE "integer"
      [] OTHER -> Untyped

Binary(s, node, left, right) ==
    [node EXCEPT !.left = left, !.right = right,
                 !.typed = OperatorType(s, node.op, left.typed, RefOf(s, left),
                                        right.typed, RefOf(s, right))]

VisitBinary(s, node) ==
    Binary(s, node, Visit(s, node.left), Visit(s, node.right))

OperandFits(s, op, operand) ==
    IF op = "not" THEN operand.typed = "boolean"
    ELSE operand.typed \in Numeric /\ ~IsEnumRef(s, RefOf(s, operand))

Unary(s, node, operand) ==
    [node EXCEPT !.operand = operand,
                 !.typed = IF OperandFits(s, node.op, operand) THEN operand.typed ELSE Untyped]

VisitUnary(s, node) == Unary(s, node, Visit(s, node.operand))

VisitExpression(s, node) ==
    CASE node.kind = "literal" -> Typed(node, node.type)
      [] node.kind = "apply"   -> VisitApply(s, node)
      [] node.kind = "binop"   -> VisitBinary(s, node)
      [] node.kind = "unop"    -> VisitUnary(s, node)
      [] OTHER                 -> VisitAccess(s, node, TRUE)

-----------------------------------------------------------------------------
(***************************************************************************)
(* Statements.                                                             *)
(***************************************************************************)
Visited(s, ok, node) == [table |-> s, ok |-> ok, node |-> node]

Illegal(s, node) == Visited(s, FALSE, node)

\* Mutant of VisitTarget: a constant is taken for a variable.
VisitTargetOfAnyKind(s, target) == VisitAccess(s, target, FALSE)

OnlyVariable(s, target, visited) ==
    IF /\ target.kind = "name" /\ visited.typed # Untyped
       /\ s.tab[visited.tab].obj # "variable"
    THEN Typed(target, Untyped) ELSE visited

\* lvalueType: the target need not have a value, and is no constant.
VisitTarget(s, target) == OnlyVariable(s, target, VisitAccess(s, target, FALSE))

RECURSIVE MarkAssigned(_, _)

\* markAssigned: one element or field gives the whole variable a value.
MarkAssigned(s, target) ==
    IF target.kind # "name" THEN MarkAssigned(s, target.base)
    ELSE IF s.tab[target.tab].obj = "variable"
         THEN [s EXCEPT !.tab[target.tab].initialized = TRUE] ELSE s

InRange(range, value) ==
    range # NoRange /\ value.known /\ value.type = range.base
      => value.value \in range.low..range.high

\* A constant assigned to a target with a range of its own must be in it.
ConstantFits(s, target, source) ==
    InRange(s.tab[target.tab].range, ConstantValue(s, source))

Assign(s, node, target, source) ==
    IF /\ target.typed # Untyped /\ source.typed # Untyped
       /\ AssignmentCompatible(s, target.typed, RefOf(s, target),
                               source.typed, RefOf(s, source))
       /\ ConstantFits(s, target, source)
    THEN Visited(MarkAssigned(s, target), TRUE,
                 [node EXCEPT !.target = target, !.source = source])
    ELSE Illegal(s, node)

VisitAssign(s, node) ==
    Assign(s, node, VisitTarget(s, node.target), Visit(s, node.source))

ReadInto(step, target) ==
    IF ~step.ok \/ target.typed = Untyped THEN [step EXCEPT !.ok = FALSE]
    ELSE Visited(MarkAssigned(step.table, target), TRUE,
                 [step.node EXCEPT !.arguments = Append(@, target)])

\* visitCall of a statement: read and readln give their arguments a value.
VisitRead(s, node, i) ==
    FoldLeft(LAMBDA step, argument : ReadInto(step, VisitTarget(step.table, argument)),
             Visited(s, TRUE, [node EXCEPT !.tab = i, !.arguments = <<>>]), node.arguments)

CallOf(s, node, i, arguments) ==
    Visited(s, ArgumentsLegal(s, i, arguments),
            [node EXCEPT !.tab = i, !.arguments = arguments])

CallTo(s, node, i) ==
    CASE i = NoIndex -> Illegal(s, node)
      [] i # NoIndex /\ node.name \in {"read", "readln"} -> VisitRead(s, node, i)
      [] OTHER -> CallOf(s, node, i, VisitArguments(s, node.arguments))

VisitCall(s, node) == CallTo(s, node, Callee(s, node.name))

Joined(step, visited) ==
    IF ~step.ok THEN step ELSE [visited EXCEPT !.node = Append(step.node, @)]

\* One after the other, up to the first error; the node is the list of them.
VisitEach(Handler(_, _), s, nodes) ==
    FoldLeft(LAMBDA step, node : Joined(step, Handler(step.table, node)),
             Visited(s, TRUE, <<>>), nodes)

VisitAll(s, nodes) == VisitEach(Visit, s, nodes)

Compound(node, body) == [body EXCEPT !.node = [node EXCEPT !.statements = body.node]]

VisitCompound(s, node) == Compound(node, VisitAll(s, node.statements))

IsCondition(condition) == condition.typed = "boolean"

If(s, node, condition, branches) ==
    IF ~IsCondition(condition) THEN Illegal(s, node)
    ELSE [branches EXCEPT !.node =
            [node EXCEPT !.condition = condition, !.branches = branches.node]]

VisitIf(s, node) ==
    If(s, node, Visit(s, node.condition), VisitAll(s, node.branches))

While(s, node, condition, body) ==
    IF ~IsCondition(condition) THEN Illegal(s, node)
    ELSE [body EXCEPT !.node = [node EXCEPT !.condition = condition, !.body = body.node]]

VisitWhile(s, node) ==
    While(s, node, Visit(s, node.condition), Visit(s, node.body))

Until(s, node, body, condition) ==
    IF ~body.ok \/ ~IsCondition(condition) THEN Illegal(s, node)
    ELSE [body EXCEPT !.node = [node EXCEPT !.condition = condition, !.body = body.node]]

Repeat(s, node, body) ==
    Until(s, node, body, Visit(body.table, node.condition))

VisitRepeat(s, node) == Repeat(s, node, VisitAll(s, node.body))

Limit(s, i, limit) ==
    /\ limit.typed # Untyped
    /\ AssignmentCompatible(s, s.tab[i].type, s.tab[i].ref, limit.typed, RefOf(s, limit))

For(s, node, i, from, to, body) ==
    IF ~Limit(s, i, from) \/ ~Limit(s, i, to) THEN Illegal(s, node)
    ELSE [body EXCEPT !.node =
            [node EXCEPT !.tab = i, !.from = from, !.to = to, !.body = body.node]]

\* visitFor visits a body only if it is a compound statement.
VisitForBody(s, body) ==
    IF body.kind = "compound" THEN Visit(s, body) ELSE Visited(s, TRUE, body)

ForCounting(s, node, i) ==
    For(s, node, i, Visit(s, node.from), Visit(s, node.to),
        VisitForBody(s, node.body))

ForCounter(s, node, i) ==
    IF \/ i = NoIndex
       \/ s.tab[i].obj # "variable" \/ s.tab[i].type \notin {"integer", "char"}
    THEN Illegal(s, node)
    ELSE ForCounting([s EXCEPT !.tab[i].initialized = TRUE], node, i)

VisitFor(s, node) == ForCounter(s, node, SymLookup(s, node.name))

LabelFits(s, selector, label, visited) ==
    /\ visited.typed # Untyped
    /\ label.kind = "name" => s.tab[visited.tab].obj = "constant"
    /\ Comparable(s, selector.typed, RefOf(s, selector), visited.typed, RefOf(s, visited))

Label(s, selector, label, visited) ==
    [ok |-> LabelFits(s, selector, label, visited), node |-> visited]

\* A label; reals and strings are not looked at.
VisitLabel(s, selector, label) ==
    IF label.kind = "literal" /\ label.type \in {"real", "string"}
    THEN [ok |-> TRUE, node |-> label]
    ELSE Label(s, selector, label, Visit(s, label))

CaseBlock(s, block, labels, statement) ==
    IF \E k \in DOMAIN labels : ~labels[k].ok THEN Illegal(s, block)
    ELSE [statement EXCEPT !.node =
            CaseBlockNode([k \in DOMAIN labels |-> labels[k].node], statement.node)]

VisitCaseBlock(s, selector, block) ==
    CaseBlock(s, block,
        [k \in DOMAIN block.labels |->
            VisitLabel(s, selector, BuildConstant(block.labels[k]))],
        Visit(s, block.statement))

Case(node, selector, blocks) ==
    [blocks EXCEPT !.node = [node EXCEPT !.selector = selector, !.blocks = blocks.node]]

CaseOf(s, node, selector) ==
    IF selector.typed = Untyped THEN Illegal(s, node)
    ELSE Case(node, selector,
              VisitEach(LAMBDA u, block : VisitCaseBlock(u, selector, block), s, node.blocks))

VisitCase(s, node) == CaseOf(s, node, Visit(s, node.selector))

VisitStatement(s, node) ==
    CASE node.kind = "empty"    -> Visited(s, TRUE, node)
      [] node.kind = "compound" -> VisitCompound(s, node)
      [] node.kind = "assign"   -> VisitAssign(s, node)
      [] node.kind = "if"       -> VisitIf(s, node)
      [] node.kind = "while"    -> VisitWhile(s, node)
      [] node.kind = "repeat"   -> VisitRepeat(s, node)
      [] node.kind = "for"      -> VisitFor(s, node)
      [] node.kind = "case"     -> VisitCase(s, node)
      [] node.kind = "call"     -> VisitCall(s, node)

-----------------------------------------------------------------------------
(***************************************************************************)
(* Declarations, blocks and the program.                                   *)
(***************************************************************************)
FormalsNamed(s, names, b) ==
    [k \in DOMAIN names |-> FindSameNameInBlock(s, names[k], b)]

NamesIn(groups) == FlattenSeq([k \in DOMAIN groups |-> groups[k].names])

\* The scope the heading entered is left, whatever the block was.
Subprogram(node, entry, parts, body) ==
    Visited(SymExitScope(body.table), body.ok,
        [node EXCEPT !.tab = entry, !.declarations = parts.node, !.body = body.node,
                     !.formals = FormalsNamed(parts.table, NamesIn(node.groups),
                                              parts.table.tab[entry].ref)])

SubprogramBody(node, entry, parts) ==
    IF ~parts.ok THEN Illegal(SymExitScope(parts.table), node)
    ELSE Subprogram(node, entry, parts, Visit(parts.table, node.body))

\* visitProcDecl and visitFuncDecl behind the heading.
SubprogramBlock(heading, node, entry) ==
    IF ~heading.ok THEN Illegal(heading.table, node)
    ELSE SubprogramBody(node, entry, VisitAll(heading.table, node.declarations))

VisitSubprogram(s, node) ==
    SubprogramBlock(IF node.kind = "procedure"
                    THEN ProcedureHeading(s, node.name, node.groups)
                    ELSE FunctionHeading(s, node.name, node.groups, node.result),
                    node, Len(s.tab) + 1)

Declared(step, node) == Visited(step.table, step.ok, node)

ConstantDeclared(s, node, value) ==
    Declared(DeclareConstant(s, node.name, value),
             [node EXCEPT !.tab = Len(s.tab) + 1, !.value = value])

\* The entry of a constant or of a subprogram is the next one.
VisitDeclaration(s, node) ==
    CASE node.kind = "const" -> ConstantDeclared(s, node, BuildConstant(node.value))
      [] node.kind = "type"  -> Declared(DeclareType(s, node.name, node.type), node)
      [] node.kind = "var"   -> Declared(DeclareVariable(s, node.name, node.type), node)
      [] node.kind \in {"procedure", "function"} -> VisitSubprogram(s, node)

Program(program, parts, body) ==
    Visited(SymExitScope(body.table), body.ok,
            ProgramNode(program.name, parts.node, body.node))

\* The body of the program has a scope of its own.
ProgramBody(program, parts) ==
    IF ~parts.ok THEN Illegal(parts.table, program)
    ELSE Program(program, parts, Visit(SymEnterScope(parts.table), program.body))

ProgramBlock(program, entered) ==
    IF entered.index = NoIndex THEN Illegal(entered.table, program)
    ELSE ProgramBody(program, VisitAll(entered.table, program.declarations))

VisitProgram(s, node) ==
    ProgramBlock(node, SymEnter(s, node.name, "program", "void", NoIndex, 1, 0))

Visit(s, node) ==
    CASE node.kind \in ExpressionKinds  -> VisitExpression(s, node)
      [] node.kind \in DeclarationKinds -> VisitDeclaration(s, node)
      [] node.kind = "program"          -> VisitProgram(s, node)
      [] OTHER                          -> VisitStatement(s, node)

\* decorateAst, from the tables symInit leaves.
DecorateAst(program) == Visit(InitialTable, program)
=============================================================================
