------------------------------ MODULE SyntaxTree -------------------------------
(***************************************************************************)
(* The abstract syntax tree (ast_node.h): a node is a record with its kind *)
(* and its children, and the marks the semantic phase leaves on it for the *)
(* code generator: `tab`, the index of the entry it was resolved to, and   *)
(* `typed`, its type.  A node is built without marks.                      *)
(*                                                                         *)
(* The nodes that only hold other nodes together (IdentList, ParamList,    *)
(* DeclPart, StmtList, CaseBlock) are sequences here.                      *)
(***************************************************************************)

Unresolved == 0               \* tabIdx = -1, as NoIndex is
Untyped    == "none"          \* typeIdx = -1

\* Expressions.  A name is AST_VAR, an element AST_ARRAY_ACCESS, whose indexes are
\* literals and names, an application AST_FUNC_CALL.
LiteralNode(type, value) ==
    [kind |-> "literal", type |-> type, value |-> value, negative |-> FALSE,
     typed |-> Untyped]
NameNode(name) ==
    [kind |-> "name", name |-> name, tab |-> Unresolved, typed |-> Untyped]
ElementNode(base, indexes) ==
    [kind |-> "element", base |-> base, indexes |-> indexes, tab |-> Unresolved,
     typed |-> Untyped]
FieldNode(base, field) ==
    [kind |-> "field", base |-> base, field |-> field, tab |-> Unresolved,
     typed |-> Untyped]
ApplyNode(name, arguments) ==
    [kind |-> "apply", name |-> name, arguments |-> arguments, tab |-> Unresolved,
     typed |-> Untyped]
BinaryNode(op, left, right) ==
    [kind |-> "binop", op |-> op, left |-> left, right |-> right, typed |-> Untyped]
UnaryNode(op, operand) ==
    [kind |-> "unop", op |-> op, operand |-> operand, typed |-> Untyped]

RelationalOperators == {"eql", "neq", "lss", "leq", "gtr", "geq"}
BooleanOperators    == {"andsy", "orsy"}
ArithmeticOperators == {"plus", "minus", "times", "rdiv", "idiv", "imod"}

\* Statements.
EmptyNode == [kind |-> "empty"]
CompoundNode(statements) == [kind |-> "compound", statements |-> statements]
AssignNode(target, source) == [kind |-> "assign", target |-> target, source |-> source]
IfNode(condition, branches) ==
    [kind |-> "if", condition |-> condition, branches |-> branches]
WhileNode(condition, body) == [kind |-> "while", condition |-> condition, body |-> body]
RepeatNode(body, condition) == [kind |-> "repeat", condition |-> condition, body |-> body]
ForNode(name, from, down, to, body) ==
    [kind |-> "for", name |-> name, from |-> from, down |-> down, to |-> to,
     body |-> body, tab |-> Unresolved]
CaseBlockNode(labels, statement) == [labels |-> labels, statement |-> statement]
CaseNode(selector, blocks) == [kind |-> "case", selector |-> selector, blocks |-> blocks]
CallNode(name, arguments) ==
    [kind |-> "call", name |-> name, arguments |-> arguments, tab |-> Unresolved]

\* Type expressions, and a list of names with their type: fields or parameters.
TypeNameNode(name) == [kind |-> "name", name |-> name]
RangeNode(low, high) == [kind |-> "range", low |-> low, high |-> high]
EnumeratedNode(names) == [kind |-> "enumerated", names |-> names]
ArrayNode(index, element) == [kind |-> "array", index |-> index, element |-> element]
RecordNode(fields) == [kind |-> "record", fields |-> fields]
GroupNode(names, type) == [names |-> names, type |-> type]

\* Declarations of one name each.  `formals` are the marks of a heading's identifiers.
ConstNode(name, value) ==
    [kind |-> "const", name |-> name, value |-> value, tab |-> Unresolved]
TypeNode(name, type) == [kind |-> "type", name |-> name, type |-> type]
VarNode(name, type) == [kind |-> "var", name |-> name, type |-> type]
ProcedureNode(name, groups, declarations, body) ==
    [kind |-> "procedure", name |-> name, groups |-> groups, tab |-> Unresolved,
     formals |-> <<>>, declarations |-> declarations, body |-> body]
FunctionNode(name, groups, type, declarations, body) ==
    [kind |-> "function", name |-> name, groups |-> groups, result |-> type,
     tab |-> Unresolved, formals |-> <<>>, declarations |-> declarations, body |-> body]

ProgramNode(name, declarations, body) ==
    [kind |-> "program", name |-> name, declarations |-> declarations, body |-> body]

\* Kinds of nodes.
ExpressionKinds  == {"literal", "name", "element", "field", "apply", "binop", "unop"}
DeclarationKinds == {"const", "type", "var", "procedure", "function"}
=============================================================================
