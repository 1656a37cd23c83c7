-------------------------------- MODULE Writing --------------------------------
(***************************************************************************)
(* How a program is written: for a syntax tree a sequence of tokens the    *)
(* documented productions (README.md, "Daftar Node dan Production") derive *)
(* with the shape of the tree, with no more parentheses than they ask for. *)
(* This is what the parser and the tree builder are held against; it knows *)
(* nothing of how they work.                                               *)
(*                                                                         *)
(* A tree cannot be written in which an else follows an if without one.    *)
(***************************************************************************)
EXTENDS SyntaxTree, Parsing, SequencesExt

Plain(type)   == <<Token(type, type)>>
Name(name)    == <<Token("ident", name)>>
Parens(text)  == Plain("lparent") \o text \o Plain("rparent")

\* Texts with a separator between them.
Joined(texts, separator) ==
    FlattenSeq([k \in DOMAIN texts |-> IF k = 1 THEN texts[k] ELSE Plain(separator) \o texts[k]])

NameList(names) == Joined([k \in DOMAIN names |-> Name(names[k])], "comma")

RECURSIVE Bare(_), Expr(_, _), Type(_), Stmt(_), Decls(_)

-----------------------------------------------------------------------------
LiteralToken == [integer |-> "intcon", real |-> "realcon", char |-> "charcon", string |-> "string"]

Literal(node) ==
    IF node.type = "boolean" THEN Name(IF node.value = 1 THEN "true" ELSE "false")
    ELSE <<Token(LiteralToken[node.type], node.value)>>

Constant(node) ==
    CASE node.kind = "name" -> Name(node.name)
      [] node.kind = "literal" -> (IF node.negative THEN Plain("minus") ELSE <<>>) \o Literal(node)

ExpressionRank == 0
SimpleRank     == 1
TermRank       == 2
FactorRank     == 3

RankOf(node) ==
    CASE node.kind = "binop" /\ node.op \in Relational     -> ExpressionRank
      [] node.kind = "binop" /\ node.op \in Additive       -> SimpleRank
      [] node.kind = "binop" /\ node.op \in Multiplicative -> TermRank
      [] node.kind = "unop"  /\ node.op = "minus"          -> SimpleRank
      [] OTHER                                             -> FactorRank

List(nodes, rank) == Joined([k \in DOMAIN nodes |-> Expr(nodes[k], rank)], "comma")

Bare(node) ==
    LET rank == RankOf(node)
    IN  CASE node.kind = "literal" -> Literal(node)
          [] node.kind = "name"    -> Name(node.name)
          [] node.kind = "element" ->
               Bare(node.base) \o Plain("lbrack") \o List(node.indexes, FactorRank) \o Plain("rbrack")
          [] node.kind = "field"   -> Bare(node.base) \o Plain("period") \o Name(node.field)
          [] node.kind = "apply"   -> Name(node.name) \o Parens(List(node.arguments, ExpressionRank))
          [] node.kind = "unop" /\ node.op = "not"   -> Plain("notsy") \o Expr(node.operand, FactorRank)
          [] node.kind = "unop" /\ node.op = "minus" -> Plain("minus") \o Expr(node.operand, TermRank)
          [] node.kind = "binop" ->
               Expr(node.left, IF rank = ExpressionRank THEN SimpleRank ELSE rank)
                 \o Plain(node.op) \o Expr(node.right, rank + 1)

\* An expression in a place for one of the given rank.
Expr(node, rank) == IF RankOf(node) < rank THEN Parens(Bare(node)) ELSE Bare(node)

-----------------------------------------------------------------------------
Statements(nodes) == Joined([k \in DOMAIN nodes |-> Stmt(nodes[k])], "semicolon")

Case(block) ==
    Joined([k \in DOMAIN block.labels |-> Constant(block.labels[k])], "comma")
      \o Plain("colon") \o Stmt(block.statement)

Call(node) == Name(node.name) \o Parens(List(node.arguments, ExpressionRank))

Stmt(node) ==
    CASE node.kind = "empty"    -> <<>>
      [] node.kind = "compound" -> Plain("beginsy") \o Statements(node.statements) \o Plain("endsy")
      [] node.kind = "assign"   -> Bare(node.target) \o Plain("becomes") \o Expr(node.source, 0)
      [] node.kind = "call"     -> Call(node)
      [] node.kind = "if"       ->
           Plain("ifsy") \o Expr(node.condition, 0) \o Plain("thensy") \o Stmt(node.branches[1])
             \o (IF Len(node.branches) = 1 THEN <<>>
                 ELSE Plain("elsesy") \o Stmt(node.branches[2]))
      [] node.kind = "while"    ->
           Plain("whilesy") \o Expr(node.condition, 0) \o Plain("dosy") \o Stmt(node.body)
      [] node.kind = "repeat"   ->
           Plain("repeatsy") \o Statements(node.body) \o Plain("untilsy") \o Expr(node.condition, 0)
      [] node.kind = "for"      ->
           Plain("forsy") \o Name(node.name) \o Plain("becomes") \o Expr(node.from, 0)
             \o Plain(IF node.down THEN "downtosy" ELSE "tosy") \o Expr(node.to, 0)
             \o Plain("dosy") \o Stmt(node.body)
      [] node.kind = "case"     ->
           Plain("casesy") \o Expr(node.selector, 0) \o Plain("ofsy")
             \o Joined([k \in DOMAIN node.blocks |-> Case(node.blocks[k])], "semicolon")
             \o Plain("endsy")

-----------------------------------------------------------------------------
Group(group) == NameList(group.names) \o Plain("colon") \o Type(group.type)

Groups(groups) == Joined([k \in DOMAIN groups |-> Group(groups[k])], "semicolon")

Type(type) ==
    CASE type.kind = "name"  -> Name(type.name)
      [] type.kind = "range" ->
           Constant(type.low) \o Plain("period") \o Plain("period") \o Constant(type.high)
      [] type.kind = "enumerated" -> Parens(NameList(type.names))
      [] type.kind = "array" ->
           Plain("arraysy") \o Plain("lbrack") \o Type(type.index) \o Plain("rbrack")
             \o Plain("ofsy") \o Type(type.element)
      [] type.kind = "record" -> Plain("recordsy") \o Groups(type.fields) \o Plain("endsy")

Formals(node) == IF node.groups = <<>> THEN <<>> ELSE Parens(Groups(node.groups))

Body(node) == Decls(node.declarations) \o Stmt(node.body)

DeclaredBy(node) ==
    CASE node.kind = "const" -> Name(node.name) \o Plain("eql") \o Constant(node.value)
      [] node.kind = "type"  -> Name(node.name) \o Plain("eql") \o Type(node.type)
      [] node.kind = "var"   -> Name(node.name) \o Plain("colon") \o Type(node.type)
      [] node.kind = "procedure" ->
           Plain("proceduresy") \o Name(node.name) \o Formals(node) \o Plain("semicolon") \o Body(node)
      [] node.kind = "function"  ->
           Plain("functionsy") \o Name(node.name) \o Formals(node) \o Plain("colon")
             \o Name(node.result) \o Plain("semicolon") \o Body(node)

\* The keyword of a section stands before its first declaration.
Decls(nodes) ==
    LET keyword == [const |-> "constsy", type |-> "typesy", var |-> "varsy"]
        Opens(k) == nodes[k].kind \in DOMAIN keyword
                      /\ (k = 1 \/ nodes[k - 1].kind # nodes[k].kind)
    IN  FlattenSeq([k \in DOMAIN nodes |->
            (IF Opens(k) THEN Plain(keyword[nodes[k].kind]) ELSE <<>>)
              \o DeclaredBy(nodes[k]) \o Plain("semicolon")])

\* The tokens of a program, the end of the file included.
ProgramText(program) ==
    Plain("programsy") \o Name(program.name) \o Plain("semicolon")
      \o Body(program) \o Plain("period") \o Plain("eof")
=============================================================================
