------------------------------- MODULE AstBuilder ------------------------------
(***************************************************************************)
(* From the parse tree to the abstract syntax tree (ast_builder.c), for    *)
(* the trees the parser and the validator let pass: no part is missing in  *)
(* them, and the branches for missing parts are left out.                  *)
(***************************************************************************)
EXTENDS SyntaxTree, SequencesExt

VARIABLE leftover             \* what is in a buffer that is read without having been written

Kids(node, label)  == SelectSeq(node.children, LAMBDA c : c.label = label)
Kid(node, label)   == Kids(node, label)[1]
Has(node, label)   == Kids(node, label) # <<>>
Lexemes(node)      == [k \in DOMAIN Kids(node, "ident") |-> Kids(node, "ident")[k].lexeme]

RECURSIVE BuildExpression(_), BuildFactor(_), BuildType(_), BuildStatement(_),
          BuildDeclarations(_)

-----------------------------------------------------------------------------
(* Constants, variables and expressions. *)

\* The type of literal a token stands for.
LiteralType == [intcon |-> "integer", realcon |-> "real", charcon |-> "char",
                string |-> "string"]

\* The lexemes of true and false.
TruthValue == [true |-> 1, false |-> 0]

\* extractLexeme does not copy an empty lexeme, and what its callers take for the copy is
\* whatever their buffer holds.
Extracted(leaf) ==
    IF leaf.label = "string" /\ leaf.lexeme = <<>> THEN leftover ELSE leaf.lexeme

BuildLiteral(leaf) == LiteralNode(LiteralType[leaf.label], Extracted(leaf))

\* buildConstant but for the sign, which BuildConstant of Declarations puts into the
\* number.  A sign before a name is forgotten here.
BuildWrittenConstant(node) ==
    LET leaf    == Last(node.children)
        negated == node.children[1].label = "minus"
    IN  CASE leaf.label # "ident" -> [BuildLiteral(leaf) EXCEPT !.negative = negated]
          [] leaf.label = "ident" /\ leaf.lexeme \in DOMAIN TruthValue ->
               LiteralNode("boolean", TruthValue[leaf.lexeme])
          [] OTHER -> NameNode(leaf.lexeme)

RECURSIVE BuildIndexes(_)

\* Mutant of BuildIndexes: a list inside the list is passed over.
BuildIndexesOutermost(list) ==
    FlattenSeq([k \in DOMAIN list.children |->
        LET c == list.children[k]
        IN  CASE c.label = "ident" -> <<NameNode(c.lexeme)>>
              [] c.label \in {"intcon", "charcon"} -> <<BuildLiteral(c)>>
              [] OTHER -> <<>>])

\* addIndexListChildren: the lists inside the list are taken apart.
BuildIndexes(list) ==
    FlattenSeq([k \in DOMAIN list.children |->
        LET c == list.children[k]
        IN  CASE c.label = "<index-list>" -> BuildIndexes(c)
              [] c.label = "ident" -> <<NameNode(c.lexeme)>>
              [] c.label \in {"intcon", "charcon"} -> <<BuildLiteral(c)>>
              [] OTHER -> <<>>])

RECURSIVE VariableUpto(_, _)

\* The name with the components up to the k-th child.
VariableUpto(node, k) ==
    LET c == node.children[k]
    IN  CASE k = 1 -> NameNode(c.lexeme)
          [] k > 1 /\ Has(c, "lbrack") ->
               ElementNode(VariableUpto(node, k - 1), BuildIndexes(Kid(c, "<index-list>")))
          [] k > 1 /\ Has(c, "period") -> FieldNode(VariableUpto(node, k - 1), Lexemes(c)[1])

BuildVariable(node) == VariableUpto(node, Len(node.children))

BuildParameterList(node) ==
    [k \in DOMAIN Kids(node, "<expression>") |-> BuildExpression(Kids(node, "<expression>")[k])]

\* buildProcFuncCall, the name and the arguments.
BuildArguments(call) ==
    IF Has(call, "<parameter-list>") THEN BuildParameterList(Kid(call, "<parameter-list>"))
    ELSE <<>>

\* A plus sign and parentheses leave no trace.
BuildFactor(node) ==
    LET c == node.children[1]
    IN  CASE c.label \in DOMAIN LiteralType -> BuildLiteral(c)
          [] c.label = "notsy"   -> UnaryNode("not", BuildFactor(node.children[2]))
          [] c.label = "plus"    -> BuildFactor(node.children[2])
          [] c.label = "minus"   -> UnaryNode("minus", BuildFactor(node.children[2]))
          [] c.label = "lparent" -> BuildExpression(node.children[2])
          [] c.label = "<variable>" -> BuildVariable(c)
          [] c.label = "<procedure/function-call>" -> ApplyNode(Lexemes(c)[1], BuildArguments(c))

OperatorOf(node) == node.children[1].label

RECURSIVE FactorsUpto(_, _), TermsUpto(_, _)

\* Operators of one rank bind to the left.
FactorsUpto(node, k) ==
    IF k = 1 THEN BuildFactor(node.children[1])
    ELSE BinaryNode(OperatorOf(node.children[k - 1]), FactorsUpto(node, k - 2),
                    BuildFactor(node.children[k]))

BuildTerm(node) == FactorsUpto(node, Len(node.children))

\* A sign belongs to the first term.
TermsUpto(node, k) ==
    LET sign == node.children[1].label
        term == BuildTerm(node.children[k])
    IN  CASE k = 1 \/ (k = 2 /\ sign = "plus") -> term
          [] k = 2 /\ sign = "minus" -> UnaryNode("minus", term)
          [] OTHER -> BinaryNode(OperatorOf(node.children[k - 1]), TermsUpto(node, k - 2), term)

\* Mutant of BuildSimpleExpression: a sign belongs to the whole sum.
BuildSimpleExpressionSignLast(node) ==
    LET unsigned == [node EXCEPT !.children = Tail(@)]
    IN  IF node.children[1].label = "minus"
        THEN UnaryNode("minus", TermsUpto(unsigned, Len(unsigned.children)))
        ELSE TermsUpto(node, Len(node.children))

BuildSimpleExpression(node) == TermsUpto(node, Len(node.children))

BuildExpression(node) ==
    LET left == BuildSimpleExpression(node.children[1])
    IN  IF Len(node.children) = 1 THEN left
        ELSE BinaryNode(OperatorOf(node.children[2]), left,
                        BuildSimpleExpression(node.children[3]))

-----------------------------------------------------------------------------
(* Statements. *)

BuildStatementList(node) ==
    [k \in DOMAIN Kids(node, "<statement>") |-> BuildStatement(Kids(node, "<statement>")[k])]

BuildCompoundStatement(node) ==
    CompoundNode(IF Has(node, "<statement-list>")
                 THEN BuildStatementList(Kid(node, "<statement-list>")) ELSE <<>>)

BuildAssignmentStatement(node) ==
    AssignNode(BuildVariable(Kid(node, "<variable>")), BuildExpression(Kid(node, "<expression>")))

BuildIfStatement(node) ==
    IfNode(BuildExpression(Kid(node, "<expression>")), BuildStatementList(node))

BuildWhileStatement(node) ==
    WhileNode(BuildExpression(Kid(node, "<expression>")), BuildStatement(Kid(node, "<statement>")))

BuildForStatement(node) ==
    LET limits == BuildParameterList(node)
    IN  ForNode(Lexemes(node)[1], limits[1], Has(node, "downtosy"), limits[2],
                BuildStatement(Kid(node, "<statement>")))

BuildRepeatStatement(node) ==
    RepeatNode(BuildStatementList(Kid(node, "<statement-list>")),
               BuildExpression(Kid(node, "<expression>")))

BuildCaseBlock(node) ==
    LET constants == Kids(node, "<constant>")
    IN  CaseBlockNode([k \in DOMAIN constants |-> BuildWrittenConstant(constants[k])],
                      BuildStatement(Kid(node, "<statement>")))

RECURSIVE BuildCaseBlocks(_)

\* The chain of blocks becomes a list.
BuildCaseBlocks(node) ==
    <<BuildCaseBlock(node)>>
      \o (IF Has(node, "<case-block>") THEN BuildCaseBlocks(Kid(node, "<case-block>")) ELSE <<>>)

BuildCaseStatement(node) ==
    CaseNode(BuildExpression(Kid(node, "<expression>")),
             BuildCaseBlocks(Kid(node, "<case-block>")))

\* buildStatement and the statements of dispatchNode.
BuildStatement(node) ==
    LET c == node.children[1]
    IN  IF node.children = <<>> THEN EmptyNode
        ELSE CASE c.label = "<assignment-statement>" -> BuildAssignmentStatement(c)
               [] c.label = "<compound-statement>"   -> BuildCompoundStatement(c)
               [] c.label = "<if-statement>"         -> BuildIfStatement(c)
               [] c.label = "<while-statement>"      -> BuildWhileStatement(c)
               [] c.label = "<for-statement>"        -> BuildForStatement(c)
               [] c.label = "<repeat-statement>"     -> BuildRepeatStatement(c)
               [] c.label = "<case-statement>"       -> BuildCaseStatement(c)
               [] c.label = "<procedure/function-call>" ->
                    CallNode(Lexemes(c)[1], BuildArguments(c))

-----------------------------------------------------------------------------
(* Types and declarations. *)

BuildRange(node) ==
    LET constants == Kids(node, "<constant>")
    IN  RangeNode(BuildWrittenConstant(constants[1]), BuildWrittenConstant(constants[2]))

BuildArrayType(node) ==
    ArrayNode(IF Has(node, "<range>") THEN BuildRange(Kid(node, "<range>"))
              ELSE TypeNameNode(Lexemes(node)[1]),
              BuildType(Kid(node, "<type>")))

BuildFieldPart(node) ==
    GroupNode(Lexemes(Kid(node, "<identifier-list>")), BuildType(Kid(node, "<type>")))

BuildRecordType(node) ==
    LET parts == IF Has(node, "<field-list>") THEN Kids(Kid(node, "<field-list>"), "<field-part>")
                 ELSE <<>>
    IN  RecordNode([k \in DOMAIN parts |-> BuildFieldPart(parts[k])])

BuildType(node) ==
    LET c == node.children[1]
    IN  CASE c.label = "ident"         -> TypeNameNode(c.lexeme)
          [] c.label = "<array-type>"  -> BuildArrayType(c)
          [] c.label = "<record-type>" -> BuildRecordType(c)
          [] c.label = "<enumerated>"  -> EnumeratedNode(Lexemes(c))
          [] c.label = "<range>"       -> BuildRange(c)

BuildParameterGroup(node) ==
    GroupNode(Lexemes(Kid(node, "<identifier-list>")),
              IF Has(node, "<array-type>") THEN BuildArrayType(Kid(node, "<array-type>"))
              ELSE TypeNameNode(Lexemes(node)[1]))

\* Each name comes right before its constant or type, with a token between.
BuildConstDeclaration(node) ==
    LET constants == Kids(node, "<constant>")
    IN  [k \in DOMAIN constants |->
            ConstNode(Lexemes(node)[k], BuildWrittenConstant(constants[k]))]

BuildTypeDeclaration(node) ==
    LET types == Kids(node, "<type>")
    IN  [k \in DOMAIN types |-> TypeNode(Lexemes(node)[k], BuildType(types[k]))]

\* A declaration of its own for every name of a list, each with a copy of the type.
BuildVarDeclaration(node) ==
    LET lists == Kids(node, "<identifier-list>")
        types == Kids(node, "<type>")
    IN  FlattenSeq([k \in DOMAIN lists |->
            [n \in DOMAIN Lexemes(lists[k]) |->
                VarNode(Lexemes(lists[k])[n], BuildType(types[k]))]])

BuildFormalParameterList(node) ==
    LET groups == Kids(node, "<parameter-group>")
    IN  [k \in DOMAIN groups |-> BuildParameterGroup(groups[k])]

\* The parameters of a heading, if any.
BuildHeading(node) ==
    IF Has(node, "<formal-parameter-list>")
    THEN BuildFormalParameterList(Kid(node, "<formal-parameter-list>")) ELSE <<>>

BuildSubprogramDeclaration(node) ==
    LET c     == node.children[1]
        block == Kid(c, "block")
        declarations == BuildDeclarations(Kid(block, "<declaration-part>"))
        body  == BuildCompoundStatement(Kid(block, "<compound-statement>"))
    IN  IF c.label = "<procedure-declaration>"
        THEN ProcedureNode(Lexemes(c)[1], BuildHeading(c), declarations, body)
        ELSE FunctionNode(Lexemes(c)[1], BuildHeading(c), Lexemes(c)[2], declarations, body)

\* buildDeclarationPart and the declarations of dispatchNode.
BuildDeclarations(part) ==
    FlattenSeq([k \in DOMAIN part.children |->
        LET c == part.children[k]
        IN  CASE c.label = "<const-declaration>" -> BuildConstDeclaration(c)
              [] c.label = "<type-declaration>"  -> BuildTypeDeclaration(c)
              [] c.label = "<var-declaration>"   -> BuildVarDeclaration(c)
              [] c.label = "<subprogram-declaration>" -> <<BuildSubprogramDeclaration(c)>>])

BuildProgram(node) ==
    ProgramNode(Lexemes(Kid(node, "<program-header>"))[1],
                BuildDeclarations(Kid(node, "<declaration-part>")),
                BuildCompoundStatement(Kid(node, "<compound-statement>")))
=============================================================================
