------------------------------- MODULE MCFrontEnd ------------------------------
(***************************************************************************)
(* Instances of the front end: small expressions with every order of the   *)
(* operators, statements within statements, the programs the toolchain is  *)
(* checked with, and short programs with every construct in which the      *)
(* mistakes are made.                                                      *)
(***************************************************************************)
EXTENDS FrontEnd, ProgramFamilies

Lone(statement) == ProgramNode("prog", <<>>, Begin(<<statement>>))

-----------------------------------------------------------------------------
(* Expressions with up to two operators, three if they are unary. *)

\* A relational operator, and two of each other rank.
Dyadic == {"eql", "plus", "minus", "orsy", "times", "andsy"}

\* Some expressions, and those with one operator over them, named by operator and operands.
Over(operands) ==
    [name \in (Dyadic \union {"itself", "not", "opposite"})
                \X (DOMAIN operands) \X (DOMAIN operands) |->
        CASE name[1] = "itself"   -> operands[name[2]]
          [] name[1] = "not"      -> Not(operands[name[2]])
          [] name[1] = "opposite" -> Opposite(operands[name[2]])
          [] name[1] \in Dyadic   -> Op(operands[name[2]], name[1], operands[name[3]])]

Operands == <<N("x"), ApplyNode("f", <<N("y"), Opposite(N("x"))>>)>>

Twice == Over(Over(Operands))

-----------------------------------------------------------------------------
(* Statements within statements within statements, named by what they are from the    *)
(* outside in.                                                                        *)
Inner == <<Let("x", Num(1)), CallNode("f", <<>>), EmptyNode, Begin(<<>>)>>

Negative(n) == [Num(n) EXCEPT !.negative = TRUE]

\* An empty statement in a list is only a semicolon, and leaves no node.
Listed(s) == IF s.kind = "empty" THEN <<>> ELSE <<s, s>>

\* A statement around s.  An else stands behind a begin and its end.
Enclosing(kind, s) ==
    CASE kind = "if"     -> IfNode(N("b"), <<s>>)
      [] kind = "else"   -> IfNode(N("b"), <<Begin(Listed(s)), s>>)
      [] kind = "while"  -> WhileNode(N("b"), s)
      [] kind = "for"    -> ForNode("x", N("x"), TRUE, N("y"), s)
      [] kind = "case"   -> CaseNode(N("x"), <<CaseBlockNode(<<Num(1), N("k")>>, s),
                                               CaseBlockNode(<<Negative(2)>>, s)>>)
      [] kind = "repeat" -> RepeatNode(Listed(s), N("b"))
      [] kind = "begin"  -> Begin(Listed(s))

Kinds == {"if", "else", "while", "for", "case", "repeat", "begin"}

Nestings == Kinds \X Kinds \X Kinds \X (DOMAIN Inner)

\* And the programs the toolchain is checked with, one statement at a time.
Used == Simple \o Composite \o Controlling

StatementProgram(name) ==
    IF name \in Nestings
    THEN Lone(Enclosing(name[1], Enclosing(name[2], Enclosing(name[3], Inner[name[4]]))))
    ELSE InContext(Contexts[name[1]], <<Used[name[2]]>>)

-----------------------------------------------------------------------------
(* The texts in which mistakes are made. *)
Row(type) == ArrayNode(Upto(1, 2), type)

ShortPrograms ==
    <<ProgramNode("prog",
          <<ConstNode("k", Negative(1)), ConstNode("l", Letter(65)),
            TypeNode("t", RecordNode(<<GroupNode(<<"f", "g">>, T("k")),
                                       GroupNode(<<"h">>, ArrayNode(T("u"), T("k")))>>)),
            TypeNode("u", EnumeratedNode(<<"red", "green">>)),
            VarNode("a", ArrayNode(RangeNode(Negative(1), N("k")), T("t"))),
            VarNode("b", Upto(1, 2))>>,
          Begin(<<>>)),
      ProgramNode("prog",
          <<ProcedureNode("p", <<GroupNode(<<"a", "b">>, T("t")), GroupNode(<<"c">>, Row(T("t")))>>,
                <<VarNode("v", T("t"))>>, Begin(<<>>)),
            FunctionNode("f", <<GroupNode(<<"a">>, T("t"))>>, "t", <<>>,
                Begin(<<Let("f", N("a"))>>))>>,
          Begin(<<CallNode("p", <<>>)>>)),
      Lone(IfNode(N("b"),
          <<Begin(<<CallNode("p", <<N("x"), Num(1)>>),
                    WhileNode(N("b"), EmptyNode)>>),
            ForNode("x", Num(1), FALSE, N("y"), RepeatNode(<<Let("x", Num(1))>>, N("b")))>>)),
      Lone(CaseNode(N("x"), <<CaseBlockNode(<<Negative(1), N("k")>>, Let("x", N("y"))),
                              CaseBlockNode(<<Num(2)>>, CallNode("p", <<>>))>>)),
      Lone(Set(Field(ElementNode(N("a"), <<Num(1), N("k")>>), "f"),
               Op(Opposite(Op(N("x"), "times", Not(N("y")))), "plus",
                  ApplyNode("f", <<Op(N("x"), "lss", Num(1)), Letter(65)>>))))>>

\* A literal without a character, in a statement and in a declaration.
EmptyLiteral == LiteralNode("string", <<>>)

EmptyLiteralPrograms ==
    <<Lone(Let("s", EmptyLiteral)),
      ProgramNode("prog", <<ConstNode("k", EmptyLiteral)>>, Begin(<<>>))>>

-----------------------------------------------------------------------------
(* The instances of Programs; a name says what kind of program it is. *)
ShortNames == {"short"} \X (DOMAIN ShortPrograms)

TextNames ==
    ({"expression"} \X (DOMAIN Twice))
      \union ({"statement"} \X (Nestings \union ((DOMAIN Contexts) \X (DOMAIN Used))))
      \union ShortNames

EveryText ==
    [name \in TextNames |->
        CASE name[1] = "expression" -> Lone(Let("x", Twice[name[2]]))
          [] name[1] = "statement"  -> StatementProgram(name[2])
          [] name[1] = "short"      -> ShortPrograms[name[2]]]

OnlyShort == [name \in ShortNames |-> ShortPrograms[name[2]]]

\* Those with signs before names, or an empty literal.
UnsaidNames == ShortNames \union ({"empty"} \X (DOMAIN EmptyLiteralPrograms))

UnsaidTexts ==
    [name \in UnsaidNames |->
        IF name[1] = "short" THEN ShortPrograms[name[2]] ELSE EmptyLiteralPrograms[name[2]]]

\* The instances of Leftovers: no text but the last ones has an empty literal.
Nothing  == {<<>>}
Anything == {<<>>, <<72, 73>>}

SomeTypes == {"ident", "intcon", "minus", "comma", "semicolon", "period", "lparent", "rparent",
              "beginsy", "endsy", "elsesy", "unknown"}

EveryType ==
    (ConstantStart \union TypeStart \union DeclarationStart \union StatementStart
       \union ExpressionBoundary \union Relational \union Additive \union Multiplicative
       \union {"becomes", "programsy", "comment", "unknown"}) \ {"eof"}
=============================================================================
