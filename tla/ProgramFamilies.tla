---------------------------- MODULE ProgramFamilies ----------------------------
(***************************************************************************)
(* Families of programs, as trees.  A program sets the variables of every  *)
(* type, executes two of the statements below, and writes what they left;  *)
(* its variables are global, local, or those of an enclosing procedure.    *)
(***************************************************************************)
EXTENDS SyntaxTree, Integers, SequencesExt

-----------------------------------------------------------------------------
(* A notation for trees. *)
Num(n)      == LiteralNode("integer", n)
Halves(n)   == LiteralNode("real", <<n, 2>>)          \* n halves
Letter(n)   == LiteralNode("char", n)
Text(n)     == LiteralNode("string", <<n, n>>)
N(name)     == NameNode(name)
At(base, index)       == ElementNode(base, <<index>>)
Field(base, field)    == FieldNode(base, field)
Op(left, op, right)   == BinaryNode(op, left, right)
Not(operand)          == UnaryNode("not", operand)
Opposite(operand)     == UnaryNode("minus", operand)
Set(target, source)   == AssignNode(target, source)
Let(name, source)     == AssignNode(N(name), source)
Begin(statements)     == CompoundNode(statements)
Out(arguments)        == CallNode("write", arguments)
OutLn(arguments)      == CallNode("writeln", arguments)
T(name)               == TypeNameNode(name)
Upto(low, high)       == RangeNode(Num(low), Num(high))

-----------------------------------------------------------------------------
(* The common declarations. *)
Types ==
    <<ConstNode("k", Num(2)),
      TypeNode("small", Upto(1, 3)),
      TypeNode("colour", EnumeratedNode(<<"red", "green">>)),
      TypeNode("row", ArrayNode(Upto(2, 3), T("integer"))),
      TypeNode("pair", RecordNode(<<GroupNode(<<"first">>, T("integer")),
                                    GroupNode(<<"second">>, T("row"))>>))>>

Variables ==
    <<VarNode("x", T("integer")), VarNode("y", T("integer")), VarNode("r", T("real")),
      VarNode("b", T("boolean")), VarNode("c", T("char")), VarNode("s", T("string")),
      VarNode("u", T("small")), VarNode("e", T("colour")), VarNode("a", T("row")),
      VarNode("m", ArrayNode(T("small"), T("row"))), VarNode("p", T("pair")),
      VarNode("q", T("pair"))>>

\* A function that counts its calls in x, so that the order of evaluation shows; one
\* that returns a record; a recursive one; one with a loop; a procedure with a local
\* procedure that works on the parameters and the variables around it.
Subprograms ==
    <<FunctionNode("tick", <<GroupNode(<<"n">>, T("real"))>>, "real", <<>>,
          Begin(<<Let("x", Op(N("x"), "plus", Num(1))),
                  Let("tick", Op(N("n"), "plus", N("x")))>>)),
      FunctionNode("make", <<GroupNode(<<"z", "w">>, T("integer"))>>, "pair",
          <<VarNode("t", T("pair"))>>,
          Begin(<<Set(Field(N("t"), "first"), N("z")),
                  Set(At(Field(N("t"), "second"), N("k")), N("w")),
                  Let("make", N("t"))>>)),
      FunctionNode("sum", <<GroupNode(<<"n">>, T("small"))>>, "integer", <<>>,
          Begin(<<IfNode(Op(N("n"), "leq", Num(1)),
                         <<Let("sum", Num(1)),
                           Let("sum", Op(N("n"), "plus",
                               ApplyNode("sum", <<Op(N("n"), "minus", Num(1))>>)))>>)>>)),
      FunctionNode("steps", <<>>, "integer", <<VarNode("i", T("integer"))>>,
          Begin(<<Let("steps", Num(0)),
                  ForNode("i", Num(1), FALSE, Num(2),
                     Begin(<<Let("steps", Op(N("steps"), "plus", N("i")))>>))>>)),
      ProcedureNode("swap", <<GroupNode(<<"g">>, T("pair")), GroupNode(<<"x">>, T("integer"))>>,
          <<ProcedureNode("inner", <<GroupNode(<<"d">>, T("integer"))>>, <<>>,
               Begin(<<Set(Field(N("g"), "first"), N("d")),
                       Let("x", Op(N("x"), "plus", N("d"))),
                       Let("y", N("x"))>>))>>,
          Begin(<<CallNode("inner", <<Num(3)>>),
                  OutLn(<<Field(N("g"), "first"), N("x")>>)>>))>>

Setting ==
    <<Let("x", Num(1)), Let("y", Num(2)), Let("r", Halves(1)), Let("b", N("true")),
      Let("c", Letter(65)), Let("s", Text(66)), Let("u", N("k")), Let("e", N("red")),
      Set(At(N("a"), Num(2)), Num(5)), Set(At(N("a"), Num(3)), Num(6)),
      Set(At(N("m"), Num(1)), N("a")), Set(Field(N("p"), "first"), Num(7)),
      Set(Field(N("p"), "second"), N("a"))>>

Showing ==
    <<Out(<<N("x"), N("y"), N("r"), N("b")>>), Out(<<N("c"), N("u"), N("e")>>),
      OutLn(<<At(N("a"), Num(2)), Field(N("p"), "first"),
                At(Field(N("p"), "second"), Num(3))>>)>>

-----------------------------------------------------------------------------
(* The statements. *)
Simple ==
    <<Let("x", Op(N("y"), "minus", Op(N("k"), "times", Num(3)))),
      Let("x", Op(Opposite(N("x")), "imod", N("k"))),
      Let("y", Op(N("y"), "idiv", Op(N("x"), "minus", Num(1)))),
      Let("r", N("x")),
      Let("r", Op(N("r"), "rdiv", N("x"))),
      Let("r", ApplyNode("tick", <<N("y")>>)),
      Let("r", Op(ApplyNode("tick", <<N("x")>>), "times", ApplyNode("tick", <<N("x")>>))),
      Let("b", Op(Op(N("x"), "lss", N("r")), "andsy",
                  Op(ApplyNode("tick", <<N("r")>>), "gtr", Num(2)))),
      Let("b", Op(Op(N("x"), "lss", N("r")), "orsy",
                  Op(ApplyNode("tick", <<N("r")>>), "gtr", Num(2)))),
      Let("b", Not(Op(N("e"), "eql", N("green")))),
      Let("b", Op(N("s"), "lss", Text(67))),
      Let("e", N("green")),
      Let("u", N("x")),
      Let("u", Op(N("u"), "plus", Num(1))),
      CallNode("sum", <<N("u")>>),
      Let("x", ApplyNode("sum", <<N("y")>>)),
      OutLn(<<>>)>>

Composite ==
    <<Set(At(N("a"), N("x")), N("y")),
      Set(At(N("a"), N("y")), At(N("a"), Num(3))),
      Set(At(At(N("m"), N("u")), N("y")), N("x")),
      Set(ElementNode(N("m"), <<N("x"), N("y")>>), N("y")),
      Set(At(N("m"), N("y")), N("a")),
      Let("a", At(N("m"), N("x"))),
      Let("a", At(N("m"), N("u"))),
      Let("q", N("p")),
      Let("p", N("q")),
      Let("p", ApplyNode("make", <<N("x"), N("y")>>)),
      Set(Field(N("p"), "second"), At(N("m"), Num(1))),
      CallNode("make", <<N("x"), ApplyNode("sum", <<N("u")>>)>>),
      CallNode("swap", <<N("p"), N("y")>>),
      CallNode("swap", <<ApplyNode("make", <<N("y"), N("x")>>), At(N("a"), N("y"))>>)>>

Controlling ==
    <<IfNode(Op(N("x"), "lss", N("y")), <<Let("x", N("y"))>>),
      IfNode(N("b"), <<Let("b", N("false")), OutLn(<<N("s")>>)>>),
      WhileNode(Op(N("x"), "lss", Num(3)), Let("x", Op(N("x"), "plus", Num(1)))),
      RepeatNode(<<Let("y", Op(N("y"), "minus", Num(1))), Out(<<N("y")>>)>>,
                 Op(N("y"), "leq", Num(0))),
      ForNode("x", Num(1), FALSE, N("y"), Begin(<<Out(<<N("x"), N("y")>>)>>)),
      ForNode("u", N("y"), TRUE, N("x"), Begin(<<Out(<<N("u")>>)>>)),
      ForNode("u", N("x"), FALSE, Num(4), Begin(<<Out(<<N("u")>>)>>)),
      ForNode("c", Letter(254), FALSE, Letter(255), Begin(<<Out(<<N("c")>>)>>)),
      ForNode("x", Num(1), FALSE, Num(2),
         Begin(<<ForNode("y", N("x"), FALSE, Num(2),
                   Begin(<<Let("r", Op(N("r"), "plus", ApplyNode("steps", <<>>)))>>))>>)),
      CaseNode(N("x"),
         <<CaseBlockNode(<<Num(0), Num(1)>>,
              CaseNode(N("y"), <<CaseBlockNode(<<Num(3)>>, Let("y", Num(4))),
                                 CaseBlockNode(<<N("k")>>, Let("x", Num(2)))>>)),
           CaseBlockNode(<<N("k"), Num(1)>>, Let("x", Num(9)))>>),
      CaseNode(N("e"), <<CaseBlockNode(<<N("green")>>, Let("x", Num(8))),
                         CaseBlockNode(<<N("red")>>, CallNode("swap", <<N("p"), N("x")>>))>>)>>

-----------------------------------------------------------------------------
(* The programs. *)
Around(statements) == Begin(Setting \o statements \o Showing)

Globally(statements) ==
    ProgramNode("prog", Types \o Variables \o Subprograms, Around(statements))

Locally(statements) ==
    ProgramNode("prog",
        <<ProcedureNode("main", <<>>, Types \o Variables \o Subprograms, Around(statements))>>,
        Begin(<<CallNode("main", <<>>)>>))

Nested(statements) ==
    ProgramNode("prog",
        Types \o <<ProcedureNode("main", <<>>,
            Variables \o Subprograms
              \o <<ProcedureNode("within", <<>>, <<>>, Around(statements))>>,
            Begin(<<CallNode("within", <<>>)>>))>>,
        Begin(<<CallNode("main", <<>>)>>))

Contexts == <<"global", "local", "nested">>

InContext(context, statements) ==
    CASE context = "global" -> Globally(statements)
      [] context = "local"  -> Locally(statements)
      [] context = "nested" -> Nested(statements)

\* The i-th of some statements and the one that follows it at a distance; the contexts
\* take turns.
Paired(statements, i, distance) ==
    InContext(Contexts[((2 * i + distance) % 3) + 1],
              <<statements[i], statements[((i + distance - 1) % Len(statements)) + 1]>>)

\* Loops whose body is one statement, without a begin.
Bodies ==
    <<Let("y", N("x")), OutLn(<<N("x")>>),
      IfNode(N("b"), <<Let("y", N("x"))>>), CallNode("sum", <<N("x")>>)>>

BodyPrograms ==
    [k \in DOMAIN Bodies |-> Locally(<<ForNode("x", Num(1), FALSE, Num(2), Bodies[k])>>)]

-----------------------------------------------------------------------------
(* An operand of every type in every place. *)
Scalars == <<N("x"), N("r"), N("b"), N("c"), N("s"), N("e"), N("u")>>

Values  == Scalars \o <<N("k"), Num(5), ApplyNode("tick", <<N("x")>>), N("a"), N("p"),
                        At(N("m"), N("u")), N("none")>>
Targets == <<N("x"), N("r"), N("b"), N("c"), N("s"), N("e"), N("u"), N("v"), N("w"), N("k"),
             N("p"), Field(N("p"), "second"), At(N("a"), N("u")),
             At(N("n"), N("green")), At(N("o"), Letter(66))>>

Operators == <<"plus", "rdiv", "imod", "lss", "andsy">>

\* Two more types of one shape each, a record that begins with a text, and arrays with
\* other indexes.
FurtherTypes ==
    <<TypeNode("shade", EnumeratedNode(<<"dark">>)), TypeNode("line", ArrayNode(Upto(2, 3), T("integer"))),
      TypeNode("entry", RecordNode(<<GroupNode(<<"key">>, T("string")),
                                     GroupNode(<<"n">>, T("integer"))>>))>>

FurtherVariables ==
    <<VarNode("v", T("shade")), VarNode("w", T("line")), VarNode("z", T("entry")),
      VarNode("n", ArrayNode(T("colour"), T("real"))),
      VarNode("o", ArrayNode(RangeNode(Letter(65), Letter(67)), T("char")))>>

Takers ==
    <<ProcedureNode("takes", <<GroupNode(<<"y">>, T("small")), GroupNode(<<"f">>, T("real")),
                               GroupNode(<<"l">>, T("row"))>>, <<>>,
          Begin(<<OutLn(<<N("y"), N("f"), At(N("l"), Num(3))>>)>>))>>

Using(statement) ==
    ProgramNode("prog",
        Types \o FurtherTypes \o Variables \o FurtherVariables \o <<Subprograms[1]>> \o Takers,
        Begin(Setting
                \o <<Let("v", N("dark")), Let("w", N("a")), Set(Field(N("z"), "key"), Text(66)),
                     statement>>
                \o Showing))

\* Arrays and records as a whole, where one value is expected.
Wholes == <<N("a"), N("w"), At(N("m"), N("u")), N("p"), N("q"), Field(N("p"), "second"), N("z")>>

Compared(left, right) == OutLn(<<Op(left, "eql", right)>>)

\* A condition or an operand of its own.
Testing(form, value) ==
    CASE form = "if"     -> IfNode(value, <<Let("x", Num(4))>>)
      [] form = "while"  -> WhileNode(value, Let("b", N("false")))
      [] form = "repeat" -> RepeatNode(<<>>, value)
      [] form = "not"    -> OutLn(<<Not(value)>>)
      [] form = "opposite" -> OutLn(<<Opposite(value)>>)

Tests == <<"if", "while", "repeat", "not", "opposite">>

\* An index is a literal or a name.
Indexes == <<Num(1), Num(2), Num(3), Letter(65), Letter(67), Letter(68), N("k"), N("u"),
             N("c"), N("e"), N("green"), N("x"), N("b"), N("r")>>

Arrays == <<"a", "m", "n", "o">>

Indexing(array, index) ==
    LET element == At(N(array), index)
    IN  Set(element, IF array = "m" THEN N("a") ELSE element)

Counters == <<"x", "u", "e", "c", "r", "b", "k">>

Counting(counter, limit) ==
    ForNode(counter, limit, FALSE, limit, Begin(<<Out(<<N(counter)>>)>>))

TriedLabels == <<Num(1), Letter(65), N("k"), N("green"), N("true"), N("x"), Halves(2), Text(66)>>

Selectors == Scalars \o Wholes

Selecting(selector, label) ==
    CaseNode(selector, <<CaseBlockNode(<<label>>, Let("x", Num(4)))>>)

UseOf(kind, row, column) ==
    CASE kind = "assignment" -> Set(Targets[row], Values[column])
      [] kind = "argument"   ->
           CallNode("takes", [<<Num(1), Num(1), N("a")>> EXCEPT ![row] = Values[column]])
      [] kind = "element"    -> Indexing(Arrays[row], Indexes[column])
      [] kind = "loop"       -> Counting(Counters[row], Indexes[column])
      [] kind = "selection"  -> Selecting(Selectors[row], TriedLabels[column])
      [] kind = "comparison" -> Compared(Wholes[row], Wholes[column])
      [] kind = "output"     -> Out(<<Wholes[row], N("x")>>)
      [] kind \in ToSet(Operators) -> OutLn(<<Op(Scalars[row], kind, Scalars[column])>>)
      [] OTHER               -> Testing(kind, Values[row])

-----------------------------------------------------------------------------
(* The instances of Programs.  What is combined in them is a list of grids, each with *)
(* a kind, a number of rows and one of columns; a cell is a program.                 *)

\* A statement is followed by itself, and by those at the next distances.
Distances == 4

Grids ==
    <<<<"simple", Len(Simple), Distances>>, <<"composite", Len(Composite), Distances>>,
      <<"control", Len(Controlling), Distances>>,
      <<"assignment", Len(Targets), Len(Values)>>, <<"argument", 3, Len(Values)>>,
      <<"element", Len(Arrays), Len(Indexes)>>, <<"loop", Len(Counters), Len(Indexes)>>,
      <<"selection", Len(Selectors), Len(TriedLabels)>>,
      <<"comparison", Len(Wholes), Len(Wholes)>>, <<"output", Len(Wholes), 1>>>>
    \o [k \in DOMAIN Operators |-> <<Operators[k], Len(Scalars), Len(Scalars)>>]
    \o [k \in DOMAIN Tests |-> <<Tests[k], Len(Values), 1>>]

ProgramAt(kind, row, column) ==
    CASE kind = "simple"    -> Paired(Simple, row, column - 1)
      [] kind = "composite" -> Paired(Composite, row, column - 1)
      [] kind = "control"   -> Paired(Controlling, row, column - 1)
      [] OTHER              -> Using(UseOf(kind, row, column))

CellsOf(kind, rows, columns) ==
    [cell \in 1..(rows * columns) |->
        ProgramAt(kind, ((cell - 1) \div columns) + 1, ((cell - 1) % columns) + 1)]

\* Labels that are texts, whatever is selected.
LabelPrograms == [k \in DOMAIN Scalars |-> Using(Selecting(Scalars[k], Text(66)))]

\* Records of two types compared.
RecordPrograms == <<Using(Compared(N("p"), N("z"))), Using(Compared(N("z"), N("p")))>>

\* The record a function returns, where one value is expected.
Copied == ApplyNode("copy", <<>>)

CopyPrograms ==
    [k \in 1..3 |->
        ProgramNode("prog",
            Types \o Variables
              \o <<FunctionNode("copy", <<>>, "pair", <<>>, Begin(<<Let("copy", N("p"))>>)),
                   ProcedureNode("main", <<>>, <<>>,
                      Begin(<<CASE k = 1 -> OutLn(<<Copied>>)
                                [] k = 2 -> Compared(Copied, N("p"))
                                [] k = 3 -> Selecting(Copied, Halves(1))>>))>>,
            Begin(Setting \o <<CallNode("main", <<>>)>>))]

\* The programs that pass the semantic phase and then do not run.
StrayPrograms == LabelPrograms \o RecordPrograms \o CopyPrograms \o BodyPrograms

EveryProgram ==
    FlattenSeq([g \in DOMAIN Grids |-> CellsOf(Grids[g][1], Grids[g][2], Grids[g][3])])
      \o CopyPrograms
===============================================================================
