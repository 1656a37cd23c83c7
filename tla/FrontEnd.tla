-------------------------------- MODULE FrontEnd -------------------------------
(***************************************************************************)
(* The first phases of main.c's modes 2 to 4: analyzeSyntaxFile reads the  *)
(* tokens of a text, and buildAst makes the syntax tree.                   *)
(*                                                                         *)
(* The text is a program as Writing puts it down; its author may make a    *)
(* few mistakes in it first, a token left out, put in or mistaken.         *)
(***************************************************************************)
EXTENDS Parser, Grammar, AstBuilder, Writing

CONSTANTS Programs,           \* the programs, by name
          Alphabet,           \* the types of token a mistake brings in
          Mistaken,           \* the programs whose text may have mistakes
          MaxEdits,           \* and how many
          Leftovers           \* what a buffer may hold that was not written

VARIABLES chosen,             \* the name of the program
          input,              \* its text
          mistakes,           \* how many were made in it
          phase,              \* how far it has come
          tree                \* the parse tree, and then the syntax tree

frontVars == <<chosen, input, mistakes, phase, tree, leftover>>

NoTree == <<>>

FrontInit ==
    /\ chosen \in DOMAIN Programs
    /\ input = ProgramText(Programs[chosen])
    /\ mistakes = 0
    /\ phase = "text"
    /\ tree = NoTree
    /\ leftover \in Leftovers

\* The token a mistake brings in.
Sample(type) ==
    Token(type, CASE type = "ident"  -> "x"
                  [] type = "intcon" -> 1
                  [] type = "string" -> <<65, 66>>
                  [] OTHER           -> type)

Mistake ==
    /\ phase = "text"
    /\ chosen \in Mistaken
    /\ mistakes < MaxEdits
    /\ mistakes' = mistakes + 1
    /\ \E k \in 1..Len(input) - 1 :
          \/ input' = RemoveAt(input, k)
          \/ \E type \in Alphabet : input' = InsertAt(input, k, Sample(type))
          \/ \E type \in Alphabet : input' = ReplaceAt(input, k, Sample(type))
    /\ UNCHANGED <<chosen, phase, tree, leftover>>

\* analyzeSyntaxFile.  The tree is only kept if no error was reported.
AnalyzeSyntax ==
    /\ phase = "text"
    /\ LET end  == ParseText(input)
           root == end.children[1]
       IN  /\ phase' = CASE end.hung -> "hung"
                         [] ~end.hung /\ end.errors > 0 -> "refused"
                         [] OTHER -> IF ValidatesWithGrammar(root) THEN "parsed" ELSE "invalid"
           /\ tree' = IF phase' = "parsed" THEN root ELSE NoTree
    /\ UNCHANGED <<chosen, input, mistakes, leftover>>

BuildTree ==
    /\ phase = "parsed"
    /\ phase' = "built"
    /\ tree' = BuildProgram(tree)
    /\ UNCHANGED <<chosen, input, mistakes, leftover>>

\* The tree goes on to the semantic phase, an error to the report.
Answered ==
    /\ phase \in {"refused", "invalid", "built", "hung"}
    /\ UNCHANGED frontVars

FrontNext == Mistake \/ AnalyzeSyntax \/ BuildTree \/ Answered

FrontSpec == FrontInit /\ [][FrontNext]_frontVars

-----------------------------------------------------------------------------
(***************************************************************************)
(* Properties.                                                             *)
(***************************************************************************)

\* The text of a program is read as that program, without an error: its operators
\* bind, its signs, its else parts, fields and indexes belong to what the productions
\* say, and every declaration reaches the tree (parser.c with ast_builder.c).
ReadsWhatIsWritten ==
    mistakes = 0 => /\ phase \notin {"refused", "invalid", "hung"}
                    /\ phase = "built" => tree = Programs[chosen]

\* The two grammars agree: a text the parser has no objection to is not turned down
\* by the validator, which cannot say where (parser.c's functions and grammar.c's
\* predicates are written and changed apart).  They differ in one place only, an empty
\* part of a list of fields or parameters, which the parser passes over.
CaughtAreEmptyParts ==
    phase = "invalid" =>
        \E k \in 1..Len(input) - 1 : /\ input[k].type = "semicolon"
                                     /\ input[k + 1].type \in {"semicolon", "rparent"}

RECURSIVE Leaves(_)

\* The tokens a parse tree holds.
Leaves(node) ==
    IF IsLeaf(node) THEN <<Token(node.label, node.lexeme)>>
    ELSE FlattenSeq([k \in DOMAIN node.children |-> Leaves(node.children[k])])

\* Without the semicolons right before an end.
WithoutTrailing(text) ==
    LET Trailing(k) == /\ text[k].type = "semicolon"
                       /\ k < Len(text)
                       /\ text[k + 1].type = "endsy"
    IN  FlattenSeq([k \in DOMAIN text |-> IF Trailing(k) THEN <<>> ELSE <<text[k]>>])

Meaningful(text) == SelectSeq(text, LAMBDA t : t.type \notin {"comment", "eof"})

\* Nothing is skipped in silence: the leaves of a tree that is accepted are the
\* tokens of the text, each once and in order.  Whatever the recovery drops or takes
\* as read is reported.
NothingDropped ==
    phase = "parsed" => WithoutTrailing(Leaves(tree)) = WithoutTrailing(Meaningful(input))

\* What a text says: its names, literals, operators and the words of its statements.
\* Separators, sections and parentheses are put down in more than one way, and a plus
\* that has no operand before it says nothing.
Words ==
    {"ident", "intcon", "realcon", "charcon", "string", "notsy", "minus", "orsy", "becomes",
     "arraysy", "recordsy", "beginsy", "endsy", "ifsy", "thensy", "elsesy", "casesy", "whilesy",
     "repeatsy", "untilsy", "forsy", "tosy", "downtosy", "proceduresy", "functionsy"}
      \union Relational \union Multiplicative

OperandEnd == {"ident", "intcon", "realcon", "charcon", "string", "rparent", "rbrack"}

IsWord(text, k) ==
    \/ text[k].type \in Words
    \/ text[k].type = "plus" /\ k > 1 /\ text[k - 1].type \in OperandEnd

WordsOf(text) ==
    FlattenSeq([k \in DOMAIN text |-> IF IsWord(text, k) THEN <<text[k]>> ELSE <<>>])

Said(text) == WordsOf(Meaningful(text))

\* The syntax tree says what the text says: put down again it has the same words in
\* the same order, the signs among them, so the builder, which picks the children of
\* a node by their labels, has overlooked none and moved none (ast_builder.c; the
\* productions of README.md, which give a sign to a name as to a number).
NothingForgotten == phase = "built" => Said(ProgramText(tree)) = Said(input)

RECURSIVE Kept(_)

\* The tokens of a parse tree but for the sign of a <constant> that is a name.
Kept(node) ==
    CASE IsLeaf(node) -> <<Token(node.label, node.lexeme)>>
      [] ~IsLeaf(node) /\ node.label = "<constant>" /\ Last(node.children).label = "ident" ->
           Kept(Last(node.children))
      [] OTHER -> FlattenSeq([k \in DOMAIN node.children |-> Kept(node.children[k])])

\* The sign before the name of a constant is all that gets lost on the way from the
\* parse tree, whose leaves are the text (NothingDropped), to the syntax tree.
OnlySignsForgotten ==
    phase = "parsed" => Said(ProgramText(BuildProgram(tree))) = Said(Kept(tree))

\* The parser comes back with an answer to every text, however wrong: its recovery
\* always goes on to a later token (README.md, "Error Handling Parser").
AlwaysAnswers == phase # "hung"
=============================================================================
