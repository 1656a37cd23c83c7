-------------------------------- MODULE Grammar --------------------------------
(***************************************************************************)
(* The grammar validator (grammar.c), which looks at a tree once more      *)
(* after the parser has built it, and the conversion of the parse tree     *)
(* (validateWithGrammar of parser.c).                                      *)
(*                                                                         *)
(* grammar.c has a predicate for each kind of node: its label, the labels  *)
(* of its children, and the same again for every child.  Here the labels   *)
(* of the children are its shape, and Complete goes down the tree.         *)
(***************************************************************************)
EXTENDS Naturals, Sequences

\* A first part, then the unit repeated: unit k times for some k.
Repeats(labels, unit) ==
    /\ Len(labels) % Len(unit) = 0
    /\ \A k \in DOMAIN labels : labels[k] = unit[((k - 1) % Len(unit)) + 1]

\* item {separator item}
Separated(labels, item, separator) ==
    /\ Len(labels) % 2 = 1
    /\ \A k \in DOMAIN labels : labels[k] = IF k % 2 = 1 THEN item ELSE separator

\* first item {separator item} last
Enclosed(labels, first, item, separator, last) ==
    /\ Len(labels) >= 3
    /\ labels[1] = first
    /\ labels[Len(labels)] = last
    /\ Separated(SubSeq(labels, 2, Len(labels) - 1), item, separator)

\* keyword {entry}, with at least one entry
Section(labels, keyword, entry) ==
    /\ Len(labels) >= Len(entry) + 1
    /\ labels[1] = keyword
    /\ Repeats(Tail(labels), entry)

Rank(label) ==
    CASE label = "<const-declaration>"      -> 1
      [] label = "<type-declaration>"       -> 2
      [] label = "<var-declaration>"        -> 3
      [] label = "<subprogram-declaration>" -> 4
      [] OTHER                              -> 0

InOrder(labels) ==
    /\ \A k \in DOMAIN labels : Rank(labels[k]) > 0
    /\ \A j, k \in DOMAIN labels : j < k => Rank(labels[j]) <= Rank(labels[k])

-----------------------------------------------------------------------------
(* The shapes. *)
Numeric == {"ident", "intcon", "realcon"}
Written == {"charcon", "string"}

DeclarationShape(label, labels) ==
    CASE label = "<program>" ->
           labels = <<"<program-header>", "<declaration-part>", "<compound-statement>", "period">>
      [] label = "<program-header>"    -> labels = <<"programsy", "ident", "semicolon">>
      [] label = "<declaration-part>"  -> InOrder(labels)
      [] label = "<const-declaration>" ->
           Section(labels, "constsy", <<"ident", "eql", "<constant>", "semicolon">>)
      [] label = "<constant>" ->
           \/ Len(labels) = 1 /\ labels[1] \in Numeric \union Written
           \/ Len(labels) = 2 /\ labels[1] \in {"plus", "minus"} /\ labels[2] \in Numeric
      [] label = "<type-declaration>" ->
           Section(labels, "typesy", <<"ident", "eql", "<type>", "semicolon">>)
      [] label = "<var-declaration>" ->
           Section(labels, "varsy", <<"<identifier-list>", "colon", "<type>", "semicolon">>)
      [] label = "<identifier-list>" -> Separated(labels, "ident", "comma")
      [] OTHER -> FALSE

TypeShape(label, labels) ==
    CASE label = "<type>" ->
           labels \in {<<l>> : l \in {"ident", "<array-type>", "<range>", "<enumerated>",
                                      "<record-type>"}}
      [] label = "<array-type>" ->
           labels \in {<<"arraysy", "lbrack", l, "rbrack", "ofsy", "<type>">> :
                          l \in {"<range>", "ident"}}
      [] label = "<range>"       -> labels = <<"<constant>", "period", "period", "<constant>">>
      [] label = "<enumerated>"  -> Enclosed(labels, "lparent", "ident", "comma", "rparent")
      [] label = "<record-type>" ->
           labels \in {<<"recordsy", "endsy">>, <<"recordsy", "<field-list>", "endsy">>}
      [] label = "<field-list>"  -> Separated(labels, "<field-part>", "semicolon")
      [] label = "<field-part>"  -> labels = <<"<identifier-list>", "colon", "<type>">>
      [] OTHER -> FALSE

\* The semicolon after a procedure's block is not part of it here; a function's is.
SubprogramShape(label, labels) ==
    CASE label = "<subprogram-declaration>" ->
           labels \in {<<"<procedure-declaration>">>, <<"<function-declaration>">>}
      [] label = "<procedure-declaration>" ->
           labels \in {<<"proceduresy", "ident">> \o formal \o <<"semicolon", "block">> :
                          formal \in {<<>>, <<"<formal-parameter-list>">>}}
      [] label = "<function-declaration>" ->
           labels \in {<<"functionsy", "ident">> \o formal
                         \o <<"colon", "ident", "semicolon", "block", "semicolon">> :
                          formal \in {<<>>, <<"<formal-parameter-list>">>}}
      [] label = "block" -> labels = <<"<declaration-part>", "<compound-statement>">>
      [] label = "<formal-parameter-list>" ->
           Enclosed(labels, "lparent", "<parameter-group>", "semicolon", "rparent")
      [] label = "<parameter-group>" ->
           labels \in {<<"<identifier-list>", "colon", l>> : l \in {"ident", "<array-type>"}}
      [] OTHER -> FALSE

StatementLabels ==
    {"<assignment-statement>", "<compound-statement>", "<if-statement>", "<case-statement>",
     "<while-statement>", "<repeat-statement>", "<for-statement>", "<procedure/function-call>"}

\* Statements of a list have a semicolon between them; there may be more semicolons.
ListShape(labels) ==
    /\ \A k \in DOMAIN labels : labels[k] \in {"<statement>", "semicolon"}
    /\ \A k \in 2..Len(labels) : "semicolon" \in {labels[k - 1], labels[k]}

StatementShape(label, labels) ==
    CASE label = "<compound-statement>" ->
           labels \in {<<"beginsy", "endsy">>, <<"beginsy", "<statement-list>", "endsy">>}
      [] label = "<statement-list>" -> ListShape(labels)
      [] label = "<statement>" -> labels \in {<<>>} \union {<<l>> : l \in StatementLabels}
      [] label = "<assignment-statement>" -> labels = <<"<variable>", "becomes", "<expression>">>
      [] label = "<if-statement>" ->
           labels \in {<<"ifsy", "<expression>", "thensy", "<statement>">> \o other :
                          other \in {<<>>, <<"elsesy", "<statement>">>}}
      [] label = "<case-statement>" ->
           labels = <<"casesy", "<expression>", "ofsy", "<case-block>", "endsy">>
      [] label = "<while-statement>" ->
           labels = <<"whilesy", "<expression>", "dosy", "<statement>">>
      [] label = "<repeat-statement>" ->
           labels = <<"repeatsy", "<statement-list>", "untilsy", "<expression>">>
      [] label = "<for-statement>" ->
           labels \in {<<"forsy", "ident", "becomes", "<expression>", l, "<expression>", "dosy",
                         "<statement>">> : l \in {"tosy", "downtosy"}}
      [] OTHER -> FALSE

\* The labels behind the first k.
Behind(labels, k) == SubSeq(labels, k + 1, Len(labels))

\* Constants with commas, a colon and a statement; then other blocks, of which only the
\* last may follow without a semicolon, or a semicolon.
CaseBlockShape(labels) ==
    \E colon \in {k \in DOMAIN labels : labels[k] = "colon"} :
        /\ Separated(SubSeq(labels, 1, colon - 1), "<constant>", "comma")
        /\ colon < Len(labels)
        /\ labels[colon + 1] = "<statement>"
        /\ LET rest == Behind(labels, colon + 1)
               pair == <<"semicolon", "<case-block>">>
           IN  IF Len(rest) % 2 = 0 THEN Repeats(rest, pair)
               ELSE /\ Repeats(SubSeq(rest, 1, Len(rest) - 1), pair)
                    /\ rest[Len(rest)] \in {"semicolon", "<case-block>"}

\* What follows the last pair of an index list is not looked at.
VariableShape(label, labels) ==
    CASE label = "<index-list>" ->
           /\ Len(labels) >= 1
           /\ labels[1] \in {"intcon", "charcon", "ident"}
           /\ Repeats(SubSeq(labels, 2, 2 * ((Len(labels) - 1) \div 2) + 1),
                      <<"comma", "<index-list>">>)
      [] label = "<component-variable>" ->
           labels \in {<<"lbrack", "<index-list>", "rbrack">>, <<"period", "ident">>}
      [] label = "<variable>" ->
           /\ Len(labels) >= 1
           /\ labels[1] = "ident"
           /\ \A k \in 2..Len(labels) : labels[k] = "<component-variable>"
      [] label = "<procedure/function-call>" ->
           labels \in {<<"ident", "lparent">> \o list \o <<"rparent">> \o semicolon :
                          list \in {<<>>, <<"<parameter-list>">>},
                          semicolon \in {<<>>, <<"semicolon">>}}
      [] label = "<parameter-list>" -> Separated(labels, "<expression>", "comma")
      [] OTHER -> FALSE

ExpressionShape(label, labels) ==
    CASE label = "<expression>" ->
           labels \in {<<"<simple-expression>">>,
                       <<"<simple-expression>", "<relational-operator>", "<simple-expression>">>}
      [] label = "<simple-expression>" ->
           LET sign == IF labels # <<>> /\ labels[1] \in {"plus", "minus"} THEN 1 ELSE 0
           IN  Separated(Behind(labels, sign), "<term>", "<additive-operator>")
      [] label = "<term>"   -> Separated(labels, "<factor>", "<multiplicative-operator>")
      [] label = "<factor>" ->
           labels \in {<<l>> : l \in {"intcon", "realcon", "charcon", "string",
                                      "<procedure/function-call>", "<variable>"}}
             \union {<<sign, "<factor>">> : sign \in {"notsy", "plus", "minus"}}
             \union {<<"lparent", "<expression>", "rparent">>}
      [] label = "<relational-operator>" ->
           labels \in {<<l>> : l \in {"eql", "neq", "gtr", "geq", "lss", "leq"}}
      [] label = "<additive-operator>" -> labels \in {<<l>> : l \in {"plus", "minus", "orsy"}}
      [] label = "<multiplicative-operator>" ->
           labels \in {<<l>> : l \in {"times", "rdiv", "idiv", "imod", "andsy"}}
      [] OTHER -> FALSE

-----------------------------------------------------------------------------
Labels(node) == [k \in DOMAIN node.children |-> node.children[k].label]

IsLeaf(node) == "lexeme" \in DOMAIN node

RECURSIVE Complete(_)

\* is_..._complete
Complete(node) ==
    \/ IsLeaf(node)
    \/ /\ LET labels == Labels(node)
          IN  \/ DeclarationShape(node.label, labels)
              \/ TypeShape(node.label, labels)
              \/ SubprogramShape(node.label, labels)
              \/ StatementShape(node.label, labels)
              \/ node.label = "<case-block>" /\ CaseBlockShape(labels)
              \/ VariableShape(node.label, labels)
              \/ ExpressionShape(node.label, labels)
       /\ \A k \in DOMAIN node.children : Complete(node.children[k])

-----------------------------------------------------------------------------
RECURSIVE ConvertParseTree(_)

\* convertProcedureDeclarationNode drops the semicolon behind the block.  The other
\* conversions rebuild nodes the parser does not make; they change no tree of it.
ConvertParseTree(node) ==
    LET kids == node.children
        kept == IF /\ node.label = "<procedure-declaration>"
                   /\ Len(kids) >= 5
                   /\ kids[Len(kids)].label = "semicolon"
                THEN SubSeq(kids, 1, Len(kids) - 1) ELSE kids
    IN  [node EXCEPT !.children = [k \in DOMAIN kept |-> ConvertParseTree(kept[k])]]

\* validateWithGrammar; the root must be a program.
ValidatesWithGrammar(tree) == tree.label = "<program>" /\ Complete(ConvertParseTree(tree))
=============================================================================
