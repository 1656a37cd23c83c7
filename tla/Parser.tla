-------------------------------- MODULE Parser ---------------------------------
(***************************************************************************)
(* The recursive descent of parser.c, one definition for each function: it *)
(* maps the parser state in which the function has a node without children *)
(* to the state with all of them.  A call is written as the label of the   *)
(* node it makes, which Parsed attaches to the node of the caller.         *)
(*                                                                         *)
(* A definition whose name begins with More is a loop of the function      *)
(* below it.                                                               *)
(***************************************************************************)
EXTENDS Parsing

RECURSIVE Parsed(_, _)

-----------------------------------------------------------------------------
(* Constants and types. *)

ParseConstant(p) ==
    LET signed == Current(p) \in {"plus", "minus"}
        q      == IF signed THEN Consumed(p) ELSE p
        plain  == {"ident", "intcon", "realcon"}
    IN  IF Current(q) \in plain \/ (~signed /\ Current(q) \in {"charcon", "string"})
        THEN Consumed(q)
        ELSE IF Current(q) \in ConstantStart THEN WithError(q)
        ELSE SkippedTo(WithError(q), ExpressionBoundary)

RECURSIVE MoreIdentifiers(_)
MoreIdentifiers(p) ==
    IF Current(p) = "comma" THEN MoreIdentifiers(ExpectEach(p, <<"comma", "ident">>)) ELSE p

ParseIdentifierList(p) == MoreIdentifiers(Expect(p, "ident"))

ParseRange(p) ==
    Parsed("<constant>", ExpectEach(Parsed("<constant>", p), <<"period", "period">>))

ParseEnumerated(p) ==
    IF Current(p) # "lparent" THEN SkippedTo(WithError(p), TypeBoundary)
    ELSE Expect(MoreIdentifiers(ExpectEach(p, <<"lparent", "ident">>)), "rparent")

ParseFieldPart(p) == Parsed("<type>", Expect(Parsed("<identifier-list>", p), "colon"))

RECURSIVE MoreFields(_)

\* Mutant of MoreFields: a semicolon before the end is attached too.
MoreFieldsAttached(p) ==
    LET q == CASE Current(p) = "semicolon" -> Expect(p, "semicolon")
               [] Current(p) = "ident"     -> WithError(p)
               [] OTHER                    -> SkippedTo(WithError(p), TypeBoundary)
    IN  IF Current(p) \in {"endsy", "eof"} THEN p
        ELSE CASE Current(q) = "ident" -> MoreFields(Parsed("<field-part>", q))
               [] Current(q) # "ident" /\ q.pos = p.pos -> Hung(q)
               [] OTHER -> MoreFields(q)

\* A semicolon before the end is not attached.  A round of the loop that stops at a
\* token that is no name, end or semicolon begins the next round at the same token.
MoreFields(p) ==
    LET q == CASE Current(p) = "semicolon" -> Expect(p, "semicolon")
               [] Current(p) = "ident"     -> WithError(p)
               [] OTHER                    -> SkippedTo(WithError(p), TypeBoundary)
    IN  CASE Current(p) \in {"endsy", "eof"} -> p
          [] Current(p) = "semicolon" /\ Peek(p, 1) = "endsy" -> ExpectUnseen(p, "semicolon")
          [] OTHER -> CASE Current(q) = "ident" -> MoreFields(Parsed("<field-part>", q))
                        [] Current(q) # "ident" /\ q.pos = p.pos -> Hung(q)
                        [] OTHER -> MoreFields(q)

ParseFieldList(p) == MoreFields(Parsed("<field-part>", p))

ParseRecordType(p) ==
    LET q == Expect(p, "recordsy")
    IN  Expect(IF Current(q) = "endsy" THEN q ELSE Parsed("<field-list>", q), "endsy")

ParseArrayType(p) ==
    LET q     == ExpectEach(p, <<"arraysy", "lbrack">>)
        index == IF Current(q) = "ident" /\ Peek(q, 1) # "period" THEN Consumed(q)
                 ELSE Parsed("<range>", q)
    IN  Parsed("<type>", ExpectEach(index, <<"rbrack", "ofsy">>))

ParseType(p) ==
    CASE Current(p) = "arraysy"  -> Parsed("<array-type>", p)
      [] Current(p) = "recordsy" -> Parsed("<record-type>", p)
      [] Current(p) \in {"lparent", "lbrack"} -> Parsed("<enumerated>", p)
      [] OTHER -> IF HasRangeOperatorAheadInType(p) THEN Parsed("<range>", p)
                  ELSE IF Current(p) = "ident" THEN Consumed(p)
                  ELSE SkippedTo(WithError(p), TypeBoundary)

-----------------------------------------------------------------------------
(* Declarations. *)

\* The keyword of a declaration, and an error if no name follows it.
Keyword(p, keyword) ==
    LET q == Expect(p, keyword)
    IN  IF Current(q) = "ident" THEN q ELSE SkippedTo(WithError(q), TypeBoundary)

RECURSIVE MoreConstants(_), MoreTypes(_), MoreVariables(_)

MoreConstants(p) ==
    IF Current(p) # "ident" THEN p
    ELSE MoreConstants(Expect(Parsed("<constant>", ExpectEach(p, <<"ident", "eql">>)), "semicolon"))

ParseConstDeclaration(p) == MoreConstants(Keyword(p, "constsy"))

MoreTypes(p) ==
    IF Current(p) # "ident" THEN p
    ELSE MoreTypes(Expect(Parsed("<type>", ExpectEach(p, <<"ident", "eql">>)), "semicolon"))

ParseTypeDeclaration(p) == MoreTypes(Keyword(p, "typesy"))

MoreVariables(p) ==
    IF Current(p) # "ident" THEN p
    ELSE MoreVariables(
            Expect(Parsed("<type>", Expect(Parsed("<identifier-list>", p), "colon")), "semicolon"))

ParseVarDeclaration(p) == MoreVariables(Keyword(p, "varsy"))

ParseParameterGroup(p) ==
    LET q == Expect(Parsed("<identifier-list>", p), "colon")
    IN  IF Current(q) = "arraysy" THEN Parsed("<array-type>", q) ELSE Expect(q, "ident")

RECURSIVE MoreGroups(_)
MoreGroups(p) ==
    LET q == CASE Current(p) = "semicolon" -> Expect(p, "semicolon")
               [] Current(p) = "ident"     -> WithError(p)
               [] OTHER                    -> SkippedTo(WithError(p), TypeBoundary)
    IN  IF Current(p) \in {"rparent", "eof"} THEN p
        ELSE CASE Current(q) = "ident" -> MoreGroups(Parsed("<parameter-group>", q))
               [] Current(q) # "ident" /\ q.pos = p.pos -> Hung(q)
               [] OTHER -> MoreGroups(q)

ParseFormalParameterList(p) ==
    LET q == Expect(p, "lparent")
    IN  IF Current(q) = "rparent" THEN Expect(WithError(q), "rparent")
        ELSE Expect(MoreGroups(Parsed("<parameter-group>", q)), "rparent")

ParseCompoundStatement(p) ==
    LET q == Expect(p, "beginsy")
    IN  Expect(IF Current(q) = "endsy" THEN q ELSE Parsed("<statement-list>", q), "endsy")

ParseBlock(p) == Parsed("<compound-statement>", Parsed("<declaration-part>", p))

\* The keyword, the name and the parameters, if any.
Heading(p, keyword) ==
    LET q == ExpectEach(p, <<keyword, "ident">>)
    IN  IF Current(q) = "lparent" THEN Parsed("<formal-parameter-list>", q) ELSE q

ParseProcedureDeclaration(p) ==
    Expect(Parsed("block", Expect(Heading(p, "proceduresy"), "semicolon")), "semicolon")

ParseFunctionDeclaration(p) ==
    LET heading == ExpectEach(Heading(p, "functionsy"), <<"colon", "ident", "semicolon">>)
    IN  Expect(Parsed("block", heading), "semicolon")

\* Only called at one of the two keywords.
ParseSubprogramDeclaration(p) ==
    IF Current(p) = "proceduresy" THEN Parsed("<procedure-declaration>", p)
    ELSE Parsed("<function-declaration>", p)

RECURSIVE MoreDeclarations(_, _)

\* Declarations come in four sections, in this order.
SectionStart == <<{"constsy"}, {"typesy"}, {"varsy"}, {"proceduresy", "functionsy"}>>

MoreDeclarations(p, section) ==
    IF section > Len(SectionStart) THEN p
    ELSE IF Current(p) \notin SectionStart[section] THEN MoreDeclarations(p, section + 1)
    ELSE MoreDeclarations(
            CASE section = 1 -> Parsed("<const-declaration>", p)
              [] section = 2 -> Parsed("<type-declaration>", p)
              [] section = 3 -> Parsed("<var-declaration>", p)
              [] section = 4 -> Parsed("<subprogram-declaration>", p), section)

ParseDeclarationPart(p) == MoreDeclarations(p, 1)

-----------------------------------------------------------------------------
(* Variables, calls and expressions. *)

RECURSIVE MoreIndexes(_)
MoreIndexes(p) ==
    IF Current(p) = "comma" THEN MoreIndexes(Parsed("<index-list>", Consumed(p))) ELSE p

\* The list behind a comma is a node of its own, and takes the commas that follow.
ParseIndexList(p) ==
    IF Current(p) \in {"intcon", "charcon", "ident"} THEN MoreIndexes(Consumed(p))
    ELSE WithError(p)

\* Only called at a bracket or a period.
ParseComponentVariable(p) ==
    IF Current(p) = "lbrack" THEN Expect(Parsed("<index-list>", Consumed(p)), "rbrack")
    ELSE ExpectEach(p, <<"period", "ident">>)

RECURSIVE MoreComponents(_)
MoreComponents(p) ==
    IF Current(p) = "lbrack" \/ (Current(p) = "period" /\ Peek(p, 1) # "period")
    THEN MoreComponents(Parsed("<component-variable>", p)) ELSE p

ParseVariable(p) == MoreComponents(Expect(p, "ident"))

RECURSIVE MoreArguments(_)
MoreArguments(p) ==
    CASE Current(p) = "comma" -> MoreArguments(Parsed("<expression>", Consumed(p)))
      [] Current(p) \in ExpressionStart -> MoreArguments(Parsed("<expression>", WithError(p)))
      [] OTHER -> p

ParseParameterList(p) == MoreArguments(Parsed("<expression>", p))

ParseProcedureFunctionCall(p) ==
    LET q    == Expect(p, "ident")
        open == Consumed(q)
    IN  IF Current(q) # "lparent" THEN WithError(q)
        ELSE Expect(IF Current(open) = "rparent" THEN open
                    ELSE Parsed("<parameter-list>", open), "rparent")

ParseFactor(p) ==
    CASE Current(p) = "ident" ->
           Parsed(IF Peek(p, 1) = "lparent" THEN "<procedure/function-call>" ELSE "<variable>", p)
      [] Current(p) \in {"intcon", "realcon", "charcon", "string"} -> Consumed(p)
      [] Current(p) \in {"plus", "minus", "notsy"} -> Parsed("<factor>", Consumed(p))
      [] Current(p) = "lparent" -> Expect(Parsed("<expression>", Consumed(p)), "rparent")
      [] OTHER -> SkippedTo(WithError(p), ExpressionBoundary)

Operator(label, p) == Attached(label, p, Consumed(Inside(p)))

RECURSIVE MoreFactors(_), MoreTerms(_)
MoreFactors(p) ==
    IF Current(p) \notin Multiplicative THEN p
    ELSE MoreFactors(Parsed("<factor>", Operator("<multiplicative-operator>", p)))

ParseTerm(p) == MoreFactors(Parsed("<factor>", p))

MoreTerms(p) ==
    IF Current(p) \notin Additive THEN p
    ELSE MoreTerms(Parsed("<term>", Operator("<additive-operator>", p)))

ParseSimpleExpression(p) ==
    LET q == IF Current(p) \in {"plus", "minus"} THEN Consumed(p) ELSE p
    IN  MoreTerms(Parsed("<term>", q))

ParseExpression(p) ==
    LET q == Parsed("<simple-expression>", p)
    IN  IF Current(q) \in Relational
        THEN Parsed("<simple-expression>", Operator("<relational-operator>", q)) ELSE q

-----------------------------------------------------------------------------
(* Statements. *)

ParseAssignmentStatement(p) ==
    Parsed("<expression>", Expect(Parsed("<variable>", p), "becomes"))

ParseIfStatement(p) ==
    LET q == Parsed("<statement>", Expect(Parsed("<expression>", Consumed(p)), "thensy"))
    IN  IF Current(q) = "elsesy" THEN Parsed("<statement>", Consumed(q)) ELSE q

RECURSIVE MoreLabels(_)
MoreLabels(p) ==
    IF Current(p) = "comma" THEN MoreLabels(Parsed("<constant>", Consumed(p))) ELSE p

ParseCaseBlock(p) ==
    LET q    == Parsed("<statement>", Expect(MoreLabels(Parsed("<constant>", p)), "colon"))
        next == Consumed(q)
    IN  CASE Current(q) # "semicolon" -> q
          [] Current(q) = "semicolon" /\ Current(next) \in ConstantStart ->
               Parsed("<case-block>", next)
          [] Current(q) = "semicolon" /\ Current(next) \in {"endsy", "eof"} -> next
          [] OTHER -> SkippedTo(WithError(next), StatementBoundary)

ParseCaseStatement(p) ==
    Expect(Parsed("<case-block>", Expect(Parsed("<expression>", Consumed(p)), "ofsy")), "endsy")

ParseWhileStatement(p) ==
    Parsed("<statement>", Expect(Parsed("<expression>", Consumed(p)), "dosy"))

ParseRepeatStatement(p) ==
    Parsed("<expression>", Expect(Parsed("<statement-list>", Consumed(p)), "untilsy"))

ParseForStatement(p) ==
    LET from  == Parsed("<expression>", ExpectEach(p, <<"forsy", "ident", "becomes">>))
        towards == IF Current(from) \in {"tosy", "downtosy"} THEN Consumed(from)
                   ELSE WithError(from)
    IN  Parsed("<statement>", Expect(Parsed("<expression>", towards), "dosy"))

\* Nothing at all is a statement where a list or a statement may end.
ParseStatement(p) ==
    CASE Current(p) \in StatementListEnd \union {"semicolon"} -> p
      [] Current(p) = "ident" ->
           Parsed(IF HasBecomesAfterVariable(p) THEN "<assignment-statement>"
                  ELSE "<procedure/function-call>", p)
      [] Current(p) = "ifsy"     -> Parsed("<if-statement>", p)
      [] Current(p) = "casesy"   -> Parsed("<case-statement>", p)
      [] Current(p) = "whilesy"  -> Parsed("<while-statement>", p)
      [] Current(p) = "repeatsy" -> Parsed("<repeat-statement>", p)
      [] Current(p) = "forsy"    -> Parsed("<for-statement>", p)
      [] Current(p) = "beginsy"  -> Parsed("<compound-statement>", p)
      [] OTHER -> SkippedTo(WithError(p), StatementBoundary)

RECURSIVE LeadingSemicolons(_), MoreStatements(_)

LeadingSemicolons(p) ==
    IF Current(p) = "semicolon" THEN LeadingSemicolons(Consumed(p)) ELSE p

\* Mutant of MoreStatements: what stands before the next statement is skipped without
\* an error.
MoreStatementsSilent(p) ==
    LET next    == Consumed(p)
        skipped == SkippedTo(p, StatementBoundary)
    IN  CASE Current(p) \in StatementListEnd -> p
          [] Current(p) \in StatementStart   -> MoreStatements(Parsed("<statement>", WithError(p)))
          [] Current(p) = "semicolon" ->
               IF Current(next) \in StatementListEnd THEN next
               ELSE MoreStatements(Parsed("<statement>", next))
          [] OTHER -> MoreStatements(skipped)

\* After a semicolon that is followed by no statement the rest is skipped to the next
\* boundary; a missing semicolon is reported and taken as read.
MoreStatements(p) ==
    LET next    == Consumed(p)
        skipped == SkippedTo(WithError(p), StatementBoundary)
    IN  CASE Current(p) \in StatementListEnd -> p
          [] Current(p) \in StatementStart   -> MoreStatements(Parsed("<statement>", WithError(p)))
          [] Current(p) = "semicolon" ->
               CASE Current(next) \in StatementListEnd -> next
                 [] Current(next) = "semicolon"        -> MoreStatements(next)
                 [] Current(next) \in StatementStart   -> MoreStatements(Parsed("<statement>", next))
                 [] OTHER -> MoreStatements(SkippedTo(WithError(next), StatementBoundary))
          [] OTHER -> IF Current(skipped) \in StatementStart
                      THEN MoreStatements(Parsed("<statement>", skipped))
                      ELSE MoreStatements(skipped)

ParseStatementList(p) ==
    LET q == LeadingSemicolons(p)
    IN  CASE Current(q) \in StatementListEnd -> q
          [] Current(q) \in StatementStart   -> MoreStatements(Parsed("<statement>", q))
          [] OTHER -> SkippedTo(WithError(q), StatementBoundary)

-----------------------------------------------------------------------------
(* The program. *)

ParseProgramHeader(p) == ExpectEach(p, <<"programsy", "ident", "semicolon">>)

ParseProgram(p) ==
    LET header == Parsed("<program-header>", p)
        q      == Parsed("<compound-statement>", Parsed("<declaration-part>", header))
    IN  ExpectUnseen(Expect(q, "period"), "eof")

\* The call of the function that makes a node with this label.
Parsed(label, p) ==
    LET q == Inside(p)
    IN  Attached(label, p,
          CASE label = "<constant>"                -> ParseConstant(q)
            [] label = "<identifier-list>"         -> ParseIdentifierList(q)
            [] label = "<range>"                   -> ParseRange(q)
            [] label = "<enumerated>"              -> ParseEnumerated(q)
            [] label = "<field-part>"              -> ParseFieldPart(q)
            [] label = "<field-list>"              -> ParseFieldList(q)
            [] label = "<record-type>"             -> ParseRecordType(q)
            [] label = "<array-type>"              -> ParseArrayType(q)
            [] label = "<type>"                    -> ParseType(q)
            [] label = "<const-declaration>"       -> ParseConstDeclaration(q)
            [] label = "<type-declaration>"        -> ParseTypeDeclaration(q)
            [] label = "<var-declaration>"         -> ParseVarDeclaration(q)
            [] label = "<parameter-group>"         -> ParseParameterGroup(q)
            [] label = "<formal-parameter-list>"   -> ParseFormalParameterList(q)
            [] label = "<compound-statement>"      -> ParseCompoundStatement(q)
            [] label = "block"                     -> ParseBlock(q)
            [] label = "<procedure-declaration>"   -> ParseProcedureDeclaration(q)
            [] label = "<function-declaration>"    -> ParseFunctionDeclaration(q)
            [] label = "<subprogram-declaration>"  -> ParseSubprogramDeclaration(q)
            [] label = "<declaration-part>"        -> ParseDeclarationPart(q)
            [] label = "<index-list>"              -> ParseIndexList(q)
            [] label = "<component-variable>"      -> ParseComponentVariable(q)
            [] label = "<variable>"                -> ParseVariable(q)
            [] label = "<parameter-list>"          -> ParseParameterList(q)
            [] label = "<procedure/function-call>" -> ParseProcedureFunctionCall(q)
            [] label = "<factor>"                  -> ParseFactor(q)
            [] label = "<term>"                    -> ParseTerm(q)
            [] label = "<simple-expression>"       -> ParseSimpleExpression(q)
            [] label = "<expression>"              -> ParseExpression(q)
            [] label = "<assignment-statement>"    -> ParseAssignmentStatement(q)
            [] label = "<if-statement>"            -> ParseIfStatement(q)
            [] label = "<case-block>"              -> ParseCaseBlock(q)
            [] label = "<case-statement>"          -> ParseCaseStatement(q)
            [] label = "<while-statement>"         -> ParseWhileStatement(q)
            [] label = "<repeat-statement>"        -> ParseRepeatStatement(q)
            [] label = "<for-statement>"           -> ParseForStatement(q)
            [] label = "<statement>"               -> ParseStatement(q)
            [] label = "<statement-list>"          -> ParseStatementList(q)
            [] label = "<program-header>"          -> ParseProgramHeader(q)
            [] label = "<program>"                 -> ParseProgram(q))

\* loadTokensFromLexer: comments are left out, and unknown tokens, which are errors.
LoadTokens(tokens) ==
    StartOf(SelectSeq(tokens, LAMBDA t : t.type \notin {"comment", "unknown"}),
            Len(SelectSeq(tokens, LAMBDA t : t.type = "unknown")))

\* The tokens of a text, up to the root of their tree.
ParseText(tokens) == Parsed("<program>", LoadTokens(tokens))
=============================================================================
