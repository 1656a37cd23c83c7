-------------------------------- MODULE Parsing --------------------------------
(***************************************************************************)
(* What the functions of parser.c are made of: the token they look at, the *)
(* node they build, the error they report, and the tokens they skip or     *)
(* pretend to have seen in order to go on after an error.                  *)
(*                                                                         *)
(* A parser state p holds the tokens, the position, the children of the    *)
(* node under construction and the number of errors.  Messages are left    *)
(* out; no function of the parser reads them.                              *)
(***************************************************************************)
EXTENDS Naturals, Sequences

Token(type, lexeme)   == [type |-> type, lexeme |-> lexeme]
Leaf(token)           == [label |-> token.type, lexeme |-> token.lexeme, children |-> <<>>]
Tree(label, children) == [label |-> label, children |-> children]

\* hung: a loop of the parser goes round without consuming a token, for ever.
StartOf(tokens, errors) ==
    [tokens |-> tokens, pos |-> 1, children |-> <<>>, errors |-> errors, hung |-> FALSE]

\* The last token is the end of the file; reading past it yields it again.
Peek(p, ahead) ==
    LET k == p.pos + ahead
    IN  p.tokens[IF k > Len(p.tokens) THEN Len(p.tokens) ELSE k].type

Current(p) == Peek(p, 0)

Advanced(p) == [p EXCEPT !.pos = IF @ <= Len(p.tokens) THEN @ + 1 ELSE @]

WithError(p) == [p EXCEPT !.errors = @ + 1]

-----------------------------------------------------------------------------
(* Sets of tokens. *)
ConstantStart     == {"plus", "minus", "ident", "intcon", "realcon", "charcon", "string"}
ExpressionStart   == ConstantStart \union {"lparent", "notsy"}
TypeStart         == ExpressionStart \union {"arraysy", "recordsy", "lbrack"}
DeclarationStart  == {"constsy", "typesy", "varsy", "proceduresy", "functionsy"}
StatementStart    == {"ident", "ifsy", "casesy", "whilesy", "repeatsy", "forsy", "beginsy"}
StatementListEnd  == {"endsy", "untilsy", "elsesy", "eof"}

Relational     == {"eql", "neq", "gtr", "geq", "lss", "leq"}
Additive       == {"plus", "minus", "orsy"}
Multiplicative == {"times", "rdiv", "idiv", "imod", "andsy"}

StatementBoundary  == StatementListEnd \union StatementStart \union {"semicolon"}
ExpressionBoundary ==
    StatementListEnd \union {"semicolon", "comma", "rparent", "rbrack", "colon", "thensy",
                             "dosy", "tosy", "downtosy", "ofsy", "period"}
TypeBoundary ==
    DeclarationStart \union {"eof", "semicolon", "comma", "rparent", "rbrack", "ofsy", "endsy",
                             "beginsy"}

\* parserSkipUntil...Boundary: to the first token of a set that contains "eof".
SkippedTo(p, boundary) ==
    LET Found(k) == p.tokens[k].type \in boundary /\ \A j \in p.pos..k - 1 :
                        p.tokens[j].type \notin boundary
    IN  IF p.pos > Len(p.tokens) THEN p
        ELSE [p EXCEPT !.pos = CHOOSE k \in p.pos..Len(p.tokens) : Found(k)]

-----------------------------------------------------------------------------
(* Expected tokens. *)

\* parserShouldInsertMissingToken: before which tokens a missing one is taken as read.
InsertedBefore(expected) ==
    CASE expected = "semicolon" -> StatementListEnd \union StatementStart \union DeclarationStart
      [] expected = "colon"     -> {"eof"} \union TypeStart \union StatementStart
      [] expected = "eql"       -> {"eof"} \union TypeStart
      [] expected = "becomes"   -> {"eof"} \union ExpressionStart
      [] expected \in {"thensy", "dosy"} -> {"eof"} \union StatementStart
      [] expected = "rparent"   ->
           StatementListEnd \union {"semicolon", "comma", "colon", "thensy", "dosy", "tosy", "downtosy"}
      [] expected = "rbrack"    -> {"eof", "ofsy", "semicolon", "comma"}
      [] expected = "endsy"     -> StatementListEnd \union {"period", "semicolon"}
      [] OTHER                  -> {"eof"}

Consumed(p) ==
    [Advanced(p) EXCEPT !.children =
        Append(@, Leaf(p.tokens[IF p.pos > Len(p.tokens) THEN Len(p.tokens) ELSE p.pos]))]

\* parserExpectToken.  A token that is not the expected one is an error; then the
\* expected one is taken as read, or one token is dropped to look for it behind.
Expect(p, expected) ==
    LET dropped == Advanced(WithError(p))
    IN  CASE Current(p) = expected -> Consumed(p)
          [] Current(p) # expected /\ Current(p) \in InsertedBefore(expected) -> WithError(p)
          [] OTHER -> IF Current(dropped) = expected THEN Consumed(dropped) ELSE dropped

RECURSIVE ExpectEach(_, _)

ExpectEach(p, expected) ==
    IF expected = <<>> THEN p ELSE ExpectEach(Expect(p, Head(expected)), Tail(expected))

\* parserExpectToken without a node to attach the leaf to.
ExpectUnseen(p, expected) == [Expect(p, expected) EXCEPT !.children = p.children]

-----------------------------------------------------------------------------
(* Nodes. *)

\* A function builds its node from no children, and its caller attaches it.
Inside(p) == [p EXCEPT !.children = <<>>]

Attached(label, p, inside) ==
    [inside EXCEPT !.children = Append(p.children, Tree(label, inside.children))]

\* The parser never comes back; the rest of the tokens is never looked at.
Hung(p) == [p EXCEPT !.hung = TRUE, !.pos = Len(p.tokens)]

-----------------------------------------------------------------------------
(* Looking ahead. *)
RECURSIVE AfterBrackets(_, _, _), AfterVariable(_, _), RangeAheadAt(_, _, _, _)

\* The index behind the bracket that closes `depth` open ones.
AfterBrackets(tokens, k, depth) ==
    CASE k > Len(tokens) \/ depth = 0 -> k
      [] k <= Len(tokens) /\ depth > 0 ->
           AfterBrackets(tokens, k + 1,
               CASE tokens[k].type = "lbrack" -> depth + 1
                 [] tokens[k].type = "rbrack" -> depth - 1
                 [] OTHER -> depth)

IsAt(tokens, k, type) == k <= Len(tokens) /\ tokens[k].type = type

\* The index behind the brackets and fields that follow a name.
AfterVariable(tokens, k) ==
    CASE IsAt(tokens, k, "lbrack") -> AfterVariable(tokens, AfterBrackets(tokens, k + 1, 1))
      [] IsAt(tokens, k, "period") /\ ~IsAt(tokens, k + 1, "period") ->
           AfterVariable(tokens, IF IsAt(tokens, k + 1, "ident") THEN k + 2 ELSE k + 1)
      [] OTHER -> k

\* hasBecomesAfterVariable: an assignment, and not a call, starts here.
HasBecomesAfterVariable(p) ==
    /\ IsAt(p.tokens, p.pos, "ident")
    /\ IsAt(p.tokens, AfterVariable(p.tokens, p.pos + 1), "becomes")

TypeClosers == {"semicolon", "comma", "rbrack", "rparent", "ofsy"}

\* hasRangeOperatorAheadInType: two periods before the end of the type, outside
\* parentheses and brackets.
RangeAheadAt(tokens, k, parens, brackets) ==
    LET type  == tokens[k].type
        outer == parens = 0 /\ brackets = 0
        On(ps, bs) == RangeAheadAt(tokens, k + 1, ps, bs)
    IN  IF k > Len(tokens) THEN FALSE
        ELSE CASE type = "lparent" -> On(parens + 1, brackets)
               [] type = "lbrack"  -> On(parens, brackets + 1)
               [] type = "rparent" /\ parens > 0   -> On(parens - 1, brackets)
               [] type = "rbrack"  /\ brackets > 0 -> On(parens, brackets - 1)
               [] type \in TypeClosers /\ outer    -> FALSE
               [] type = "period" /\ outer /\ IsAt(tokens, k + 1, "period") -> TRUE
               [] type = "eof" -> FALSE
               [] OTHER -> On(parens, brackets)

HasRangeOperatorAheadInType(p) == RangeAheadAt(p.tokens, p.pos, 0, 0)
=============================================================================
