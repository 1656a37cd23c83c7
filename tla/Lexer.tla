--------------------------------- MODULE Lexer ---------------------------------
(***************************************************************************)
(* The lexer (lexer.c) over the character machine (mesinkarakter.c): an    *)
(* automaton that looks at one character of a file at a time.              *)
(*                                                                         *)
(* An action is one round of the loop of getToken in one of its states.    *)
(* A token is put at the end of `produced` when a call of getToken returns *)
(* it; a state other than "start" between two tokens is what the lexer     *)
(* keeps from call to call.                                                *)
(***************************************************************************)
EXTENDS Naturals, Sequences

CONSTANTS Texts,              \* what may be in the file: strings
          MaxLexeme           \* MAX_LEXEME, with the terminating zero

ASSUME MaxLexemeAssumption == MaxLexeme \in Nat /\ MaxLexeme > 10

VARIABLES text,               \* the file
          at,                 \* where the current character is; behind the file at its end
          state,              \* of the automaton
          lexeme,             \* collected so far
          line, tokenLine,    \* the line of the current character, and of the token's first
          produced            \* the tokens returned so far

lexerVars == <<text, at, state, lexeme, line, tokenLine, produced>>

-----------------------------------------------------------------------------
(* Characters. *)
CharacterAt(word, k) == SubSeq(word, k, k)

Small   == "abcdefghijklmnopqrstuvwxyz"
Capital == "ABCDEFGHIJKLMNOPQRSTUVWXYZ"

SmallOf == [c \in {CharacterAt(Capital, k) : k \in 1..26} |->
               CharacterAt(Small, CHOOSE k \in 1..26 : CharacterAt(Capital, k) = c)]

Letters == {CharacterAt(Small, k) : k \in 1..26} \union DOMAIN SmallOf
Digits  == {"0", "1", "2", "3", "4", "5", "6", "7", "8", "9"}
Blanks  == {" ", "\n", "\r", "\t", "\f"}

LowerChar(c) == IF c \in DOMAIN SmallOf THEN SmallOf[c] ELSE c

IdentifierPart == Letters \union Digits

QuoteBoundary ==
    Blanks \union {"+", "-", "*", "/", "(", ")", "[", "]", ",", ";", ".", ":", "<", ">", "=", "{", "}"}

EndOfFile == at > Len(text)
Current   == CharacterAt(text, at)

\* The states from STATE_C to STATE_DOWNTO are the beginnings of these words.
KeywordType ==
    [const |-> "constsy", case |-> "casesy", type |-> "typesy", to |-> "tosy", then |-> "thensy",
     var |-> "varsy", function |-> "functionsy", for |-> "forsy", procedure |-> "proceduresy",
     program |-> "programsy", and |-> "andsy", array |-> "arraysy", record |-> "recordsy",
     repeat |-> "repeatsy", begin |-> "beginsy", if |-> "ifsy", not |-> "notsy", mod |-> "imod",
     while |-> "whilesy", end |-> "endsy", else |-> "elsesy", until |-> "untilsy", of |-> "ofsy",
     or |-> "orsy", div |-> "idiv", do |-> "dosy", downto |-> "downtosy"]

Begins(word, keyword) ==
    /\ Len(word) <= Len(keyword)
    /\ \A k \in 1..Len(word) : LowerChar(CharacterAt(word, k)) = CharacterAt(keyword, k)

BeginsAKeyword(word) == \E keyword \in DOMAIN KeywordType : Begins(word, keyword)

\* The keyword a word is, if it is one.
KeywordsOf(word) == {k \in DOMAIN KeywordType : Begins(word, k) /\ Len(word) = Len(k)}

SymbolType ==
    [c \in {"+", "-", "*", "/", ")", "[", "]", ",", ";"} |->
        CASE c = "+" -> "plus" [] c = "-" -> "minus" [] c = "*" -> "times" [] c = "/" -> "rdiv"
          [] c = ")" -> "rparent" [] c = "[" -> "lbrack" [] c = "]" -> "rbrack"
          [] c = "," -> "comma" [] c = ";" -> "semicolon"]

\* The characters that may begin a token of two, and those that begin longer ones.
OpeningState ==
    [c \in {"'", ":", "<", ">", "=", "{", "(", "."} |->
        CASE c = "'" -> "quote" [] c = ":" -> "colon" [] c = "<" -> "lt" [] c = ">" -> "gt"
          [] c = "=" -> "equal" [] c = "{" -> "comment_brace" [] c = "(" -> "bracket"
          [] c = "." -> "period"]

-----------------------------------------------------------------------------
(* What a round does. *)

\* appendChar
Lengthened(word, c) == IF Len(word) < MaxLexeme - 1 THEN word \o c ELSE word

\* Mutant of Advance: a line ends when its last character becomes the current one.
AdvanceEarly ==
    /\ at' = at + 1
    /\ line' = IF at < Len(text) /\ CharacterAt(text, at + 1) = "\n" THEN line + 1 ELSE line

\* lexerAdvance: a line ends when its last character is left.
Advance ==
    /\ at' = at + 1
    /\ line' = IF Current = "\n" THEN line + 1 ELSE line

Stay == UNCHANGED <<at, line>>

Become(next) == state' = next /\ UNCHANGED <<text, tokenLine, produced>>

\* The current character joins the lexeme, or is passed over, or not yet looked at.
Take(next)  == Become(next) /\ Advance /\ lexeme' = Lengthened(lexeme, Current)
Pass(next)  == Become(next) /\ Advance /\ UNCHANGED lexeme
Leave(next) == Become(next) /\ Stay /\ UNCHANGED lexeme

\* A call returns a token; the next one begins in the given state.
Return(type, word, its, next) ==
    /\ produced' = Append(produced, [type |-> type, lexeme |-> word, line |-> its])
    /\ lexeme' = ""
    /\ state' = next
    /\ UNCHANGED text

\* SET_TOKEN and RETURN_TOKEN, before or after the current character.
Give(type, word)     == Return(type, word, tokenLine, "start") /\ Stay /\ UNCHANGED tokenLine
GiveWith(type, word) == Return(type, word, tokenLine, "start") /\ Advance /\ UNCHANGED tokenLine

Character(cs) == ~EndOfFile /\ Current \in cs
Another(cs)   == ~EndOfFile /\ Current \notin cs

-----------------------------------------------------------------------------
(* STATE_START. *)
AtEnd ==
    /\ state = "start" /\ EndOfFile
    /\ Return("eof", "EOF", line, "ended")
    /\ Stay
    /\ UNCHANGED tokenLine

SkipBlank == state = "start" /\ Character(Blanks) /\ Pass("start")

\* markTokenStart comes first: the line of the token is that of its first character.
Opens(cs) == state = "start" /\ Character(cs) /\ tokenLine' = line

BeginWord ==
    /\ Opens(Letters)
    /\ state' = IF BeginsAKeyword(Current) THEN "keyword" ELSE "ident"
    /\ lexeme' = Lengthened("", Current)
    /\ Advance
    /\ UNCHANGED <<text, produced>>

BeginNumber ==
    /\ Opens(Digits)
    /\ state' = "number"
    /\ lexeme' = Lengthened("", Current)
    /\ Advance
    /\ UNCHANGED <<text, produced>>

BeginOther ==
    /\ Opens(DOMAIN OpeningState)
    /\ state' = OpeningState[Current]
    /\ Advance
    /\ UNCHANGED <<text, lexeme, produced>>

OneCharacter ==
    /\ state = "start" /\ Another(Blanks \union IdentifierPart \union DOMAIN OpeningState)
    /\ tokenLine' = line
    /\ LET type == IF Current \in DOMAIN SymbolType THEN SymbolType[Current] ELSE "unknown"
       IN  Return(type, Current, line, "start")
    /\ Advance

-----------------------------------------------------------------------------
(* Words and numbers. *)

\* keywordStepOrFallback and finishKeywordOrIdent: a word that stops being the
\* beginning of a keyword, and a keyword with more behind it, go on as identifiers.
InKeyword ==
    /\ state = "keyword"
    /\ IF ~EndOfFile /\ BeginsAKeyword(lexeme \o Current) THEN Take("keyword")
       ELSE IF KeywordsOf(lexeme) # {} /\ ~Character(IdentifierPart)
            THEN \E keyword \in KeywordsOf(lexeme) : Give(KeywordType[keyword], lexeme)
            ELSE Leave("ident")

InIdentifier ==
    /\ state = "ident"
    /\ IF Character(IdentifierPart) THEN Take("ident") ELSE Give("ident", lexeme)

InNumber ==
    /\ state = "number"
    /\ CASE Character(Digits) -> Take("number")
         [] Character({"."})  -> Pass("number_dot")
         [] OTHER             -> Give("intcon", lexeme)

\* Where the next blank is, or the end of the file.
NextBlank == CHOOSE k \in at..Len(text) + 1 :
    /\ k <= Len(text) => CharacterAt(text, k) \in Blanks
    /\ \A j \in at..k - 1 : CharacterAt(text, j) \notin Blanks

RECURSIVE LengthenedBy(_, _)

LengthenedBy(word, more) ==
    IF more = "" THEN word
    ELSE LengthenedBy(Lengthened(word, CharacterAt(more, 1)), SubSeq(more, 2, Len(more)))

\* The period behind the number has been passed: it belongs to the number, or spoils it,
\* or is a token of its own, which the next call returns.
InNumberDot ==
    /\ state = "number_dot"
    /\ \/ /\ Character(Digits)
          /\ Become("real")
          /\ lexeme' = Lengthened(lexeme, ".")
          /\ Stay
       \/ /\ Another(Digits \union Blanks \union {"."})
          /\ Return("unknown", LengthenedBy(Lengthened(lexeme, "."), SubSeq(text, at, NextBlank - 1)),
                    tokenLine, "start")
          /\ at' = NextBlank
          /\ UNCHANGED <<line, tokenLine>>
       \/ /\ ~Character(Digits) /\ ~Another(Digits \union Blanks \union {"."})
          /\ Return("intcon", lexeme, tokenLine, "pending_period")
          /\ tokenLine' = line
          /\ Stay

InReal ==
    /\ state = "real"
    /\ \/ Character(Digits) /\ Take("real")
       \/ /\ Character({"."})
          /\ Return("realcon", lexeme, tokenLine, "pending_period")
          /\ tokenLine' = line
          /\ Advance
       \/ ~Character(Digits \union {"."}) /\ Give("realcon", lexeme)

PendingPeriod ==
    /\ state = "pending_period"
    /\ Return("period", ".", tokenLine, "start")
    /\ tokenLine' = IF Character({"."}) THEN line ELSE tokenLine
    /\ Stay

-----------------------------------------------------------------------------
(* Literals in quotes. *)
GiveQuoted == Give(IF Len(lexeme) = 1 THEN "charcon" ELSE "string", lexeme)

InQuote ==
    /\ state = "quote"
    /\ CASE EndOfFile \/ Character({"\n", "\r"}) -> Give("unknown", "Invalid string")
         [] Character({"'"}) -> Pass("after_quote")
         [] OTHER            -> Take("quote")

AfterQuote ==
    /\ state = "after_quote"
    /\ IF Character({"'"}) THEN Take("escaped") ELSE GiveQuoted

\* A doubled quote is one, but before a blank, a separator or the end it also closes.
AfterDoubledQuote ==
    /\ state = "escaped"
    /\ IF EndOfFile \/ Character(QuoteBoundary) THEN GiveQuoted ELSE Leave("quote")

-----------------------------------------------------------------------------
(* Symbols of one or two characters. *)
InSymbol ==
    \/ state = "colon"  /\ Character({"="}) /\ GiveWith("becomes", ":=")
    \/ state = "colon"  /\ ~Character({"="}) /\ Give("colon", ":")
    \/ state = "lt"     /\ Character({"="}) /\ GiveWith("leq", "<=")
    \/ state = "lt"     /\ Character({">"}) /\ GiveWith("neq", "<>")
    \/ state = "lt"     /\ ~Character({"=", ">"}) /\ Give("lss", "<")
    \/ state = "gt"     /\ Character({"="}) /\ GiveWith("geq", ">=")
    \/ state = "gt"     /\ ~Character({"="}) /\ Give("gtr", ">")
    \/ state = "equal"  /\ Character({"="}) /\ GiveWith("eql", "==")
    \/ state = "equal"  /\ ~Character({"="}) /\ Give("unknown", "=")
    \/ state = "period" /\ Give("period", ".")
    \/ state = "bracket" /\ Character({"*"}) /\ Pass("comment_paren")
    \/ state = "bracket" /\ ~Character({"*"}) /\ Give("lparent", "(")

-----------------------------------------------------------------------------
(* Comments. *)
InBraces ==
    /\ state = "comment_brace"
    /\ CASE EndOfFile        -> Give("unknown", "Invalid comment")
         [] Character({"}"}) -> GiveWith("comment", lexeme)
         [] OTHER            -> Take("comment_brace")

InParentheses ==
    /\ state = "comment_paren"
    /\ CASE EndOfFile        -> Give("unknown", "Invalid comment")
         [] Character({"*"}) -> Pass("near_end")
         [] OTHER            -> Take("comment_paren")

\* Mutant of NearEnd: the star joins the lexeme and the state stays.
NearEndStays ==
    /\ state = "near_end"
    /\ \/ EndOfFile /\ Give("unknown", "Invalid comment")
       \/ Character({")"}) /\ GiveWith("comment", lexeme)
       \/ /\ Another({")"})
          /\ Become("near_end")
          /\ lexeme' = Lengthened(lexeme, "*")
          /\ Stay

\* Behind a star in a comment.
NearEnd ==
    /\ state = "near_end"
    /\ \/ EndOfFile /\ Give("unknown", "Invalid comment")
       \/ Character({")"}) /\ GiveWith("comment", lexeme)
       \/ /\ Another({")"})
          /\ Become("comment_paren")
          /\ lexeme' = Lengthened(lexeme, "*")
          /\ Stay

-----------------------------------------------------------------------------
LexerInit ==
    /\ text \in Texts
    /\ at = 1
    /\ state = "start"
    /\ lexeme = ""
    /\ line = 1 /\ tokenLine = 1
    /\ produced = <<>>

\* The callers stop at the end-of-file token.
Closed == state = "ended" /\ UNCHANGED lexerVars

LexerNext ==
    \/ AtEnd \/ SkipBlank \/ BeginWord \/ BeginNumber \/ BeginOther \/ OneCharacter
    \/ InKeyword \/ InIdentifier \/ InNumber \/ InNumberDot \/ InReal \/ PendingPeriod
    \/ InQuote \/ AfterQuote \/ AfterDoubledQuote \/ InSymbol
    \/ InBraces \/ InParentheses \/ NearEnd
    \/ Closed

LexerSpec == LexerInit /\ [][LexerNext]_lexerVars /\ WF_lexerVars(LexerNext)
=============================================================================
