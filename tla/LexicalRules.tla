------------------------------ MODULE LexicalRules -----------------------------
(***************************************************************************)
(* What the tokens are (README.md, "Daftar Token yang Dikenali"), as a     *)
(* definition of the words of each type, and what the lexer's automaton    *)
(* owes to it: at every place the longest word is the token.               *)
(***************************************************************************)
EXTENDS Lexer, FiniteSets

AllIn(word, cs) == \A k \in 1..Len(word) : CharacterAt(word, k) \in cs

\* The part between the first characters and the last ones.
Inner(word, first, last) == SubSeq(word, first + 1, Len(word) - last)

Holds(word, part) ==
    \E k \in 1..Len(word) - Len(part) + 1 : SubSeq(word, k, k + Len(part) - 1) = part

IsName(word) == CharacterAt(word, 1) \in Letters /\ AllIn(word, IdentifierPart)

IsInteger(word) == AllIn(word, Digits)

IsReal(word) ==
    \E k \in 2..Len(word) - 1 :
        /\ CharacterAt(word, k) = "."
        /\ IsInteger(SubSeq(word, 1, k - 1))
        /\ IsInteger(SubSeq(word, k + 1, Len(word)))

\* A quote inside a literal is written twice.
RECURSIVE Paired(_), Singled(_)

Paired(word) ==
    CASE word = ""                  -> TRUE
      [] CharacterAt(word, 1) # "'" -> Paired(Inner(word, 1, 0))
      [] OTHER                      -> /\ Len(word) > 1
                                       /\ CharacterAt(word, 2) = "'"
                                       /\ Paired(Inner(word, 2, 0))

Singled(word) ==
    IF word = "" THEN ""
    ELSE CharacterAt(word, 1) \o Singled(Inner(word, IF CharacterAt(word, 1) = "'" THEN 2 ELSE 1, 0))

IsQuoted(word) ==
    /\ Len(word) >= 2
    /\ CharacterAt(word, 1) = "'" /\ CharacterAt(word, Len(word)) = "'"
    /\ Paired(Inner(word, 1, 1))
    /\ ~Holds(word, "\n") /\ ~Holds(word, "\r")

IsBraced(word) ==
    /\ Len(word) >= 2
    /\ CharacterAt(word, 1) = "{" /\ CharacterAt(word, Len(word)) = "}"
    /\ ~Holds(Inner(word, 1, 1), "}")

IsStarred(word) ==
    /\ Len(word) >= 4
    /\ SubSeq(word, 1, 2) = "(*" /\ SubSeq(word, Len(word) - 1, Len(word)) = "*)"
    /\ ~Holds(Inner(word, 2, 1), "*)")

Symbols ==
    [w \in {"==", "<>", ">", ">=", "<", "<=", "(", ".", ":", ":="} |->
        CASE w = "==" -> "eql" [] w = "<>" -> "neq" [] w = ">" -> "gtr" [] w = ">=" -> "geq"
          [] w = "<" -> "lss" [] w = "<=" -> "leq" [] w = "(" -> "lparent" [] w = "." -> "period"
          [] w = ":" -> "colon" [] w = ":=" -> "becomes"]

\* The token a word is, or none.
Meant(word) ==
    CASE IsName(word)    -> [type |-> IF KeywordsOf(word) = {} THEN "ident"
                                      ELSE KeywordType[CHOOSE k \in KeywordsOf(word) : TRUE],
                             lexeme |-> word]
      [] IsInteger(word) -> [type |-> "intcon", lexeme |-> word]
      [] IsReal(word)    -> [type |-> "realcon", lexeme |-> word]
      [] IsQuoted(word)  -> LET its == Singled(Inner(word, 1, 1))
                            IN  [type |-> IF Len(its) = 1 THEN "charcon" ELSE "string", lexeme |-> its]
      [] IsBraced(word)  -> [type |-> "comment", lexeme |-> Inner(word, 1, 1)]
      [] IsStarred(word) -> [type |-> "comment", lexeme |-> Inner(word, 2, 2)]
      [] word \in DOMAIN SymbolType -> [type |-> SymbolType[word], lexeme |-> word]
      [] word \in DOMAIN Symbols    -> [type |-> Symbols[word], lexeme |-> word]
      [] OTHER           -> [type |-> "none", lexeme |-> word]

LinesEndedIn(word) == Cardinality({k \in 1..Len(word) : CharacterAt(word, k) = "\n"})

\* A parenthesis before a star is no token: a comment opens there.
OpensComment(file, k) == k < Len(file) /\ SubSeq(file, k, k + 1) = "(*"

RECURSIVE Reading(_, _, _)

\* The tokens from the k-th character on, which is in the given line.  Where no word
\* begins there is an unknown one, and what follows it is left open.
Reading(file, k, its) ==
    IF k > Len(file) THEN <<[type |-> "eof", lexeme |-> "EOF", line |-> its]>>
    ELSE IF CharacterAt(file, k) \in Blanks
    THEN Reading(file, k + 1, its + LinesEndedIn(CharacterAt(file, k)))
    ELSE LET ends == {e \in k..Len(file) : /\ Meant(SubSeq(file, k, e)).type # "none"
                                           /\ OpensComment(file, k) => e > k}
         IN  IF ends = {} THEN <<[type |-> "unknown", lexeme |-> "", line |-> its]>>
             ELSE LET last == CHOOSE e \in ends : \A f \in ends : f <= e
                      word == SubSeq(file, k, last)
                  IN  <<[type |-> Meant(word).type, lexeme |-> Meant(word).lexeme, line |-> its]>>
                        \o Reading(file, last + 1, its + LinesEndedIn(word))

-----------------------------------------------------------------------------
(* Left out of the comparison: a period right behind a number and right    *)
(* before something else than a digit, a period or a blank, which makes    *)
(* one unknown token of all of it, and two quotes before a separator or at *)
(* the end, which close the literal they are in.                           *)
SpoilsANumber(k) ==
    /\ k > 1 /\ k < Len(text)
    /\ CharacterAt(text, k) = "."
    /\ CharacterAt(text, k - 1) \in Digits
    /\ CharacterAt(text, k + 1) \notin Digits \union Blanks \union {"."}

ClosesTwice(k) ==
    /\ k > 1
    /\ SubSeq(text, k - 1, k) = "''"
    /\ k < Len(text) => CharacterAt(text, k + 1) \in QuoteBoundary

Documented == \A k \in 1..Len(text) : ~SpoilsANumber(k) /\ ~ClosesTwice(k)

Types(tokens) == {tokens[k].type : k \in 1..Len(tokens)}

\* The tokens returned for a file are those of the longest words, in their order, each
\* with the line it begins in; and where the rules have no word there is an unknown one.
\* The automaton decides character by character, with states kept from one token to the
\* next and a line that moves on while the token is collected.
ReadsByTheRules ==
    state = "ended" /\ Documented =>
        LET meant == Reading(text, 1, 1)
        IN  IF "unknown" \in Types(meant) THEN "unknown" \in Types(produced)
            ELSE produced = meant

\* Every file is read to its end, whatever is in it: no round of the loop is without
\* effect for ever (getToken has no other way out than a token).
ReachesTheEnd == <>(state = "ended")
=============================================================================
