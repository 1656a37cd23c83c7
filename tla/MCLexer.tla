--------------------------------- MODULE MCLexer -------------------------------
(***************************************************************************)
(* Small files: all short ones over the characters that numbers, literals, *)
(* comments and symbols are made of, and the keywords with their           *)
(* beginnings, endings and capitals.                                       *)
(***************************************************************************)
EXTENDS LexicalRules

RECURSIVE OfLength(_, _)

OfLength(cs, n) == IF n = 0 THEN {""} ELSE {c \o w : c \in cs, w \in OfLength(cs, n - 1)}

UpTo(cs, n) == UNION {OfLength(cs, m) : m \in 0..n}

Capitals(word) ==
    IF word = "" THEN ""
    ELSE (CHOOSE c \in DOMAIN SmallOf : SmallOf[c] = CharacterAt(word, 1)) \o SubSeq(word, 2, Len(word))

Beginnings(word) == {SubSeq(word, 1, k) : k \in 1..Len(word)}

Words == UNION {Beginnings(k) \union {Capitals(k)} : k \in DOMAIN KeywordType}

AllTexts ==
    UpTo({"1", ".", "a", " ", "\n"}, 5)
      \union UpTo({"'", "a", " ", "\n", ";"}, 5)
      \union UpTo({"(", "*", ")", "{", "}", "\n"}, 5)
      \union UpTo({":", "=", "<", ">", "-", "#", "["}, 3)
      \union {w \o c : w \in Words, c \in {"", "x", "1", " ", ".", ";to"}}
=============================================================================
