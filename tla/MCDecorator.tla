----------------------------- MODULE MCDecorator ------------------------------
(***************************************************************************)
(* Small programs for the semantic phase: two names besides the program's  *)
(* and the predefined ones, type expressions of every kind, and headings   *)
(* that mix simple and structured parameters.                              *)
(***************************************************************************)
EXTENDS ScopeDiscipline

Permanent(name, obj, type, nrm, adr) ==
    [identifier |-> name, link |-> NoIndex, obj |-> obj, type |-> type, ref |-> NoIndex,
     nrm |-> nrm, lev |-> 0, adr |-> adr, range |-> NoRange, initialized |-> TRUE]

PredefinedNames ==
    <<Permanent("write", "procedure", "void", -1, 0)>>

Identifiers == {"p", "a", "b", "c", "write"}

TypeName(name) == [kind |-> "name", name |-> name]
Literal(n) == [kind |-> "literal", type |-> "integer", value |-> n, negative |-> FALSE]
ConstantName(name, negative) == [kind |-> "name", name |-> name, negative |-> negative]
Upto(n) == [kind |-> "range", low |-> Literal(1), high |-> Literal(n)]
Enumerated(names) == [kind |-> "enumerated", names |-> names]
ArrayOf(index, element) == [kind |-> "array", index |-> index, element |-> element]
RecordOf(fields) == [kind |-> "record", fields |-> fields]
Part(names, type) == [names |-> names, type |-> type]

Pair == RecordOf(<<Part(<<"a">>, TypeName("integer")),
                   Part(<<"b">>, ArrayOf(Upto(2), TypeName("integer")))>>)

Constants == {Literal(2), ConstantName("a", FALSE)}

\* For storage: every kind of type, named and written out.
RichTypes ==
    {TypeName("integer"), TypeName("a"), Enumerated(<<"c">>), Pair,
     ArrayOf(Upto(2), TypeName("a"))}

\* For formal parameters: an enumeration written out between them.
EnumeratedHeadings ==
    {<<Part(<<"b">>, TypeName("integer")),
       Part(<<"a">>, ArrayOf(Upto(2), Enumerated(<<"c">>)))>>}

MixedHeadings == EnumeratedHeadings \cup
    {<<>>,
     <<Part(<<"b">>, ArrayOf(Upto(2), TypeName("integer"))), Part(<<"a">>, TypeName("integer"))>>}

\* For scopes: many names and little else.
PlainTypes == {TypeName("integer")}

\* For the tables: records too, one of which declares a field twice.
RecordTypes ==
    {TypeName("integer"), RecordOf(<<Part(<<"a">>, TypeName("integer"))>>),
     RecordOf(<<Part(<<"a", "a">>, TypeName("integer"))>>)}

PlainHeadings == {<<>>, <<Part(<<"a">>, TypeName("integer"))>>}

Lists == {<<"a">>, <<"a", "b">>}
PlainLists == {<<"a">>, <<"p">>}

ShadowingNames == {"a", "p", "write"}

-----------------------------------------------------------------------------
(* The vocabularies. *)
Storage ==
    [constants |-> {}, types |-> RichTypes, headings |-> MixedHeadings, lists |-> Lists,
     names |-> {"a", "b"}, results |-> {"integer", "a"}, uses |-> {}]

Nesting ==
    [constants |-> Constants, types |-> RecordTypes, headings |-> PlainHeadings,
     lists |-> PlainLists, names |-> ShadowingNames, results |-> {"integer"}, uses |-> {}]

Shadowing ==
    [constants |-> {}, types |-> PlainTypes, headings |-> PlainHeadings, lists |-> PlainLists,
     names |-> {"a", "p"}, results |-> {"integer"}, uses |-> ShadowingNames]

Enumerations == [Storage EXCEPT !.types = PlainTypes, !.headings = EnumeratedHeadings,
                                !.lists = PlainLists, !.results = {"integer"}]

\* The instances of Vocabularies.
EveryVocabulary  == {Storage, Nesting, Shadowing}
OnlyShadowing    == {Shadowing}
OnlyEnumerations == {Enumerations}
===============================================================================
