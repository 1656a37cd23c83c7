----------------------------- MODULE MCSymbolTable -----------------------------
(***************************************************************************)
(* Small tables for any caller: two names, one of them predefined, and     *)
(* types that refer to an array or a record or to nothing at all.          *)
(***************************************************************************)
EXTENDS SymbolTableCalls

Names == {"a", "write"}

PredefinedNames ==
    <<[identifier |-> "write", link |-> NoIndex, obj |-> "procedure", type |-> "void",
       ref |-> NoIndex, nrm |-> -1, lev |-> 0, adr |-> 0, range |-> NoRange,
       initialized |-> TRUE]>>

Classes == {"variable"}

Types ==
    {[type |-> "integer", ref |-> NoIndex, range |-> NoRange],
     [type |-> "record", ref |-> 2, range |-> NoRange]}

SmallNumbers == {0, 2}
=============================================================================
