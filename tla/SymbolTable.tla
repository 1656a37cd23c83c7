----------------------------- MODULE SymbolTable ------------------------------
(***************************************************************************)
(* The symbol table of the semantic phase (symbol_table.c): the identifier *)
(* table tab, the block table btab, array types, enumerations, and the     *)
(* display of the blocks whose scopes are open.  The globals of the C      *)
(* module are the fields of one record, `s` below, and each function is an *)
(* operator from such a record to the record it leaves.                    *)
(*                                                                         *)
(* Indexes into the tables start at 1, and NoIndex stands for -1.          *)
(* Keywords occupy entries no lookup asks for; they are left out and       *)
(* MaxTab counts the rest.  Names that differ only in case are one member  *)
(* of Identifier.                                                          *)
(***************************************************************************)
EXTENDS Integers, Sequences, FiniteSets, FiniteSetsExt

CONSTANTS Identifier,         \* every name a program may use
          Predefined,         \* the entries symInit makes: true, writeln, ...
          MaxTab,             \* MAX_TAB
          MaxBtab,            \* MAX_BTAB
          MaxAtab,            \* MAX_ATAB
          MaxEtab,            \* MAX_ETAB
          MaxScopes           \* MAX_DISPLAY

NoIndex == 0

ObjClass == {"constant", "variable", "type", "procedure", "function", "program"}
BaseType == {"none", "integer", "real", "boolean", "char", "string",
             "array", "record", "void"}

\* hasRange, rangeBase, rangeLow and rangeHigh; NoRange where hasRange is false.
Subrange == [base : BaseType, low : Int, high : Int]
NoRange  == [base |-> "none", low |-> 0, high |-> 0]

TabEntry ==
    [identifier : Identifier, link : Nat, obj : ObjClass, type : BaseType, ref : Nat,
     nrm : Int, lev : Nat, adr : Int, range : Subrange, initialized : BOOLEAN]
BtabEntry == [last : Nat, lpar : Nat, psze : Int, vsze : Int]
AtabEntry ==
    [xtyp : BaseType, xref : Nat, etyp : BaseType, eref : Nat, low : Int, high : Int,
     elsz : Nat, size : Int, range : Subrange]

\* symInit makes the predefined entries first; the global block is the first block.
ASSUME SymbolTableAssumption ==
    /\ Predefined \in Seq(TabEntry)
    /\ \A i \in 1..Len(Predefined) : Predefined[i].link = NoIndex
    /\ {MaxTab, MaxBtab, MaxAtab, MaxEtab, MaxScopes} \subseteq Nat \ {0}
    /\ Len(Predefined) <= MaxTab

\* An lpar of 0 in C, which no walk reads: a parameter sets it.
EmptyBlock == [last |-> NoIndex, lpar |-> NoIndex, psze |-> 0, vsze |-> 0]

\* symInit.
InitialTable ==
    [tab |-> Predefined, btab |-> <<EmptyBlock>>, atab |-> <<>>, etab |-> <<>>,
     display |-> [level \in 0..MaxScopes - 1 |-> IF level = 0 THEN 1 ELSE NoIndex],
     currentLevel |-> 0, recordBlocks |-> <<>>]

Table ==
    [tab : Seq(TabEntry), btab : Seq(BtabEntry), atab : Seq(AtabEntry),
     etab : Seq(Nat), display : [0..MaxScopes - 1 -> Nat],
     currentLevel : 0..MaxScopes - 1, recordBlocks : Seq(Nat)]

\* The tables as every operation leaves them: entries are well formed, links lead
\* to earlier entries, so that a walk along a chain ends, and what the display and
\* the record blocks name is there.
Tables(s) ==
    /\ s \in Table
    /\ Len(s.tab) <= MaxTab /\ Len(s.btab) \in 1..MaxBtab
    /\ Len(s.atab) <= MaxAtab /\ Len(s.etab) <= MaxEtab
    /\ \A i \in 1..Len(s.tab) : s.tab[i].link < i
    /\ \A b \in 1..Len(s.btab) : s.btab[b].last <= Len(s.tab)
    /\ \A level \in 0..MaxScopes - 1 : s.display[level] <= Len(s.btab)
    /\ \A k \in 1..Len(s.recordBlocks) : s.recordBlocks[k] \in 1..Len(s.btab)

-----------------------------------------------------------------------------
(***************************************************************************)
(* Chains: the entries of a block, from its last one along the links.      *)
(***************************************************************************)
Chain(s, first) ==
    LET from[i \in 0..Len(s.tab)] ==
            IF i = NoIndex THEN {} ELSE {i} \cup from[s.tab[i].link]
    IN  from[first]

Block(s, b) == Chain(s, s.btab[b].last)

\* Links lead to earlier entries, so the first one met on a chain is the latest.
Latest(entries) == IF entries = {} THEN NoIndex ELSE Max(entries)

Named(s, entries, name) == {i \in entries : s.tab[i].identifier = name}

FindSameNameInBlock(s, name, b) == Latest(Named(s, Block(s, b), name))

FindPermanentName(s, name) == Latest(Named(s, 1..Len(Predefined), name))

\* Mutant of SymLookup: the scopes from the outermost one up.
SymLookupOutermost(s, name) ==
    LET levels == {level \in 0..s.currentLevel :
                      /\ s.display[level] \in 1..Len(s.btab)
                      /\ FindSameNameInBlock(s, name, s.display[level]) # NoIndex}
    IN  IF levels = {} THEN FindPermanentName(s, name)
        ELSE FindSameNameInBlock(s, name, s.display[Min(levels)])

\* symLookup: the scopes from the current level down, then the predefined names.
SymLookup(s, name) ==
    LET InScope(level) == IF s.display[level] \notin 1..Len(s.btab) THEN NoIndex
                          ELSE FindSameNameInBlock(s, name, s.display[level])
        from[level \in -1..s.currentLevel] ==
            IF level < 0 THEN FindPermanentName(s, name)
            ELSE LET found == InScope(level)
                 IN  IF found # NoIndex THEN found ELSE from[level - 1]
    IN  from[s.currentLevel]

-----------------------------------------------------------------------------
(***************************************************************************)
(* Scopes and record blocks.                                               *)
(***************************************************************************)

\* Mutant of SymEnterScope: the display is set before the level is raised.
SymEnterScopeOneTooLow(s) ==
    IF s.currentLevel + 1 >= MaxScopes \/ Len(s.btab) >= MaxBtab THEN s
    ELSE [s EXCEPT !.btab = Append(@, EmptyBlock),
                   !.currentLevel = @ + 1,
                   !.display[s.currentLevel] = Len(s.btab) + 1]

\* A scope for which there is no room is not entered, and nobody is told.
SymEnterScope(s) ==
    IF s.currentLevel + 1 >= MaxScopes \/ Len(s.btab) >= MaxBtab THEN s
    ELSE [s EXCEPT !.btab = Append(@, EmptyBlock),
                   !.currentLevel = @ + 1,
                   !.display[s.currentLevel + 1] = Len(s.btab) + 1]

\* Mutant of SymExitScope: the names of the scope are dropped.
SymExitScopeForgetting(s) ==
    [s EXCEPT !.currentLevel = IF @ > 0 THEN @ - 1 ELSE 0,
              !.btab[s.display[s.currentLevel]].last = NoIndex]

SymExitScope(s) == [s EXCEPT !.currentLevel = IF @ > 0 THEN @ - 1 ELSE 0]

\* What a function of the table returns beside the table it leaves: an index or NoIndex.
Answered(s, index) == [table |-> s, index |-> index]

\* Mutant of SymEnterRecordBlock: the limit one too high.
SymEnterRecordBlockLate(s) ==
    IF Len(s.btab) > MaxBtab THEN Answered(s, NoIndex)
    ELSE Answered([s EXCEPT !.btab = Append(@, EmptyBlock),
                           !.recordBlocks = Append(@, Len(s.btab) + 1)],
                 Len(s.btab) + 1)

SymEnterRecordBlock(s) ==
    IF Len(s.btab) >= MaxBtab THEN Answered(s, NoIndex)
    ELSE Answered([s EXCEPT !.btab = Append(@, EmptyBlock),
                           !.recordBlocks = IF Len(@) < MaxBtab
                                            THEN Append(@, Len(s.btab) + 1) ELSE @],
                 Len(s.btab) + 1)

SymExitRecordBlock(s) ==
    [s EXCEPT !.recordBlocks = IF @ = <<>> THEN @ ELSE SubSeq(@, 1, Len(@) - 1)]

-----------------------------------------------------------------------------
(***************************************************************************)
(* Entering names and types.                                               *)
(***************************************************************************)
SizeOfBaseType(type) ==
    IF type \in {"integer", "real", "boolean", "char", "string"} THEN 1 ELSE 0

SizeOfType(s, type, ref) ==
    CASE type = "array" /\ ref \in 1..Len(s.atab)  -> s.atab[ref].size
      [] type = "record" /\ ref \in 1..Len(s.btab) -> s.btab[ref].vsze
      [] OTHER                                     -> SizeOfBaseType(type)

\* A new entry at the head of block b's chain.
Linked(s, b, name, obj, type, ref, nrm, adr, initialized) ==
    [s EXCEPT !.tab = Append(@,
                 [identifier |-> name, link |-> s.btab[b].last, obj |-> obj,
                  type |-> type, ref |-> ref, nrm |-> nrm, lev |-> s.currentLevel,
                  adr |-> adr, range |-> NoRange, initialized |-> initialized]),
              !.btab[b].last = Len(s.tab) + 1]

\* Mutants of SymEnter: a name of the block itself is not refused, and lpar stays at
\* the first parameter.
SymEnterTwice(s, name, obj, type, ref, nrm, adr) ==
    LET b == s.display[s.currentLevel]
    IN  IF Len(s.tab) >= MaxTab \/ FindPermanentName(s, name) # NoIndex
        THEN Answered(s, NoIndex)
        ELSE Answered(Linked(s, b, name, obj, type, ref, nrm, adr, TRUE), Len(s.tab) + 1)

SymEnterFirstParameter(s, name, obj, type, ref, nrm, adr) ==
    LET b      == s.display[s.currentLevel]
        linked == Linked(s, b, name, obj, type, ref, nrm, adr, obj # "variable" \/ nrm = 0)
    IN  IF \/ Len(s.tab) >= MaxTab
           \/ FindSameNameInBlock(s, name, b) # NoIndex
           \/ FindPermanentName(s, name) # NoIndex
        THEN Answered(s, NoIndex)
        ELSE Answered(
                IF obj = "variable" /\ nrm = 0 /\ s.btab[b].lpar = NoIndex
                THEN [linked EXCEPT !.btab[b].lpar = Len(s.tab) + 1] ELSE linked,
                Len(s.tab) + 1)

\* symEnter.  A variable with nrm = 0 is a parameter, born initialised.
SymEnter(s, name, obj, type, ref, nrm, adr) ==
    LET b       == s.display[s.currentLevel]
        size    == SizeOfType(s, type, ref)
        linked  == Linked(s, b, name, obj, type, ref, nrm, adr,
                          obj # "variable" \/ nrm = 0)
        counted ==
            CASE obj = "variable" /\ nrm = 0 ->
                   [linked EXCEPT !.btab[b].psze = @ + size,
                                  !.btab[b].lpar = Len(s.tab) + 1]
              [] obj = "variable" /\ nrm # 0 -> [linked EXCEPT !.btab[b].vsze = @ + size]
              [] OTHER                       -> linked
    IN  IF \/ Len(s.tab) >= MaxTab
           \/ b \notin 1..Len(s.btab)
           \/ FindSameNameInBlock(s, name, b) # NoIndex
           \/ FindPermanentName(s, name) # NoIndex
        THEN Answered(s, NoIndex)
        ELSE Answered(counted, Len(s.tab) + 1)

\* symEnterField: into the innermost open record, where predefined names are free.
SymEnterField(s, name, type, ref, adr) ==
    LET b == s.recordBlocks[Len(s.recordBlocks)]
    IN  IF \/ Len(s.tab) >= MaxTab
           \/ s.recordBlocks = <<>>
           \/ FindSameNameInBlock(s, name, b) # NoIndex
        THEN Answered(s, NoIndex)
        ELSE Answered([Linked(s, b, name, "variable", type, ref, 0, adr, TRUE)
                         EXCEPT !.btab[b].vsze = @ + SizeOfType(s, type, ref)],
                     Len(s.tab) + 1)

SymSetRange(s, i, range) ==
    IF i \in 1..Len(s.tab) THEN [s EXCEPT !.tab[i].range = range] ELSE s

SymEnterEnum(s, count) ==
    IF Len(s.etab) >= MaxEtab \/ count <= 0 THEN Answered(s, NoIndex)
    ELSE Answered([s EXCEPT !.etab = Append(@, count)], Len(s.etab) + 1)

SymEnumCount(s, ref) == IF ref \in 1..Len(s.etab) THEN s.etab[ref] ELSE 0

\* symEnterArray.  The size is an int product in C; sizes here stay below 2^31.
SymEnterArray(s, index, element, low, high, elsz) ==
    IF Len(s.atab) >= MaxAtab \/ low > high \/ elsz < 0 THEN Answered(s, NoIndex)
    ELSE Answered([s EXCEPT !.atab = Append(@,
                     [xtyp |-> index.type, xref |-> index.ref,
                      etyp |-> element.type, eref |-> element.ref,
                      low |-> low, high |-> high, elsz |-> elsz,
                      size |-> (high - low + 1) * elsz, range |-> element.range])],
                 Len(s.atab) + 1)

-----------------------------------------------------------------------------
(***************************************************************************)
(* The layout of frames, recomputed from the chains whenever it is asked.  *)
(***************************************************************************)

\* symBlockForTabIndex: the first block whose chain has the entry.
SymBlockForTabIndex(s, i) ==
    LET blocks == {b \in 1..Len(s.btab) : i \in Block(s, b)}
    IN  IF blocks = {} THEN NoIndex ELSE Min(blocks)

VariablesOf(s, b) ==
    IF b \notin 1..Len(s.btab) THEN {}
    ELSE {i \in Block(s, b) : /\ s.tab[i].obj = "variable"
                              /\ \A earlier \in 1..b - 1 : i \notin Block(s, earlier)}

Slots(s, i) ==
    LET size == SizeOfType(s, s.tab[i].type, s.tab[i].ref)
    IN  IF size > 0 THEN size ELSE 1

TotalSlots(s, variables) == MapThenSumSet(LAMBDA i : Slots(s, i), variables)

\* Mutant of SymFrameOffsetForTabIndex: the address given when declaring.
SymFrameOffsetByAddress(s, i) ==
    IF SymBlockForTabIndex(s, i) = NoIndex \/ s.tab[i].obj # "variable" THEN -1
    ELSE s.tab[i].adr

SymFrameOffsetForTabIndex(s, i) ==
    LET b == SymBlockForTabIndex(s, i)
    IN  IF b = NoIndex \/ s.tab[i].obj # "variable" THEN -1
        ELSE TotalSlots(s, {j \in VariablesOf(s, b) : j < i})

SymFrameSlotCountForBlock(s, b) == TotalSlots(s, VariablesOf(s, b))
=============================================================================
