---------------------------- MODULE ScopeDiscipline ----------------------------
(***************************************************************************)
(* The properties of the semantic phase's tables: chains and blocks, the   *)
(* nesting of scopes, the storage of variables, fields and parameters, and *)
(* the scopes of Scopes as their abstraction.                              *)
(***************************************************************************)
EXTENDS Decorator

Code == INSTANCE IntermediateCode WITH IntMax <- 1

Entries == 1..Len(sym.tab)
Blocks  == 1..Len(sym.btab)

Subprograms == {i \in Entries : IsSubprogram(sym, i) /\ i > Len(Predefined)}

\* While a block can still be made no scope has been refused for want of one.
RoomForScopes == Len(sym.btab) < MaxBtab

\* The tables hold well-formed entries within their limits, and the level is a
\* level of the display (symbol_table.h).
TypeOK ==
    /\ Tables(sym)
    /\ open \in Seq(Context)
    /\ status \in {"start", "running", "done", "failed"}

\* The current level counts the open scopes and the display names their blocks,
\* inner ones made later, as long as symEnterScope had room for each.
LevelIsNesting ==
    RoomForScopes =>
        /\ status = "running" => sym.currentLevel = OpenScopes
        /\ \A k \in 2..Len(open) :
              sym.display[k - 1] = sym.tab[open[k].entry].ref
        /\ \A level \in 1..sym.currentLevel :
              sym.display[level - 1] < sym.display[level]

\* However the visit ends, an error deep in a record or a heading included, every
\* scope and every record block has been left.
ScopesAreClosed ==
    status \in {"done", "failed"} => sym.currentLevel = 0 /\ sym.recordBlocks = <<>>

Extent(i) == sym.tab[i].adr .. sym.tab[i].adr + SizeOfType(sym, sym.tab[i].type, sym.tab[i].ref) - 1

\* Global variables have memory cells of their own within the data INT allocates,
\* and so have the fields of one record within the record (visitVarDecl,
\* resolveTypeInfo, globalDataSize): the addresses given while declaring, from the
\* sizes known then, agree with the sizes the types have in the end.
StorageIsDisjoint ==
    RoomForScopes =>
        /\ \A b \in Blocks : \A i, j \in Block(sym, b) :
              /\ {sym.tab[i].obj, sym.tab[j].obj} = {"variable"}
              /\ sym.tab[i].nrm = sym.tab[j].nrm
              /\ i # j
              => Extent(i) \cap Extent(j) = {}
        /\ \A i \in VariablesOf(sym, 1) : Extent(i) \subseteq 0..GlobalDataSize(sym) - 1

InfoIsLegal(info, isFunction) ==
    LET frame  == 0..info.frameSlotCount - 1
        values == Range(info.parameterOffsets)
        result == info.returnOffset .. info.returnOffset + info.returnSlotCount - 1
    IN  /\ info \in Code!CallInfo /\ Code!HasOffsets(info)
        /\ values \subseteq frame
        /\ isFunction =>
              /\ info.returnOffset >= 0
              /\ result \subseteq frame /\ result \cap values = {}

\* The metadata of every subprogram is what CAL and RET take on trust: parameters
\* and result have slots of their own inside the frame, for any mixture of
\* structured and simple types (addRuntimeCallInfo, symFrameOffsetForTabIndex).
FramesAreLegal ==
    status # "failed" =>
        \A p \in Subprograms : InfoIsLegal(CallInfoOf(sym, p), sym.tab[p].obj = "function")

\* The formal parameters found by walking back from the last one are the declared
\* parameters in their order, unless the heading also entered the names of an
\* enumeration, which the walk takes for parameters.
FormalsAreParameters ==
    \A p \in Subprograms :
        ( /\ RoomForScopes
          /\ ~\E i \in Block(sym, sym.tab[p].ref) :
                /\ sym.tab[i].obj = "constant"
                /\ i < sym.btab[sym.tab[p].ref].lpar )
        => FormalsOf(sym, p) = ParametersOf(sym, p)

\* The formal parameters a call's arguments are compared with are those of the
\* heading, whatever types it writes out (README, rules 10 and 21; visitCall).
FormalsAreDeclared ==
    RoomForScopes =>
        \A p \in Subprograms : FormalsOf(sym, p) = ParametersOf(sym, p)

\* A declaration, once made, is never changed by what is declared after it, by
\* leaving its scope or by an error: only a variable becomes initialised, and a
\* subprogram learns its block and its parameters from its own heading.
DeclarationsAreStable ==
    [][/\ Len(sym'.tab) >= Len(sym.tab)
       /\ \A i \in Entries :
             /\ [sym'.tab[i] EXCEPT !.initialized = sym.tab[i].initialized] = sym.tab[i]
             /\ sym.tab[i].initialized => sym'.tab[i].initialized
       /\ \A b \in Blocks :
             /\ \A i \in Block(sym, b) : i \in Block(sym', b)
             /\ b \notin {sym.display[level] : level \in 0..sym.currentLevel}
                => sym'.btab[b] = sym.btab[b]]_vars

-----------------------------------------------------------------------------
(***************************************************************************)
(* The tables as a stack of scopes.                                        *)
(***************************************************************************)
Bindings(s, entries) ==
    [name \in {s.tab[i].identifier : i \in entries} |-> Latest(Named(s, entries, name))]

ScopeStack ==
    <<Bindings(sym, DOMAIN Predefined)>> \o
        [k \in 1..sym.currentLevel + 1 |-> Bindings(sym, Block(sym, sym.display[k - 1]))]

Abstract ==
    INSTANCE Scopes WITH
        Predeclared <- Bindings(InitialTable, DOMAIN Predefined),
        scopes      <- ScopeStack,
        answer      <- IF answer.made THEN <<answer.name, answer.index>> ELSE <<>>

\* Every use of a name is resolved to the declaration the stack of scopes gives it:
\* the innermost one in sight, never one of a scope that was left, and never a
\* field of a record.
ImplementsScopes == Abstract!Spec

\* A call names a subprogram in sight where the call stands.
CallsAreInScope ==
    callee.index # NoIndex =>
        \E k \in DOMAIN ScopeStack :
            /\ callee.name \in DOMAIN ScopeStack[k]
            /\ ScopeStack[k][callee.name] = callee.index
=============================================================================
