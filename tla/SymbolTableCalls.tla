--------------------------- MODULE SymbolTableCalls ---------------------------
(***************************************************************************)
(* The symbol table under any caller: the functions of symbol_table.c that *)
(* change its globals, called in any order with any arguments.  The        *)
(* decorator is one such caller; what holds here holds however it is       *)
(* changed.                                                                *)
(***************************************************************************)
EXTENDS SymbolTable

CONSTANTS Objects,            \* the object classes names are entered as
          TypeInfos,          \* the types they are entered with
          Numbers             \* the addresses, parameter marks, bounds and sizes

ASSUME CallsAssumption ==
    /\ Objects \subseteq ObjClass
    /\ TypeInfos \subseteq [type : BaseType, ref : Nat, range : Subrange]
    /\ Numbers \subseteq Int

VARIABLE table

CallInit == table = InitialTable

EnterScope == table' = SymEnterScope(table)
ExitScope == table' = SymExitScope(table)
EnterRecordBlock == table' = SymEnterRecordBlock(table).table
ExitRecordBlock == table' = SymExitRecordBlock(table)

Enter(name) ==
    \E obj \in Objects, info \in TypeInfos, nrm, adr \in Numbers :
        table' = SymEnter(table, name, obj, info.type, info.ref, nrm, adr).table

EnterField(name) ==
    \E info \in TypeInfos, adr \in Numbers :
        table' = SymEnterField(table, name, info.type, info.ref, adr).table

SetRange ==
    \E i \in 1..Len(table.tab), info \in TypeInfos :
        table' = SymSetRange(table, i, info.range)

EnterEnum == \E count \in Numbers : table' = SymEnterEnum(table, count).table

EnterArray ==
    \E index, element \in TypeInfos, low, high, elsz \in Numbers :
        table' = SymEnterArray(table, index, element, low, high, elsz).table

CallNext ==
    \/ EnterScope \/ ExitScope
    \/ EnterRecordBlock \/ ExitRecordBlock
    \/ \E name \in Identifier : Enter(name) \/ EnterField(name)
    \/ SetRange \/ EnterEnum \/ EnterArray

CallSpec == CallInit /\ [][CallNext]_table

-----------------------------------------------------------------------------
\* Whatever is called, no table outgrows its limit, links lead to earlier entries,
\* so that every walk along a chain ends, and the display and the open records name
\* blocks that are there.
TablesIntact == Tables(table)

\* Whatever is called, an entry is on the chain of one block only, and a block has
\* no two entries of one name: symEnter and symEnterField look before they link, and
\* a level or a record block is never that of another.
EntriesInOneBlock ==
    /\ \A i \in 1..Len(table.tab) \ DOMAIN Predefined :
          Cardinality({b \in 1..Len(table.btab) : i \in Block(table, b)}) = 1
    /\ \A b \in 1..Len(table.btab) : \A i, j \in Block(table, b) :
          table.tab[i].identifier = table.tab[j].identifier => i = j
=============================================================================
