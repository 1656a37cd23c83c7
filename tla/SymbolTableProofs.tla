--------------------------- MODULE SymbolTableProofs ---------------------------
(***************************************************************************)
(* The tables stay within their limits, with links that descend, whatever  *)
(* functions of the symbol table are called in whatever order; and each    *)
(* entry stays on the chain of one block.                                  *)
(***************************************************************************)
EXTENDS SymbolTableCalls, FiniteSetTheorems, WellFoundedInduction, TLAPS

-----------------------------------------------------------------------------
(***************************************************************************)
(* Sizes and entries.                                                      *)
(***************************************************************************)

\* A type has an integer for its size, whatever it refers to (sizeOfType).
LEMMA SizeIsInteger ==
    ASSUME NEW s, Tables(s), NEW type \in BaseType, NEW ref \in Nat
    PROVE  SizeOfType(s, type, ref) \in Int
<1>1. s.atab \in Seq(AtabEntry) /\ s.btab \in Seq(BtabEntry)
  BY DEF Tables, Table
<1>2. CASE type = "array" /\ ref \in 1..Len(s.atab)
  <2>1. s.atab[ref] \in AtabEntry
    BY <1>1, <1>2
  <2>2. s.atab[ref].size \in Int
    BY <2>1 DEF AtabEntry
  <2> QED
    BY <1>2, <2>2 DEF SizeOfType
<1>3. CASE type = "record" /\ ref \in 1..Len(s.btab)
  <2>1. s.btab[ref] \in BtabEntry
    BY <1>1, <1>3
  <2>2. s.btab[ref].vsze \in Int
    BY <2>1 DEF BtabEntry
  <2> QED
    BY <1>3, <2>2 DEF SizeOfType
<1>4. CASE /\ ~(type = "array" /\ ref \in 1..Len(s.atab))
           /\ ~(type = "record" /\ ref \in 1..Len(s.btab))
  <2>1. SizeOfBaseType(type) \in Int
    BY DEF SizeOfBaseType
  <2> QED
    BY <1>4, <2>1 DEF SizeOfType
<1> QED
  BY <1>2, <1>3, <1>4

\* Linking an entry into a block of the table keeps the tables: its link is the
\* block's last entry, and so earlier (the part symEnter and symEnterField share).
LEMMA LinkedKeepsTables ==
    ASSUME NEW s, Tables(s), Len(s.tab) < MaxTab,
           NEW b \in 1..Len(s.btab),
           NEW name \in Identifier, NEW obj \in ObjClass, NEW type \in BaseType,
           NEW ref \in Nat, NEW nrm \in Int, NEW adr \in Int, NEW initialized \in BOOLEAN
    PROVE  LET t == Linked(s, b, name, obj, type, ref, nrm, adr, initialized)
           IN  /\ Tables(t)
               /\ Len(t.tab) = Len(s.tab) + 1
               /\ Len(t.btab) = Len(s.btab)
               /\ t.display = s.display
               /\ t.currentLevel = s.currentLevel
<1> DEFINE t == Linked(s, b, name, obj, type, ref, nrm, adr, initialized)
           e == [identifier |-> name, link |-> s.btab[b].last, obj |-> obj,
                 type |-> type, ref |-> ref, nrm |-> nrm, lev |-> s.currentLevel,
                 adr |-> adr, range |-> NoRange, initialized |-> initialized]
<1>1. s \in Table /\ MaxTab \in Nat /\ MaxScopes \in Nat
  BY SymbolTableAssumption DEF Tables, Table
<1>2. s.tab \in Seq(TabEntry) /\ s.btab \in Seq(BtabEntry) /\ s.currentLevel \in Nat
  BY <1>1 DEF Table
<1>3. s.btab[b] \in BtabEntry /\ s.btab[b].last \in Nat /\ s.btab[b].last <= Len(s.tab)
  <2>1. s.btab[b] \in BtabEntry
    BY <1>2
  <2>2. s.btab[b].last <= Len(s.tab)
    BY DEF Tables
  <2> QED
    BY <2>1, <2>2 DEF BtabEntry
<1>4. e \in TabEntry /\ e.link = s.btab[b].last
  <2>1. NoRange \in Subrange
    BY DEF NoRange, Subrange, BaseType
  <2> QED
    BY <1>2, <1>3, <2>1 DEF TabEntry
<1>5. t = [s EXCEPT !.tab = Append(s.tab, e),
                    !.btab = [s.btab EXCEPT ![b] = [@ EXCEPT !.last = Len(s.tab) + 1]]]
  BY <1>1, <1>2 DEF Linked, Table
<1>6. /\ t.tab = Append(s.tab, e)
      /\ t.btab = [s.btab EXCEPT ![b] = [@ EXCEPT !.last = Len(s.tab) + 1]]
      /\ t.atab = s.atab /\ t.etab = s.etab /\ t.display = s.display
      /\ t.currentLevel = s.currentLevel /\ t.recordBlocks = s.recordBlocks
  BY <1>1, <1>5 DEF Table
<1> HIDE DEF t, e
<1>7. /\ t.tab \in Seq(TabEntry) /\ Len(t.tab) = Len(s.tab) + 1
      /\ \A i \in 1..Len(s.tab) : t.tab[i] = s.tab[i]
      /\ t.tab[Len(s.tab) + 1] = e
  BY <1>2, <1>4, <1>6
<1>8. /\ t.btab \in Seq(BtabEntry) /\ Len(t.btab) = Len(s.btab)
      /\ \A c \in 1..Len(s.btab) : \/ t.btab[c].last = s.btab[c].last
                                \/ t.btab[c].last = Len(s.tab) + 1
  <2>1. [s.btab[b] EXCEPT !.last = Len(s.tab) + 1] \in BtabEntry
    <3>1. Len(s.tab) + 1 \in Nat
      BY <1>2
    <3> QED
      BY <1>3, <3>1 DEF BtabEntry
  <2>2. t.btab \in Seq(BtabEntry) /\ Len(t.btab) = Len(s.btab)
    BY <1>2, <1>6, <2>1
  <2>3. [s.btab[b] EXCEPT !.last = Len(s.tab) + 1].last = Len(s.tab) + 1
    BY <1>3 DEF BtabEntry
  <2> QED
    BY <1>2, <1>6, <2>2, <2>3
<1>9. ASSUME NEW i \in 1..Len(t.tab)
      PROVE  t.tab[i].link < i
  <2>1. CASE i \in 1..Len(s.tab)
    BY <1>7, <2>1 DEF Tables
  <2>2. CASE i = Len(s.tab) + 1
    <3>1. t.tab[i].link = s.btab[b].last
      BY <1>4, <1>7, <2>2
    <3> QED
      BY <1>2, <1>3, <2>2, <3>1
  <2> QED
    BY <1>2, <1>7, <2>1, <2>2
<1>10. ASSUME NEW c \in 1..Len(t.btab)
       PROVE  t.btab[c].last <= Len(t.tab)
  <2>1. c \in 1..Len(s.btab)
    BY <1>8
  <2>2. s.btab[c] \in BtabEntry
    BY <1>2, <2>1
  <2>3. s.btab[c].last \in Nat
    BY <2>2 DEF BtabEntry
  <2>4. s.btab[c].last <= Len(s.tab)
    BY <2>1 DEF Tables
  <2>5. t.btab[c].last = s.btab[c].last \/ t.btab[c].last = Len(s.tab) + 1
    BY <1>8, <2>1
  <2>6. Len(s.tab) \in Nat /\ Len(t.tab) = Len(s.tab) + 1
    BY <1>2, <1>7
  <2> QED
    BY <2>3, <2>4, <2>5, <2>6
<1>11. t \in Table
  BY <1>1, <1>5, <1>7, <1>8, <1>6 DEF Table
<1>12. /\ Len(t.tab) <= MaxTab /\ Len(t.btab) \in 1..MaxBtab
       /\ Len(t.atab) <= MaxAtab /\ Len(t.etab) <= MaxEtab
  BY <1>1, <1>2, <1>6, <1>7, <1>8 DEF Tables
<1>13. /\ \A level \in 0..MaxScopes - 1 : t.display[level] <= Len(t.btab)
       /\ \A k \in 1..Len(t.recordBlocks) : t.recordBlocks[k] \in 1..Len(t.btab)
  BY <1>6, <1>8 DEF Tables
<1>14. Tables(t)
  BY <1>9, <1>10, <1>11, <1>12, <1>13 DEF Tables, Table
<1> QED
  BY <1>6, <1>7, <1>8, <1>14 DEF t

\* Counting in a block, psze, vsze or lpar, disturbs nothing else.
LEMMA CountedKeepsTables ==
    ASSUME NEW s, Tables(s), NEW b \in 1..Len(s.btab), NEW u,
           NEW lpar \in Nat, NEW psze \in Int, NEW vsze \in Int,
           u = [s EXCEPT !.btab = [s.btab EXCEPT ![b] =
                   [last |-> s.btab[b].last, lpar |-> lpar, psze |-> psze, vsze |-> vsze]]]
    PROVE  Tables(u)
<1> DEFINE e == [last |-> s.btab[b].last, lpar |-> lpar, psze |-> psze, vsze |-> vsze]
<1>1. s \in Table
  BY DEF Tables, Table
<1>2. s.btab \in Seq(BtabEntry) /\ s.btab[b].last \in Nat
  <2>1. s.btab \in Seq(BtabEntry)
    BY <1>1 DEF Table
  <2>2. s.btab[b] \in BtabEntry
    BY <2>1
  <2> QED
    BY <2>1, <2>2 DEF BtabEntry
<1>3. e \in BtabEntry
  BY <1>2 DEF BtabEntry
<1>4. /\ u.tab = s.tab /\ u.atab = s.atab /\ u.etab = s.etab /\ u.display = s.display
      /\ u.currentLevel = s.currentLevel /\ u.recordBlocks = s.recordBlocks
      /\ u.btab = [s.btab EXCEPT ![b] = e]
  BY <1>1 DEF Table
<1>5. /\ u.btab \in Seq(BtabEntry) /\ Len(u.btab) = Len(s.btab)
      /\ \A c \in 1..Len(s.btab) : u.btab[c].last = s.btab[c].last
  BY <1>2, <1>3, <1>4
<1>6. u \in Table
  BY <1>1, <1>5, <1>4 DEF Table
<1> QED
  BY <1>4, <1>5, <1>6 DEF Tables, Table

-----------------------------------------------------------------------------
(***************************************************************************)
(* The calls, one by one.                                                  *)
(***************************************************************************)

\* symInit leaves the predefined entries, all of them ends of their chains.
LEMMA InitialTableIsATable == Tables(InitialTable)
<1> DEFINE t == InitialTable
<1>1. /\ Predefined \in Seq(TabEntry) /\ Len(Predefined) <= MaxTab
      /\ \A i \in 1..Len(Predefined) : Predefined[i].link = NoIndex
      /\ MaxTab \in Nat \ {0} /\ MaxBtab \in Nat \ {0} /\ MaxAtab \in Nat \ {0}
      /\ MaxEtab \in Nat \ {0} /\ MaxScopes \in Nat \ {0}
  BY SymbolTableAssumption
<1>2. EmptyBlock \in BtabEntry /\ EmptyBlock.last = 0
  BY DEF EmptyBlock, BtabEntry, NoIndex
<1>3. /\ t.tab = Predefined /\ t.btab = <<EmptyBlock>> /\ t.atab = <<>> /\ t.etab = <<>>
      /\ t.display = [level \in 0..MaxScopes - 1 |-> IF level = 0 THEN 1 ELSE NoIndex]
      /\ t.currentLevel = 0 /\ t.recordBlocks = <<>>
  BY DEF InitialTable
<1>4. t \in Table
  <2>1. t.display \in [0..MaxScopes - 1 -> Nat] /\ t.currentLevel \in 0..MaxScopes - 1
    BY <1>1, <1>3 DEF NoIndex
  <2>2. t.btab \in Seq(BtabEntry)
    BY <1>2, <1>3
  <2>3. <<>> \in Seq(AtabEntry) /\ <<>> \in Seq(Nat)
    OBVIOUS
  <2> QED
    BY <1>1, <1>3, <2>1, <2>2, <2>3 DEF Table, InitialTable
<1>5. \A i \in 1..Len(t.tab) : t.tab[i].link < i
  BY <1>1, <1>3 DEF NoIndex
<1>6. \A b \in 1..Len(t.btab) : t.btab[b].last <= Len(t.tab)
  BY <1>1, <1>2, <1>3
<1>7. \A level \in 0..MaxScopes - 1 : t.display[level] <= Len(t.btab)
  BY <1>1, <1>3 DEF NoIndex
<1>8. \A k \in 1..Len(t.recordBlocks) : t.recordBlocks[k] \in 1..Len(t.btab)
  BY <1>3
<1>9. /\ Len(t.tab) <= MaxTab /\ Len(t.btab) \in 1..MaxBtab
      /\ Len(t.atab) <= MaxAtab /\ Len(t.etab) <= MaxEtab
  BY <1>1, <1>3
<1> HIDE DEF t
<1>10. Tables(t)
  BY <1>4, <1>5, <1>6, <1>7, <1>8, <1>9 DEF Tables, Table
<1> QED
  BY <1>10 DEF t

\* A new block for a scope or a record is the last block; display and record blocks
\* may then name it (the part symEnterScope and symEnterRecordBlock share).
LEMMA NewBlockKeepsTables ==
    ASSUME NEW s, Tables(s), Len(s.btab) < MaxBtab, NEW u \in Table,
           u.tab = s.tab, u.btab = Append(s.btab, EmptyBlock),
           u.atab = s.atab, u.etab = s.etab,
           \A level \in 0..MaxScopes - 1 : u.display[level] <= Len(s.btab) + 1,
           \A k \in 1..Len(u.recordBlocks) : u.recordBlocks[k] \in 1..Len(s.btab) + 1
    PROVE  Tables(u)
<1>1. s \in Table /\ s.btab \in Seq(BtabEntry) /\ s.tab \in Seq(TabEntry) /\ MaxBtab \in Nat
  BY SymbolTableAssumption DEF Tables, Table
<1>2. EmptyBlock.last = 0
  BY DEF EmptyBlock, NoIndex
<1>3. /\ Len(u.btab) = Len(s.btab) + 1
      /\ \A b \in 1..Len(s.btab) : u.btab[b] = s.btab[b]
      /\ u.btab[Len(s.btab) + 1] = EmptyBlock
  BY <1>1
<1>4. ASSUME NEW b \in 1..Len(u.btab)
      PROVE  u.btab[b].last <= Len(u.tab)
  <2>1. CASE b \in 1..Len(s.btab)
    BY <1>3, <2>1 DEF Tables
  <2>2. CASE b = Len(s.btab) + 1
    BY <1>1, <1>2, <1>3, <2>2
  <2> QED
    BY <1>1, <1>3, <2>1, <2>2
<1>5. /\ Len(u.tab) <= MaxTab /\ Len(u.btab) \in 1..MaxBtab
      /\ Len(u.atab) <= MaxAtab /\ Len(u.etab) <= MaxEtab
      /\ \A i \in 1..Len(u.tab) : u.tab[i].link < i
  BY <1>1, <1>3 DEF Tables
<1>6. /\ \A level \in 0..MaxScopes - 1 : u.display[level] <= Len(u.btab)
      /\ \A k \in 1..Len(u.recordBlocks) : u.recordBlocks[k] \in 1..Len(u.btab)
  BY <1>3
<1> QED
  BY <1>4, <1>5, <1>6 DEF Tables, Table

\* The block a new scope or record gets is an entry of the block table.
LEMMA EmptyBlockIsABlock == EmptyBlock \in BtabEntry
BY DEF EmptyBlock, BtabEntry, NoIndex

\* symEnterScope keeps the tables, whether there is room for the scope or not.
LEMMA SymEnterScopeKeepsTables ==
    ASSUME NEW s, Tables(s)
    PROVE  Tables(SymEnterScope(s))
<1> DEFINE full == s.currentLevel + 1 >= MaxScopes \/ Len(s.btab) >= MaxBtab
           u == [s EXCEPT !.btab = Append(@, EmptyBlock),
                          !.currentLevel = @ + 1,
                          !.display[s.currentLevel + 1] = Len(s.btab) + 1]
<1>1. /\ s \in Table /\ MaxScopes \in Nat /\ MaxBtab \in Nat
      /\ s.btab \in Seq(BtabEntry) /\ s.display \in [0..MaxScopes - 1 -> Nat]
      /\ s.currentLevel \in 0..MaxScopes - 1 /\ s.recordBlocks \in Seq(Nat)
  BY SymbolTableAssumption DEF Tables, Table
<1>2. CASE full
  BY <1>2 DEF SymEnterScope
<1>3. CASE ~full
  <2>1. SymEnterScope(s) = u
    BY <1>3 DEF SymEnterScope
  <2>2. /\ u.tab = s.tab /\ u.atab = s.atab /\ u.etab = s.etab
        /\ u.btab = Append(s.btab, EmptyBlock)
        /\ u.currentLevel = s.currentLevel + 1
        /\ u.display = [s.display EXCEPT ![s.currentLevel + 1] = Len(s.btab) + 1]
        /\ u.recordBlocks = s.recordBlocks
    BY <1>1 DEF Table
  <2>3. u.btab \in Seq(BtabEntry)
    BY <1>1, <2>2, EmptyBlockIsABlock
  <2>4. u.display \in [0..MaxScopes - 1 -> Nat] /\ u.currentLevel \in 0..MaxScopes - 1
    BY <1>1, <1>3, <2>2, SMTT(30)
  <2>5. u \in Table
    BY <1>1, <2>2, <2>3, <2>4 DEF Table
  <2>6. \A level \in 0..MaxScopes - 1 : u.display[level] <= Len(s.btab) + 1
    BY <1>1, <2>2, SMTT(30) DEF Tables
  <2>7. \A k \in 1..Len(u.recordBlocks) : u.recordBlocks[k] \in 1..Len(s.btab) + 1
    BY <1>1, <2>2, SMTT(30) DEF Tables
  <2>8. Len(s.btab) < MaxBtab
    BY <1>1, <1>3
  <2> HIDE DEF u
  <2> QED
    BY <2>1, <2>2, <2>5, <2>6, <2>7, <2>8, NewBlockKeepsTables
<1> QED
  BY <1>2, <1>3

\* symExitScope keeps the tables: the level never falls below the global one.
LEMMA SymExitScopeKeepsTables ==
    ASSUME NEW s, Tables(s)
    PROVE  Tables(SymExitScope(s))
<1> DEFINE u == SymExitScope(s)
<1>1. s \in Table /\ MaxScopes \in Nat \ {0} /\ s.currentLevel \in 0..MaxScopes - 1
  BY SymbolTableAssumption DEF Tables, Table
<1>2. u.currentLevel \in 0..MaxScopes - 1
  BY <1>1 DEF SymExitScope, Table
<1>3. /\ u.tab = s.tab /\ u.btab = s.btab /\ u.atab = s.atab /\ u.etab = s.etab
      /\ u.display = s.display /\ u.recordBlocks = s.recordBlocks
      /\ u = [s EXCEPT !.currentLevel = u.currentLevel]
  BY <1>1 DEF SymExitScope, Table
<1> HIDE DEF u
<1>4. u \in Table
  BY <1>1, <1>2, <1>3 DEF Table
<1>5. Tables(u)
  BY <1>3, <1>4 DEF Tables, Table
<1> QED
  BY <1>5 DEF u

\* symEnterRecordBlock keeps the tables: the open record is the block just made.
LEMMA SymEnterRecordBlockKeepsTables ==
    ASSUME NEW s, Tables(s)
    PROVE  Tables(SymEnterRecordBlock(s).table)
<1> DEFINE n == Len(s.btab) + 1
           records == IF Len(s.recordBlocks) < MaxBtab
                      THEN Append(s.recordBlocks, n) ELSE s.recordBlocks
           u == [s EXCEPT !.btab = Append(@, EmptyBlock), !.recordBlocks = records]
<1>1. /\ s \in Table /\ MaxBtab \in Nat /\ s.btab \in Seq(BtabEntry)
      /\ s.recordBlocks \in Seq(Nat) /\ s.display \in [0..MaxScopes - 1 -> Nat]
  BY SymbolTableAssumption DEF Tables, Table
<1>2. CASE Len(s.btab) >= MaxBtab
  BY <1>2 DEF SymEnterRecordBlock, Answered
<1>3. CASE Len(s.btab) < MaxBtab
  <2>1. SymEnterRecordBlock(s).table = u
    BY <1>1, <1>3 DEF SymEnterRecordBlock, Answered
  <2>2. /\ u.tab = s.tab /\ u.atab = s.atab /\ u.etab = s.etab
        /\ u.btab = Append(s.btab, EmptyBlock)
        /\ u.currentLevel = s.currentLevel /\ u.display = s.display
        /\ u.recordBlocks = records
    BY <1>1 DEF Table
  <2>3. u.btab \in Seq(BtabEntry)
    BY <1>1, <2>2, EmptyBlockIsABlock
  <2>4. n \in Nat /\ records \in Seq(Nat)
    BY <1>1
  <2>5. u \in Table
    BY <1>1, <2>2, <2>3, <2>4 DEF Table
  <2> HIDE DEF u, records
  <2>6. ASSUME NEW level \in 0..MaxScopes - 1
        PROVE  u.display[level] <= Len(s.btab) + 1
    <3>1. s.display[level] <= Len(s.btab) /\ s.display[level] \in Nat
      BY <1>1 DEF Tables
    <3> QED
      BY <1>1, <2>2, <3>1
  <2>7. ASSUME NEW k \in 1..Len(u.recordBlocks)
        PROVE  u.recordBlocks[k] \in 1..Len(s.btab) + 1
    <3>1. CASE k \in 1..Len(s.recordBlocks)
      <4>1. s.recordBlocks[k] \in 1..Len(s.btab)
        BY <3>1 DEF Tables
      <4>2. u.recordBlocks[k] = s.recordBlocks[k]
        BY <1>1, <2>2, <2>4, <3>1 DEF records
      <4> QED
        BY <1>1, <4>1, <4>2
    <3>2. CASE k = Len(s.recordBlocks) + 1
      <4>1. u.recordBlocks[k] = n
        BY <1>1, <2>2, <2>4, <3>2 DEF records
      <4> QED
        BY <1>1, <4>1
    <3> QED
      BY <1>1, <2>2, <2>4, <3>1, <3>2 DEF records
  <2> QED
    BY <1>3, <2>1, <2>2, <2>5, <2>6, <2>7, NewBlockKeepsTables
<1> QED
  BY <1>1, <1>2, <1>3

\* symExitRecordBlock keeps the tables: the records that stay open are the same.
LEMMA SymExitRecordBlockKeepsTables ==
    ASSUME NEW s, Tables(s)
    PROVE  Tables(SymExitRecordBlock(s))
<1> DEFINE u == SymExitRecordBlock(s)
<1>1. s \in Table /\ s.recordBlocks \in Seq(Nat)
  BY DEF Tables, Table
<1>2. u.recordBlocks \in Seq(Nat)
      /\ \A k \in 1..Len(u.recordBlocks) : u.recordBlocks[k] \in 1..Len(s.btab)
  <2>1. CASE s.recordBlocks = <<>>
    BY <1>1, <2>1 DEF SymExitRecordBlock, Tables, Table
  <2>2. CASE s.recordBlocks # <<>>
    <3>1. u.recordBlocks = SubSeq(s.recordBlocks, 1, Len(s.recordBlocks) - 1)
      BY <1>1, <2>2 DEF SymExitRecordBlock, Table
    <3>2. /\ u.recordBlocks \in Seq(Nat)
          /\ \A k \in 1..Len(u.recordBlocks) :
                k \in 1..Len(s.recordBlocks) /\ u.recordBlocks[k] = s.recordBlocks[k]
      BY <1>1, <2>2, <3>1, SMTT(30)
    <3> QED
      BY <3>2 DEF Tables
  <2> QED
    BY <2>1, <2>2
<1>3. /\ u.tab = s.tab /\ u.btab = s.btab /\ u.atab = s.atab /\ u.etab = s.etab
      /\ u.display = s.display /\ u.currentLevel = s.currentLevel
      /\ u = [s EXCEPT !.recordBlocks = u.recordBlocks]
  BY <1>1 DEF SymExitRecordBlock, Table
<1> HIDE DEF u
<1>4. u \in Table
  BY <1>1, <1>2, <1>3 DEF Table
<1>5. Tables(u)
  BY <1>2, <1>3, <1>4 DEF Tables, Table
<1> QED
  BY <1>5 DEF u

\* The block of a variable or of a field counts its size.
LEMMA VariableCounted ==
    ASSUME NEW s, Tables(s), NEW b \in 1..Len(s.btab), NEW size \in Int
    PROVE  Tables([s EXCEPT !.btab[b].vsze = @ + size])
<1> DEFINE e == s.btab[b]
           u == [s EXCEPT !.btab[b].vsze = @ + size]
<1>1. s \in Table /\ s.btab \in Seq(BtabEntry)
  BY DEF Tables, Table
<1>2. e \in BtabEntry
  BY <1>1
<1>3. e.lpar \in Nat /\ e.psze \in Int /\ e.vsze \in Int
  BY <1>2 DEF BtabEntry
<1>4. [e EXCEPT !.vsze = @ + size] =
        [last |-> e.last, lpar |-> e.lpar, psze |-> e.psze, vsze |-> e.vsze + size]
  BY <1>2 DEF BtabEntry
<1>5. u = [s EXCEPT !.btab = [s.btab EXCEPT ![b] = [e EXCEPT !.vsze = @ + size]]]
  BY <1>1 DEF Table
<1> DEFINE vsze == e.vsze + size
<1>6. vsze \in Int
  BY <1>3
<1>7. u = [s EXCEPT !.btab = [s.btab EXCEPT ![b] =
              [last |-> e.last, lpar |-> e.lpar, psze |-> e.psze, vsze |-> vsze]]]
  BY <1>4, <1>5
<1> HIDE DEF u, vsze
<1>8. Tables(u)
  BY <1>3, <1>6, <1>7, CountedKeepsTables
<1> QED
  BY <1>8 DEF u

\* The block of a parameter counts its size and keeps it as the last parameter.
LEMMA ParameterCounted ==
    ASSUME NEW s, Tables(s), NEW b \in 1..Len(s.btab), NEW size \in Int, NEW i \in Nat
    PROVE  Tables([s EXCEPT !.btab[b].psze = @ + size, !.btab[b].lpar = i])
<1> DEFINE e == s.btab[b]
           u == [s EXCEPT !.btab[b].psze = @ + size, !.btab[b].lpar = i]
<1>1. s \in Table /\ s.btab \in Seq(BtabEntry)
  BY DEF Tables, Table
<1>2. e \in BtabEntry
  BY <1>1
<1>3. e.psze \in Int /\ e.vsze \in Int
  BY <1>2 DEF BtabEntry
<1>4. [[e EXCEPT !.psze = @ + size] EXCEPT !.lpar = i] =
        [last |-> e.last, lpar |-> i, psze |-> e.psze + size, vsze |-> e.vsze]
  <2> DEFINE f == [e EXCEPT !.psze = @ + size]
  <2>1. f = [last |-> e.last, lpar |-> e.lpar, psze |-> e.psze + size, vsze |-> e.vsze]
    BY <1>2 DEF BtabEntry
  <2> HIDE DEF e, f
  <2>2. [f EXCEPT !.lpar = i] =
          [last |-> e.last, lpar |-> i, psze |-> e.psze + size, vsze |-> e.vsze]
    BY <2>1
  <2> QED
    BY <2>2 DEF f
<1>5. u = [s EXCEPT !.btab = [s.btab EXCEPT ![b] =
              [[e EXCEPT !.psze = @ + size] EXCEPT !.lpar = i]]]
  BY <1>1 DEF Table
<1> DEFINE psze == e.psze + size
<1>6. psze \in Int
  BY <1>3
<1>7. u = [s EXCEPT !.btab = [s.btab EXCEPT ![b] =
              [last |-> e.last, lpar |-> i, psze |-> psze, vsze |-> e.vsze]]]
  BY <1>4, <1>5
<1> HIDE DEF u, psze
<1>8. Tables(u)
  BY <1>3, <1>6, <1>7, CountedKeepsTables
<1> QED
  BY <1>8 DEF u

\* symEnter keeps the tables: the entry is linked and its block counts it.
LEMMA SymEnterKeepsTables ==
    ASSUME NEW s, Tables(s), NEW name \in Identifier, NEW obj \in ObjClass,
           NEW type \in BaseType, NEW ref \in Nat, NEW nrm \in Int, NEW adr \in Int
    PROVE  Tables(SymEnter(s, name, obj, type, ref, nrm, adr).table)
<1> DEFINE b == s.display[s.currentLevel]
           size == SizeOfType(s, type, ref)
           known == obj # "variable" \/ nrm = 0
           linked == Linked(s, b, name, obj, type, ref, nrm, adr, known)
           refused == \/ Len(s.tab) >= MaxTab
                      \/ b \notin 1..Len(s.btab)
                      \/ FindSameNameInBlock(s, name, b) # NoIndex
                      \/ FindPermanentName(s, name) # NoIndex
<1>1. CASE refused
  BY <1>1 DEF SymEnter, Answered
<1>2. CASE ~refused
  <2>1. Len(s.tab) \in Nat /\ MaxTab \in Nat
    BY SymbolTableAssumption DEF Tables
  <2>2. b \in 1..Len(s.btab) /\ Len(s.tab) < MaxTab
    BY <1>2, <2>1
  <2>3. size \in Int /\ Len(s.tab) + 1 \in Nat /\ known \in BOOLEAN
    BY <2>1, SizeIsInteger
  <2>4. SymEnter(s, name, obj, type, ref, nrm, adr).table \in
          {linked,
           [linked EXCEPT !.btab[b].psze = @ + size, !.btab[b].lpar = Len(s.tab) + 1],
           [linked EXCEPT !.btab[b].vsze = @ + size]}
    BY <1>2 DEF SymEnter, Answered
  <2> HIDE DEF b, size, known
  <2>5. Tables(linked) /\ b \in 1..Len(linked.btab)
    BY <2>2, <2>3, LinkedKeepsTables
  <2> HIDE DEF linked
  <2>6. /\ Tables([linked EXCEPT !.btab[b].psze = @ + size, !.btab[b].lpar = Len(s.tab) + 1])
        /\ Tables([linked EXCEPT !.btab[b].vsze = @ + size])
    BY <2>3, <2>5, ParameterCounted, VariableCounted
  <2> QED
    BY <2>4, <2>5, <2>6
<1> QED
  BY <1>1, <1>2

\* symEnterField keeps the tables: the innermost open record is a block of the table.
LEMMA SymEnterFieldKeepsTables ==
    ASSUME NEW s, Tables(s), NEW name \in Identifier, NEW type \in BaseType,
           NEW ref \in Nat, NEW adr \in Int
    PROVE  Tables(SymEnterField(s, name, type, ref, adr).table)
<1> DEFINE b == s.recordBlocks[Len(s.recordBlocks)]
           size == SizeOfType(s, type, ref)
           obj == "variable"
           known == TRUE
           linked == Linked(s, b, name, obj, type, ref, 0, adr, known)
           refused == \/ Len(s.tab) >= MaxTab
                      \/ s.recordBlocks = <<>>
                      \/ FindSameNameInBlock(s, name, b) # NoIndex
<1>1. CASE refused
  BY <1>1 DEF SymEnterField, Answered
<1>2. CASE ~refused
  <2>1. Len(s.tab) \in Nat /\ MaxTab \in Nat /\ s.recordBlocks \in Seq(Nat)
    BY SymbolTableAssumption DEF Tables, Table
  <2>2. b \in 1..Len(s.btab) /\ Len(s.tab) < MaxTab
    <3>1. Len(s.recordBlocks) \in 1..Len(s.recordBlocks)
      BY <1>2, <2>1
    <3> QED
      BY <1>2, <2>1, <3>1 DEF Tables
  <2>3. size \in Int /\ obj \in ObjClass /\ known \in BOOLEAN /\ 0 \in Int
    BY SizeIsInteger DEF ObjClass
  <2>4. SymEnterField(s, name, type, ref, adr).table = [linked EXCEPT !.btab[b].vsze = @ + size]
    BY <1>2 DEF SymEnterField, Answered
  <2> HIDE DEF b, size, obj, known
  <2>5. Tables(linked) /\ b \in 1..Len(linked.btab)
    BY <2>2, <2>3, LinkedKeepsTables
  <2> HIDE DEF linked
  <2>6. Tables([linked EXCEPT !.btab[b].vsze = @ + size])
    BY <2>3, <2>5, VariableCounted
  <2> QED
    BY <2>4, <2>6
<1> QED
  BY <1>1, <1>2

\* symSetRange keeps the tables: it changes no link.
LEMMA SymSetRangeKeepsTables ==
    ASSUME NEW s, Tables(s), NEW i \in Nat, NEW range \in Subrange
    PROVE  Tables(SymSetRange(s, i, range))
<1>1. s \in Table /\ s.tab \in Seq(TabEntry)
  BY DEF Tables, Table
<1>2. CASE i \notin 1..Len(s.tab)
  BY <1>2 DEF SymSetRange
<1>3. CASE i \in 1..Len(s.tab)
  <2> DEFINE e == [s.tab[i] EXCEPT !.range = range]
             u == SymSetRange(s, i, range)
  <2>1. s.tab[i] \in TabEntry
    BY <1>1, <1>3
  <2>2. e \in TabEntry /\ e.link = s.tab[i].link
    BY <2>1 DEF TabEntry
  <2>3. u = [s EXCEPT !.tab = [s.tab EXCEPT ![i] = e]]
    BY <1>1, <1>3 DEF SymSetRange, Table
  <2>4. /\ u.btab = s.btab /\ u.atab = s.atab /\ u.etab = s.etab
        /\ u.display = s.display /\ u.currentLevel = s.currentLevel
        /\ u.recordBlocks = s.recordBlocks /\ u.tab = [s.tab EXCEPT ![i] = e]
    BY <1>1, <2>3 DEF Table
  <2> HIDE DEF u, e
  <2>5. /\ u.tab \in Seq(TabEntry) /\ Len(u.tab) = Len(s.tab)
        /\ \A j \in 1..Len(s.tab) : u.tab[j].link = s.tab[j].link
    BY <1>1, <1>3, <2>2, <2>4
  <2>6. u \in Table
    BY <1>1, <2>3, <2>4, <2>5 DEF Table
  <2>7. Tables(u)
    BY <2>4, <2>5, <2>6 DEF Tables, Table
  <2> QED
    BY <2>7 DEF u
<1> QED
  BY <1>2, <1>3

\* symEnterEnum keeps the tables.
LEMMA SymEnterEnumKeepsTables ==
    ASSUME NEW s, Tables(s), NEW count \in Int
    PROVE  Tables(SymEnterEnum(s, count).table)
<1> DEFINE u == [s EXCEPT !.etab = Append(@, count)]
<1>1. s \in Table /\ s.etab \in Seq(Nat) /\ MaxEtab \in Nat
  BY SymbolTableAssumption DEF Tables, Table
<1>2. CASE Len(s.etab) >= MaxEtab \/ count <= 0
  BY <1>2 DEF SymEnterEnum, Answered
<1>3. CASE ~(Len(s.etab) >= MaxEtab \/ count <= 0)
  <2>1. SymEnterEnum(s, count).table = u
    BY <1>3 DEF SymEnterEnum, Answered
  <2>2. /\ u.tab = s.tab /\ u.btab = s.btab /\ u.atab = s.atab
        /\ u.display = s.display /\ u.currentLevel = s.currentLevel
        /\ u.recordBlocks = s.recordBlocks /\ u.etab = Append(s.etab, count)
    BY <1>1 DEF Table
  <2>3. u.etab \in Seq(Nat) /\ Len(u.etab) <= MaxEtab
    <3>1. count \in Nat
      BY <1>3
    <3> QED
      BY <1>1, <1>3, <2>2, <3>1
  <2>4. u \in Table
    BY <1>1, <2>2, <2>3 DEF Table
  <2> HIDE DEF u
  <2>5. Tables(u)
    BY <2>2, <2>3, <2>4 DEF Tables, Table
  <2> QED
    BY <2>1, <2>5
<1> QED
  BY <1>2, <1>3

\* symEnterArray keeps the tables.
LEMMA SymEnterArrayKeepsTables ==
    ASSUME NEW s, Tables(s),
           NEW index \in [type : BaseType, ref : Nat, range : Subrange],
           NEW element \in [type : BaseType, ref : Nat, range : Subrange],
           NEW low \in Int, NEW high \in Int, NEW elsz \in Int
    PROVE  Tables(SymEnterArray(s, index, element, low, high, elsz).table)
<1> DEFINE size == (high - low + 1) * elsz
           e == [xtyp |-> index.type, xref |-> index.ref,
                 etyp |-> element.type, eref |-> element.ref,
                 low |-> low, high |-> high, elsz |-> elsz,
                 size |-> size, range |-> element.range]
           u == [s EXCEPT !.atab = Append(@, e)]
<1>1. s \in Table /\ s.atab \in Seq(AtabEntry) /\ MaxAtab \in Nat
  BY SymbolTableAssumption DEF Tables, Table
<1>2. CASE Len(s.atab) >= MaxAtab \/ low > high \/ elsz < 0
  BY <1>2 DEF SymEnterArray, Answered
<1>3. CASE ~(Len(s.atab) >= MaxAtab \/ low > high \/ elsz < 0)
  <2>1. SymEnterArray(s, index, element, low, high, elsz).table = u
    BY <1>3 DEF SymEnterArray, Answered
  <2>2. size \in Int /\ elsz \in Nat
    BY <1>3
  <2> HIDE DEF size
  <2>3. e \in AtabEntry
    BY <2>2 DEF AtabEntry
  <2> HIDE DEF e
  <2>4. /\ u.tab = s.tab /\ u.btab = s.btab /\ u.etab = s.etab
        /\ u.display = s.display /\ u.currentLevel = s.currentLevel
        /\ u.recordBlocks = s.recordBlocks /\ u.atab = Append(s.atab, e)
    BY <1>1 DEF Table
  <2>5. u.atab \in Seq(AtabEntry) /\ Len(u.atab) <= MaxAtab
    BY <1>1, <1>3, <2>3, <2>4
  <2>6. u \in Table
    BY <1>1, <2>4, <2>5 DEF Table
  <2> HIDE DEF u
  <2>7. Tables(u)
    BY <2>4, <2>5, <2>6 DEF Tables, Table
  <2> QED
    BY <2>1, <2>7
<1> QED
  BY <1>2, <1>3

-----------------------------------------------------------------------------
\* Under any caller the tables stay intact: no table outgrows its limit, links lead to
\* earlier entries, and the display and the open records name blocks that exist.
THEOREM TablesStayIntact == CallSpec => []TablesIntact
<1>1. CallInit => TablesIntact
  BY InitialTableIsATable DEF CallInit, TablesIntact
<1>2. TablesIntact /\ [CallNext]_table => TablesIntact'
  <2> SUFFICES ASSUME TablesIntact, [CallNext]_table
               PROVE  TablesIntact'
    OBVIOUS
  <2> USE DEF TablesIntact
  <2>1. CASE EnterScope
    BY <2>1, SymEnterScopeKeepsTables DEF EnterScope
  <2>2. CASE ExitScope
    BY <2>2, SymExitScopeKeepsTables DEF ExitScope
  <2>3. CASE EnterRecordBlock
    BY <2>3, SymEnterRecordBlockKeepsTables DEF EnterRecordBlock
  <2>4. CASE ExitRecordBlock
    BY <2>4, SymExitRecordBlockKeepsTables DEF ExitRecordBlock
  <2>5. ASSUME NEW name \in Identifier, Enter(name)
        PROVE  TablesIntact'
    <3>1. PICK obj \in Objects, info \in TypeInfos, nrm \in Numbers, adr \in Numbers :
            table' = SymEnter(table, name, obj, info.type, info.ref, nrm, adr).table
      BY <2>5 DEF Enter
    <3>2. /\ obj \in ObjClass /\ info.type \in BaseType /\ info.ref \in Nat
          /\ nrm \in Int /\ adr \in Int
      BY CallsAssumption
    <3> QED
      BY <3>1, <3>2, SymEnterKeepsTables
  <2>6. ASSUME NEW name \in Identifier, EnterField(name)
        PROVE  TablesIntact'
    <3>1. PICK info \in TypeInfos, adr \in Numbers :
            table' = SymEnterField(table, name, info.type, info.ref, adr).table
      BY <2>6 DEF EnterField
    <3>2. info.type \in BaseType /\ info.ref \in Nat /\ adr \in Int
      BY CallsAssumption
    <3> QED
      BY <3>1, <3>2, SymEnterFieldKeepsTables
  <2>7. CASE SetRange
    <3>1. PICK i \in 1..Len(table.tab), info \in TypeInfos :
            table' = SymSetRange(table, i, info.range)
      BY <2>7 DEF SetRange
    <3>2. i \in Nat /\ info.range \in Subrange
      BY CallsAssumption DEF Tables
    <3> QED
      BY <3>1, <3>2, SymSetRangeKeepsTables
  <2>8. CASE EnterEnum
    BY <2>8, CallsAssumption, SymEnterEnumKeepsTables DEF EnterEnum
  <2>9. CASE EnterArray
    <3>1. PICK index \in TypeInfos, element \in TypeInfos,
               low \in Numbers, high \in Numbers, elsz \in Numbers :
            table' = SymEnterArray(table, index, element, low, high, elsz).table
      BY <2>9 DEF EnterArray
    <3>2. /\ index \in [type : BaseType, ref : Nat, range : Subrange]
          /\ element \in [type : BaseType, ref : Nat, range : Subrange]
          /\ low \in Int /\ high \in Int /\ elsz \in Int
      BY CallsAssumption
    <3> QED
      BY <3>1, <3>2, SymEnterArrayKeepsTables
  <2>10. CASE UNCHANGED table
    BY <2>10
  <2> QED
    BY <2>1, <2>2, <2>3, <2>4, <2>5, <2>6, <2>7, <2>8, <2>9, <2>10 DEF CallNext
<1> QED
  BY <1>1, <1>2, PTL DEF CallSpec

-----------------------------------------------------------------------------
(***************************************************************************)
(* Chains.  Links lead to earlier entries, so that the sets a chain is     *)
(* made of exist for every entry, and a chain is the same in every table   *)
(* with the same links up to its first entry.                              *)
(***************************************************************************)

\* Every nonempty set of indexes has a least one.
LEMMA FirstIndex ==
    ASSUME NEW T, T \subseteq Nat, T # {}
    PROVE  \E m \in T : \A n \in T : m <= n
<1>1. IsWellFoundedOn({ss \in Nat \X Nat : ss[1] < ss[2]}, Nat)
  BY NatLessThanWellFounded DEF OpToRel
<1>2. PICK m \in T : \A n \in T : ~(<<n, m>> \in {ss \in Nat \X Nat : ss[1] < ss[2]})
  BY <1>1, WFMin
<1>3. \A n \in T : ~(n < m)
  BY <1>2
<1> QED
  BY <1>3

\* The chains from the entries up to the n-th, as one function.
IsChains(s, n, f) ==
    f = [i \in 0..n |-> IF i = NoIndex THEN {} ELSE {i} \cup f[s.tab[i].link]]

\* The link of an entry is an earlier entry or none.
LEMMA LinkIsEarlier ==
    ASSUME NEW s, Tables(s), NEW i \in 1..Len(s.tab)
    PROVE  s.tab[i].link \in 0..(i - 1)
<1>1. s.tab \in Seq(TabEntry)
  BY DEF Tables, Table
<1>2. s.tab[i] \in TabEntry
  BY <1>1
<1>3. s.tab[i].link \in Nat
  BY <1>2 DEF TabEntry
<1>4. s.tab[i].link < i
  BY DEF Tables
<1> QED
  BY <1>3, <1>4

LEMMA LengthIsNat ==
    ASSUME NEW s, Tables(s) PROVE Len(s.tab) \in Nat /\ Len(s.btab) \in Nat
BY DEF Tables, Table

LEMMA ChainsExist ==
    ASSUME NEW s, Tables(s)
    PROVE  \E f : IsChains(s, Len(s.tab), f)
<1> DEFINE Missing == {n \in 0..Len(s.tab) : ~ \E f : IsChains(s, n, f)}
<1>1. Len(s.tab) \in Nat
  BY LengthIsNat
<1> SUFFICES ASSUME Missing # {} PROVE FALSE
  BY <1>1
<1>2. PICK m \in Missing : \A n \in Missing : m <= n
  <2>1. Missing \subseteq Nat
    BY <1>1
  <2> HIDE DEF Missing
  <2> QED
    BY <2>1, FirstIndex
<1>3. CASE m = 0
  <2> DEFINE f == [i \in 0..0 |-> {}]
  <2>1. f = [i \in 0..0 |-> IF i = NoIndex THEN {} ELSE {i} \cup f[s.tab[i].link]]
    BY DEF NoIndex
  <2>2. IsChains(s, 0, f)
    BY <2>1 DEF IsChains
  <2> QED
    BY <1>2, <1>3, <2>2
<1>4. CASE m # 0
  <2>1. m \in 1..Len(s.tab) /\ m - 1 \in 0..Len(s.tab) /\ m - 1 < m
    BY <1>1, <1>2, <1>4
  <2>2. m - 1 \notin Missing
    BY <1>1, <1>2, <2>1
  <2>3. PICK f : IsChains(s, m - 1, f)
    BY <2>1, <2>2
  <2> DEFINE link == s.tab[m].link
             g == [i \in 0..m |-> IF i = m THEN {m} \cup f[link] ELSE f[i]]
  <2>4. link \in 0..(m - 1)
    BY <2>1, LinkIsEarlier
  <2>5. ASSUME NEW i \in 0..m
        PROVE  g[i] = IF i = NoIndex THEN {} ELSE {i} \cup g[s.tab[i].link]
    <3>1. CASE i = m
      <4>1. link \in 0..m /\ link # m
        BY <2>1, <2>4
      <4>2. g[link] = f[link]
        BY <4>1
      <4>3. g[m] = {m} \cup f[link]
        BY <2>1
      <4> QED
        BY <1>4, <3>1, <4>2, <4>3, Zenon DEF NoIndex
    <3>2. CASE i # m
      <4>1. i \in 0..(m - 1)
        BY <2>1, <3>2
      <4>2. g[i] = f[i]
        BY <3>2
      <4>3. f[i] = IF i = NoIndex THEN {} ELSE {i} \cup f[s.tab[i].link]
        BY <2>3, <4>1, Zenon DEF IsChains
      <4>4. CASE i = NoIndex
        BY <4>2, <4>3, <4>4, Zenon
      <4>5. CASE i # NoIndex
        <5>1. i \in 1..Len(s.tab) /\ i <= m
          BY <2>1, <4>1, <4>5 DEF NoIndex
        <5>2. s.tab[i].link \in 0..(i - 1)
          BY <5>1, LinkIsEarlier
        <5>3. s.tab[i].link \in 0..m /\ s.tab[i].link # m
          BY <2>1, <5>1, <5>2
        <5>4. g[s.tab[i].link] = f[s.tab[i].link]
          BY <5>3
        <5> QED
          BY <4>2, <4>3, <4>5, <5>4, Zenon
      <4> QED
        BY <4>4, <4>5
    <3> QED
      BY <3>1, <3>2
  <2>6. g = [i \in 0..m |-> IF i = NoIndex THEN {} ELSE {i} \cup g[s.tab[i].link]]
    <3>1. g = [i \in 0..m |-> g[i]]
      OBVIOUS
    <3> HIDE DEF g
    <3> QED
      BY <2>5, <3>1, Zenon
  <2>7. IsChains(s, m, g)
    BY <2>6, Zenon DEF IsChains
  <2> QED
    BY <1>2, <2>7
<1> QED
  BY <1>3, <1>4

\* A chain is its first entry with the chain from the entry it is linked to.
LEMMA ChainFollowsLink ==
    ASSUME NEW s, Tables(s), NEW i \in 0..Len(s.tab)
    PROVE  Chain(s, i) = IF i = NoIndex THEN {} ELSE {i} \cup Chain(s, s.tab[i].link)
<1> DEFINE from == CHOOSE f : IsChains(s, Len(s.tab), f)
<1>1. IsChains(s, Len(s.tab), from)
  BY ChainsExist, Zenon
<1>2. ASSUME NEW j \in 0..Len(s.tab) PROVE Chain(s, j) = from[j]
  BY Zenon DEF Chain, IsChains
<1> HIDE DEF from
<1>3. from[i] = IF i = NoIndex THEN {} ELSE {i} \cup from[s.tab[i].link]
  BY <1>1, Zenon DEF IsChains
<1>4. CASE i = NoIndex
  BY <1>2, <1>3, <1>4, Zenon
<1>5. CASE i # NoIndex
  <2>1. Len(s.tab) \in Nat /\ i \in 1..Len(s.tab)
    BY <1>5, LengthIsNat DEF NoIndex
  <2>2. s.tab[i].link \in 0..(i - 1)
    BY <2>1, LinkIsEarlier
  <2>3. s.tab[i].link \in 0..Len(s.tab)
    BY <2>1, <2>2
  <2> QED
    BY <1>2, <1>3, <1>5, <2>3, Zenon
<1> QED
  BY <1>4, <1>5

\* A chain holds no entry later than its first.
LEMMA ChainDescends ==
    ASSUME NEW s, Tables(s), NEW i \in 0..Len(s.tab)
    PROVE  Chain(s, i) \subseteq 1..i
<1> DEFINE Wrong == {n \in 0..Len(s.tab) : ~(Chain(s, n) \subseteq 1..n)}
<1>1. Len(s.tab) \in Nat
  BY LengthIsNat
<1> SUFFICES ASSUME Wrong # {} PROVE FALSE
  BY <1>1
<1>2. PICK m \in Wrong : \A n \in Wrong : m <= n
  <2>1. Wrong \subseteq Nat
    BY <1>1
  <2> HIDE DEF Wrong
  <2> QED
    BY <2>1, FirstIndex
<1>3. m \in 0..Len(s.tab)
  OBVIOUS
<1>4. m # NoIndex
  BY <1>2, <1>3, ChainFollowsLink, Zenon
<1> DEFINE link == s.tab[m].link
<1>5. m \in 1..Len(s.tab)
  BY <1>1, <1>3, <1>4 DEF NoIndex
<1>6. link \in 0..(m - 1)
  BY <1>5, LinkIsEarlier
<1>7. link \in 0..Len(s.tab) /\ link < m /\ link \in Nat
  BY <1>1, <1>5, <1>6
<1>8. link \notin Wrong
  BY <1>2, <1>5, <1>7
<1>9. Chain(s, link) \subseteq 1..link
  BY <1>7, <1>8
<1>10. Chain(s, m) = {m} \cup Chain(s, link)
  BY <1>3, <1>4, ChainFollowsLink, Zenon
<1> HIDE DEF link
<1>11. 1..link \subseteq 1..m /\ m \in 1..m
  BY <1>5, <1>7
<1>12. Chain(s, m) \subseteq 1..m
  BY <1>9, <1>10, <1>11, Zenon
<1> QED
  BY <1>2, <1>12

\* Entries entered later do not change a chain.
LEMMA ChainStays ==
    ASSUME NEW s, Tables(s), NEW t, Tables(t), Len(s.tab) <= Len(t.tab),
           \A j \in 1..Len(s.tab) : t.tab[j].link = s.tab[j].link,
           NEW i \in 0..Len(s.tab)
    PROVE  Chain(t, i) = Chain(s, i)
<1> DEFINE Changed == {n \in 0..Len(s.tab) : Chain(t, n) # Chain(s, n)}
<1>1. Len(s.tab) \in Nat /\ Len(t.tab) \in Nat
  BY LengthIsNat
<1> SUFFICES ASSUME Changed # {} PROVE FALSE
  BY <1>1
<1>2. PICK m \in Changed : \A n \in Changed : m <= n
  <2>1. Changed \subseteq Nat
    BY <1>1
  <2> HIDE DEF Changed
  <2> QED
    BY <2>1, FirstIndex
<1>3. m \in 0..Len(s.tab) /\ m \in 0..Len(t.tab)
  BY <1>1
<1>4. m # NoIndex
  BY <1>2, <1>3, ChainFollowsLink, Zenon
<1> DEFINE link == s.tab[m].link
<1>5. m \in 1..Len(s.tab) /\ t.tab[m].link = link
  BY <1>1, <1>3, <1>4 DEF NoIndex
<1>6. link \in 0..(m - 1)
  BY <1>5, LinkIsEarlier
<1>7. link \in 0..Len(s.tab) /\ link < m /\ link \in Nat
  BY <1>1, <1>5, <1>6
<1>8. link \notin Changed
  BY <1>2, <1>5, <1>7
<1>9. Chain(t, link) = Chain(s, link)
  BY <1>7, <1>8
<1>10. Chain(s, m) = {m} \cup Chain(s, link)
  BY <1>3, <1>4, ChainFollowsLink, Zenon
<1>11. Chain(t, m) = {m} \cup Chain(t, link)
  <2>1. Chain(t, m) = {m} \cup Chain(t, t.tab[m].link)
    BY <1>3, <1>4, ChainFollowsLink, Zenon
  <2> QED
    BY <1>5, <2>1
<1> HIDE DEF link
<1>12. Chain(t, m) = Chain(s, m)
  BY <1>9, <1>10, <1>11, Zenon
<1> QED
  BY <1>2, <1>12

\* A search finds no entry only where there is none.
LEMMA LatestIsFound ==
    ASSUME NEW n \in Nat, NEW E, E \subseteq 1..n
    PROVE  Latest(E) = NoIndex <=> E = {}
<1>1. CASE E = {}
  BY <1>1 DEF Latest
<1>2. CASE E # {}
  <2> DEFINE Above == {m \in Nat : \A x \in E : x <= m}
  <2>1. PICK m \in Above : \A k \in Above : m <= k
    <3>1. n \in Above
      OBVIOUS
    <3>2. Above \subseteq Nat
      OBVIOUS
    <3> HIDE DEF Above
    <3> QED
      BY <3>1, <3>2, FirstIndex
  <2>2. m \in E
    <3> SUFFICES ASSUME m \notin E PROVE FALSE
      OBVIOUS
    <3>1. \A x \in E : x \in Nat /\ x >= 1 /\ x < m
      <4> TAKE x \in E
      <4>1. x \in 1..n /\ x <= m /\ x # m
        OBVIOUS
      <4> QED
        BY <4>1
    <3>2. PICK y \in E : y \in Nat /\ y >= 1 /\ y < m
      BY <1>2, <3>1
    <3>3. m \in Nat /\ m - 1 \in Nat /\ m - 1 < m
      BY <3>2
    <3>4. \A x \in E : x <= m - 1
      BY <3>1, <3>3
    <3>5. m - 1 \in Above
      BY <3>3, <3>4
    <3> QED
      BY <2>1, <3>3, <3>5
  <2>3. \A x \in E : m >= x
    BY <2>1
  <2>4. Max(E) \in E
    BY <2>2, <2>3, Zenon DEF Max
  <2> QED
    BY <1>2, <2>4 DEF Latest, NoIndex
<1> QED
  BY <1>1, <1>2

\* The last entry of a block is an entry of the table or none.
LEMMA LastIsAnEntry ==
    ASSUME NEW s, Tables(s), NEW b \in 1..Len(s.btab)
    PROVE  s.btab[b].last \in 0..Len(s.tab)
<1>1. s.btab \in Seq(BtabEntry)
  BY DEF Tables, Table
<1>2. s.btab[b] \in BtabEntry /\ s.btab[b].last <= Len(s.tab)
  BY <1>1 DEF Tables
<1> QED
  BY <1>2, LengthIsNat DEF BtabEntry

\* An entry or a field is entered only where its block has no entry of the name.
LEMMA FindsTheName ==
    ASSUME NEW s, Tables(s), NEW name, NEW b \in 1..Len(s.btab)
    PROVE  FindSameNameInBlock(s, name, b) = NoIndex
             <=> \A i \in Block(s, b) : s.tab[i].identifier # name
<1>1. s.btab[b].last \in 0..Len(s.tab)
  BY LastIsAnEntry
<1>2. Block(s, b) \subseteq 1..s.btab[b].last
  BY <1>1, ChainDescends, Zenon DEF Block
<1>3. s.btab[b].last \in Nat
  BY <1>1
<1>4. Named(s, Block(s, b), name) \subseteq 1..s.btab[b].last
  BY <1>2, Zenon DEF Named
<1>5. FindSameNameInBlock(s, name, b) = NoIndex <=> Named(s, Block(s, b), name) = {}
  BY <1>3, <1>4, LatestIsFound, Zenon DEF FindSameNameInBlock
<1> QED
  BY <1>5, Zenon DEF Named

-----------------------------------------------------------------------------
(***************************************************************************)
(* The blocks and their entries: each entry but the predefined ones is on  *)
(* the chain of one block, and no block has two entries of a name.         *)
(***************************************************************************)
BlocksApart(s) ==
    /\ Len(Predefined) <= Len(s.tab)
    /\ \A b, c \in 1..Len(s.btab) : \A i \in Block(s, b) : i \in Block(s, c) => b = c
    /\ \A i \in 1..Len(s.tab) :
          i > Len(Predefined) => \E b \in 1..Len(s.btab) : i \in Block(s, b)
    /\ \A b \in 1..Len(s.btab) : \A i, j \in Block(s, b) :
          s.tab[i].identifier = s.tab[j].identifier => i = j

\* The entries of a block are entries of the table.
LEMMA BlockIsInTable ==
    ASSUME NEW s, Tables(s), NEW b \in 1..Len(s.btab)
    PROVE  Block(s, b) \subseteq 1..Len(s.tab)
<1>1. s.btab[b].last \in 0..Len(s.tab)
  BY LastIsAnEntry
<1>2. Block(s, b) \subseteq 1..s.btab[b].last
  BY <1>1, ChainDescends, Zenon DEF Block
<1>3. 1..s.btab[b].last \subseteq 1..Len(s.tab)
  BY <1>1, LengthIsNat
<1> QED
  BY <1>2, <1>3, Zenon

\* A call that keeps links, names and last entries, and makes blocks only without
\* entries, leaves the blocks apart.
SameBlocks(s, t) ==
    /\ Len(t.tab) = Len(s.tab)
    /\ \A i \in 1..Len(s.tab) : /\ t.tab[i].link = s.tab[i].link
                                /\ t.tab[i].identifier = s.tab[i].identifier
    /\ Len(s.btab) <= Len(t.btab)
    /\ \A b \in 1..Len(s.btab) : t.btab[b].last = s.btab[b].last
    /\ \A b \in 1..Len(t.btab) : b > Len(s.btab) => t.btab[b].last = NoIndex

LEMMA SameBlocksApart ==
    ASSUME NEW s, Tables(s), BlocksApart(s), NEW t, Tables(t), SameBlocks(s, t)
    PROVE  BlocksApart(t)
<1>1. /\ Len(s.tab) \in Nat /\ Len(s.btab) \in Nat
      /\ Len(t.tab) = Len(s.tab) /\ Len(t.btab) \in Nat
      /\ Len(s.btab) <= Len(t.btab)
  BY LengthIsNat DEF SameBlocks
<1>2. ASSUME NEW b \in 1..Len(s.btab) PROVE Block(t, b) = Block(s, b)
  <2>1. t.btab[b].last = s.btab[b].last
    BY DEF SameBlocks
  <2>2. s.btab[b].last \in 0..Len(s.tab)
    BY LastIsAnEntry
  <2>3. Len(s.tab) <= Len(t.tab) /\ \A j \in 1..Len(s.tab) : t.tab[j].link = s.tab[j].link
    BY <1>1 DEF SameBlocks
  <2>4. Chain(t, s.btab[b].last) = Chain(s, s.btab[b].last)
    BY <2>2, <2>3, ChainStays
  <2> QED
    BY <2>1, <2>4 DEF Block
<1>3. ASSUME NEW b \in 1..Len(t.btab), b > Len(s.btab) PROVE Block(t, b) = {}
  <2>1. t.btab[b].last = NoIndex
    BY <1>3 DEF SameBlocks
  <2>2. NoIndex \in 0..Len(t.tab)
    BY <1>1 DEF NoIndex
  <2>3. Chain(t, NoIndex) = {}
    BY <2>2, ChainFollowsLink, Zenon
  <2> QED
    BY <2>1, <2>3, Zenon DEF Block
<1>4. ASSUME NEW b \in 1..Len(t.btab), NEW i \in Block(t, b)
      PROVE  b \in 1..Len(s.btab) /\ i \in Block(s, b) /\ i \in 1..Len(s.tab)
  <2>1. b \in 1..Len(s.btab)
    BY <1>1, <1>3
  <2>2. i \in Block(s, b)
    BY <1>2, <2>1
  <2> QED
    BY <2>1, <2>2, BlockIsInTable
<1>5. \A b, c \in 1..Len(t.btab) : \A i \in Block(t, b) : i \in Block(t, c) => b = c
  BY <1>4, Zenon DEF BlocksApart
<1>6. ASSUME NEW i \in 1..Len(t.tab), i > Len(Predefined)
      PROVE  \E b \in 1..Len(t.btab) : i \in Block(t, b)
  <2>1. PICK b \in 1..Len(s.btab) : i \in Block(s, b)
    BY <1>1, <1>6 DEF BlocksApart
  <2>2. b \in 1..Len(t.btab) /\ i \in Block(t, b)
    BY <1>1, <1>2, <2>1
  <2> QED
    BY <2>2
<1>7. ASSUME NEW b \in 1..Len(t.btab), NEW i \in Block(t, b), NEW j \in Block(t, b),
             t.tab[i].identifier = t.tab[j].identifier
      PROVE  i = j
  <2>1. /\ b \in 1..Len(s.btab) /\ i \in Block(s, b) /\ j \in Block(s, b)
        /\ i \in 1..Len(s.tab) /\ j \in 1..Len(s.tab)
    BY <1>4
  <2>2. s.tab[i].identifier = s.tab[j].identifier
    BY <1>7, <2>1 DEF SameBlocks
  <2> QED
    BY <2>1, <2>2 DEF BlocksApart
<1>8. Len(Predefined) <= Len(t.tab)
  BY <1>1 DEF BlocksApart
<1> QED
  BY <1>5, <1>6, <1>7, <1>8 DEF BlocksApart

\* A call that enters one name, at the head of the chain of a block without it.
OneMore(s, t, b, name) ==
    /\ Len(t.tab) = Len(s.tab) + 1
    /\ \A i \in 1..Len(s.tab) : /\ t.tab[i].link = s.tab[i].link
                                /\ t.tab[i].identifier = s.tab[i].identifier
    /\ t.tab[Len(s.tab) + 1].link = s.btab[b].last
    /\ t.tab[Len(s.tab) + 1].identifier = name
    /\ Len(t.btab) = Len(s.btab)
    /\ \A c \in 1..Len(s.btab) : c # b => t.btab[c].last = s.btab[c].last
    /\ t.btab[b].last = Len(s.tab) + 1

LEMMA OneMoreApart ==
    ASSUME NEW s, Tables(s), BlocksApart(s), NEW t, Tables(t),
           NEW b \in 1..Len(s.btab), NEW name, OneMore(s, t, b, name),
           \A i \in Block(s, b) : s.tab[i].identifier # name
    PROVE  BlocksApart(t)
<1> DEFINE new == Len(s.tab) + 1
<1>1. /\ Len(s.tab) \in Nat /\ Len(s.btab) \in Nat
      /\ Len(t.tab) = new /\ Len(t.btab) = Len(s.btab)
  BY LengthIsNat DEF OneMore
<1>2. /\ new \in 1..Len(t.tab) /\ new \in 0..Len(t.tab) /\ new # NoIndex
      /\ new \notin 1..Len(s.tab)
  BY <1>1 DEF NoIndex
<1>3. ASSUME NEW i \in 0..Len(s.tab) PROVE Chain(t, i) = Chain(s, i)
  <2>1. Len(s.tab) <= Len(t.tab) /\ \A j \in 1..Len(s.tab) : t.tab[j].link = s.tab[j].link
    BY <1>1 DEF OneMore
  <2> QED
    BY <2>1, ChainStays
<1>4. ASSUME NEW c \in 1..Len(s.btab), c # b PROVE Block(t, c) = Block(s, c)
  <2>1. t.btab[c].last = s.btab[c].last
    BY <1>4 DEF OneMore
  <2> QED
    BY <1>3, <2>1, LastIsAnEntry DEF Block
<1>5. Block(t, b) = {new} \cup Block(s, b)
  <2>1. Chain(t, new) = {new} \cup Chain(t, t.tab[new].link)
    BY <1>2, ChainFollowsLink, Zenon
  <2>2. t.tab[new].link = s.btab[b].last /\ t.btab[b].last = new
    BY DEF OneMore
  <2>3. Chain(t, s.btab[b].last) = Chain(s, s.btab[b].last)
    BY <1>3, LastIsAnEntry
  <2> HIDE DEF new
  <2> QED
    BY <2>1, <2>2, <2>3 DEF Block
<1>6. \A i \in 1..Len(s.tab) : /\ t.tab[i].link = s.tab[i].link
                               /\ t.tab[i].identifier = s.tab[i].identifier
  BY DEF OneMore
<1>7. t.tab[new].identifier = name
  BY DEF OneMore
<1> HIDE DEF new
<1>8. ASSUME NEW c \in 1..Len(s.btab), NEW i \in Block(s, c)
      PROVE  i \in 1..Len(s.tab) /\ i # new
  BY <1>2, BlockIsInTable
<1>9. ASSUME NEW c \in 1..Len(s.btab), NEW i \in Block(t, c)
      PROVE  (i = new /\ c = b) \/ i \in Block(s, c)
  BY <1>4, <1>5, Zenon
<1>10. ASSUME NEW c \in 1..Len(t.btab), NEW d \in 1..Len(t.btab),
              NEW i \in Block(t, c), i \in Block(t, d)
       PROVE  c = d
  <2>1. c \in 1..Len(s.btab) /\ d \in 1..Len(s.btab)
    BY <1>1
  <2>2. (i = new /\ c = b) \/ i \in Block(s, c)
    BY <1>9, <2>1
  <2>3. (i = new /\ d = b) \/ i \in Block(s, d)
    BY <1>9, <1>10, <2>1
  <2>4. ~(i = new /\ i \in Block(s, c)) /\ ~(i = new /\ i \in Block(s, d))
    BY <1>8, <2>1
  <2>5. i \in Block(s, c) /\ i \in Block(s, d) => c = d
    BY <2>1 DEF BlocksApart
  <2> QED
    BY <2>2, <2>3, <2>4, <2>5, Zenon
<1>11. ASSUME NEW i \in 1..Len(t.tab), i > Len(Predefined)
       PROVE  \E c \in 1..Len(t.btab) : i \in Block(t, c)
  <2>1. CASE i = new
    BY <1>1, <1>5, <2>1, Zenon
  <2>2. CASE i # new
    <3>1. i \in 1..Len(s.tab)
      BY <1>1, <2>2 DEF new
    <3>2. PICK c \in 1..Len(s.btab) : i \in Block(s, c)
      BY <1>11, <3>1 DEF BlocksApart
    <3>3. i \in Block(t, c)
      BY <1>4, <1>5, <3>2, Zenon
    <3> QED
      BY <1>1, <3>2, <3>3
  <2> QED
    BY <2>1, <2>2
<1>12. ASSUME NEW c \in 1..Len(t.btab), NEW i \in Block(t, c), NEW j \in Block(t, c),
              t.tab[i].identifier = t.tab[j].identifier
       PROVE  i = j
  <2>1. c \in 1..Len(s.btab)
    BY <1>1
  <2>2. (i = new /\ c = b) \/ i \in Block(s, c)
    BY <1>9, <2>1
  <2>3. (j = new /\ c = b) \/ j \in Block(s, c)
    BY <1>9, <2>1
  <2>4. CASE i = new /\ j = new
    BY <2>4
  <2>5. CASE i = new /\ c = b /\ j \in Block(s, c)
    <3>1. t.tab[j].identifier = s.tab[j].identifier
      BY <1>6, <1>8, <2>1, <2>5
    <3> QED
      BY <1>7, <1>12, <2>5, <3>1
  <2>6. CASE j = new /\ c = b /\ i \in Block(s, c)
    <3>1. t.tab[i].identifier = s.tab[i].identifier
      BY <1>6, <1>8, <2>1, <2>6
    <3> QED
      BY <1>7, <1>12, <2>6, <3>1
  <2>7. CASE i \in Block(s, c) /\ j \in Block(s, c)
    <3>1. /\ t.tab[i].identifier = s.tab[i].identifier
          /\ t.tab[j].identifier = s.tab[j].identifier
      BY <1>6, <1>8, <2>1, <2>7
    <3>2. s.tab[i].identifier = s.tab[j].identifier
      BY <1>12, <3>1
    <3> QED
      BY <2>1, <2>7, <3>2 DEF BlocksApart
  <2> QED
    BY <2>2, <2>3, <2>4, <2>5, <2>6, <2>7, Zenon
<1>13. Len(Predefined) <= Len(t.tab)
  BY <1>1, SymbolTableAssumption DEF BlocksApart, new
<1> QED
  BY <1>10, <1>11, <1>12, <1>13 DEF BlocksApart

\* Counting a size keeps tab and the last entries.
SameChains(s, t) ==
    /\ t.tab = s.tab
    /\ Len(t.btab) = Len(s.btab)
    /\ \A b \in 1..Len(s.btab) : t.btab[b].last = s.btab[b].last

LEMMA CountingKeepsChains ==
    ASSUME NEW s, Tables(s), NEW b \in 1..Len(s.btab), NEW size, NEW i
    PROVE  /\ SameChains(s, [s EXCEPT !.btab[b].vsze = @ + size])
           /\ SameChains(s, [s EXCEPT !.btab[b].psze = @ + size, !.btab[b].lpar = i])
<1> DEFINE e == s.btab[b]
           f == [e EXCEPT !.vsze = @ + size]
           g == [[e EXCEPT !.psze = @ + size] EXCEPT !.lpar = i]
           u == [s EXCEPT !.btab[b].vsze = @ + size]
           v == [s EXCEPT !.btab[b].psze = @ + size, !.btab[b].lpar = i]
<1>1. s \in Table /\ s.btab \in Seq(BtabEntry)
  BY DEF Tables, Table
<1>2. e \in BtabEntry
  BY <1>1
<1>3. f.last = e.last /\ g.last = e.last
  BY <1>2 DEF BtabEntry
<1>4. u.tab = s.tab /\ u.btab = [s.btab EXCEPT ![b] = f]
  BY <1>1 DEF Table
<1>5. v.tab = s.tab /\ v.btab = [s.btab EXCEPT ![b] = g]
  BY <1>1 DEF Table
<1> HIDE DEF u, v, f, g
<1>6. /\ Len(u.btab) = Len(s.btab)
      /\ \A c \in 1..Len(s.btab) : u.btab[c] = IF c = b THEN f ELSE s.btab[c]
  BY <1>1, <1>4
<1>7. /\ Len(v.btab) = Len(s.btab)
      /\ \A c \in 1..Len(s.btab) : v.btab[c] = IF c = b THEN g ELSE s.btab[c]
  BY <1>1, <1>5
<1>8. SameChains(s, u)
  BY <1>3, <1>4, <1>6 DEF SameChains
<1>9. SameChains(s, v)
  BY <1>3, <1>5, <1>7 DEF SameChains
<1> QED
  BY <1>8, <1>9 DEF u, v

\* Linking enters one name, and counting after it changes nothing of that.
LEMMA LinkedIsOneMore ==
    ASSUME NEW s, Tables(s), NEW b \in 1..Len(s.btab),
           NEW name, NEW obj, NEW type, NEW ref, NEW nrm, NEW adr, NEW initialized
    PROVE  OneMore(s, Linked(s, b, name, obj, type, ref, nrm, adr, initialized), b, name)
<1> DEFINE t == Linked(s, b, name, obj, type, ref, nrm, adr, initialized)
           e == [identifier |-> name, link |-> s.btab[b].last, obj |-> obj,
                 type |-> type, ref |-> ref, nrm |-> nrm, lev |-> s.currentLevel,
                 adr |-> adr, range |-> NoRange, initialized |-> initialized]
           f == [s.btab[b] EXCEPT !.last = Len(s.tab) + 1]
<1>1. s \in Table /\ s.tab \in Seq(TabEntry) /\ s.btab \in Seq(BtabEntry)
  BY DEF Tables, Table
<1>2. s.btab[b] \in BtabEntry
  BY <1>1
<1>3. f.last = Len(s.tab) + 1
  BY <1>2 DEF BtabEntry
<1>4. e.identifier = name /\ e.link = s.btab[b].last
  OBVIOUS
<1>5. t.tab = Append(s.tab, e) /\ t.btab = [s.btab EXCEPT ![b] = f]
  BY <1>1 DEF Linked, Table
<1> HIDE DEF t, e, f
<1>6. /\ Len(t.tab) = Len(s.tab) + 1
      /\ \A i \in 1..Len(s.tab) : t.tab[i] = s.tab[i]
      /\ t.tab[Len(s.tab) + 1] = e
  <2>1. Len(s.tab) \in Nat
    BY <1>1
  <2> QED
    BY <1>1, <1>5, <2>1
<1>7. /\ Len(t.btab) = Len(s.btab)
      /\ \A c \in 1..Len(s.btab) : t.btab[c] = IF c = b THEN f ELSE s.btab[c]
  BY <1>1, <1>5
<1>8. OneMore(s, t, b, name)
  BY <1>3, <1>4, <1>6, <1>7 DEF OneMore
<1> QED
  BY <1>8 DEF t

LEMMA OneMoreCounted ==
    ASSUME NEW s, NEW t, NEW u, NEW b \in 1..Len(s.btab), NEW name,
           OneMore(s, t, b, name), SameChains(t, u)
    PROVE  OneMore(s, u, b, name)
BY DEF OneMore, SameChains

\* symEnter leaves the blocks apart: it has looked for the name where it links it.
LEMMA SymEnterKeepsBlocksApart ==
    ASSUME NEW s, Tables(s), BlocksApart(s), NEW name \in Identifier, NEW obj \in ObjClass,
           NEW type \in BaseType, NEW ref \in Nat, NEW nrm \in Int, NEW adr \in Int
    PROVE  BlocksApart(SymEnter(s, name, obj, type, ref, nrm, adr).table)
<1> DEFINE b == s.display[s.currentLevel]
           size == SizeOfType(s, type, ref)
           known == obj # "variable" \/ nrm = 0
           linked == Linked(s, b, name, obj, type, ref, nrm, adr, known)
           refused == \/ Len(s.tab) >= MaxTab
                      \/ b \notin 1..Len(s.btab)
                      \/ FindSameNameInBlock(s, name, b) # NoIndex
                      \/ FindPermanentName(s, name) # NoIndex
           t == SymEnter(s, name, obj, type, ref, nrm, adr).table
<1>1. CASE refused
  BY <1>1 DEF SymEnter, Answered
<1>2. CASE ~refused
  <2>1. Len(s.tab) \in Nat /\ MaxTab \in Nat
    BY SymbolTableAssumption, LengthIsNat
  <2>2. b \in 1..Len(s.btab) /\ Len(s.tab) < MaxTab /\ FindSameNameInBlock(s, name, b) = NoIndex
    BY <1>2, <2>1
  <2>3. known \in BOOLEAN
    OBVIOUS
  <2>4. t \in {linked,
               [linked EXCEPT !.btab[b].psze = @ + size, !.btab[b].lpar = Len(s.tab) + 1],
               [linked EXCEPT !.btab[b].vsze = @ + size]}
    BY <1>2 DEF SymEnter, Answered
  <2>5. Tables(t)
    BY SymEnterKeepsTables
  <2> HIDE DEF b, size, known, t
  <2>6. Tables(linked) /\ b \in 1..Len(linked.btab)
    BY <2>2, <2>3, LinkedKeepsTables
  <2>7. OneMore(s, linked, b, name)
    BY <2>2, LinkedIsOneMore
  <2> HIDE DEF linked
  <2>8. /\ SameChains(linked, [linked EXCEPT !.btab[b].vsze = @ + size])
        /\ SameChains(linked,
              [linked EXCEPT !.btab[b].psze = @ + size, !.btab[b].lpar = Len(s.tab) + 1])
    BY <2>6, CountingKeepsChains
  <2>9. OneMore(s, t, b, name)
    BY <2>2, <2>4, <2>7, <2>8, OneMoreCounted
  <2>10. \A i \in Block(s, b) : s.tab[i].identifier # name
    BY <2>2, FindsTheName
  <2>11. BlocksApart(t)
    BY <2>2, <2>5, <2>9, <2>10, OneMoreApart
  <2> QED
    BY <2>11 DEF t
<1> QED
  BY <1>1, <1>2

\* symEnterField leaves the blocks apart, for the same reason.
LEMMA SymEnterFieldKeepsBlocksApart ==
    ASSUME NEW s, Tables(s), BlocksApart(s), NEW name \in Identifier, NEW type \in BaseType,
           NEW ref \in Nat, NEW adr \in Int
    PROVE  BlocksApart(SymEnterField(s, name, type, ref, adr).table)
<1> DEFINE b == s.recordBlocks[Len(s.recordBlocks)]
           size == SizeOfType(s, type, ref)
           obj == "variable"
           known == TRUE
           linked == Linked(s, b, name, obj, type, ref, 0, adr, known)
           refused == \/ Len(s.tab) >= MaxTab
                      \/ s.recordBlocks = <<>>
                      \/ FindSameNameInBlock(s, name, b) # NoIndex
           t == SymEnterField(s, name, type, ref, adr).table
<1>1. CASE refused
  BY <1>1 DEF SymEnterField, Answered
<1>2. CASE ~refused
  <2>1. Len(s.tab) \in Nat /\ MaxTab \in Nat /\ s.recordBlocks \in Seq(Nat)
    BY SymbolTableAssumption DEF Tables, Table
  <2>2. b \in 1..Len(s.btab) /\ Len(s.tab) < MaxTab /\ FindSameNameInBlock(s, name, b) = NoIndex
    <3>1. Len(s.recordBlocks) \in 1..Len(s.recordBlocks)
      BY <1>2, <2>1
    <3> QED
      BY <1>2, <2>1, <3>1 DEF Tables
  <2>3. obj \in ObjClass /\ known \in BOOLEAN /\ 0 \in Int
    BY DEF ObjClass
  <2>4. t = [linked EXCEPT !.btab[b].vsze = @ + size]
    BY <1>2 DEF SymEnterField, Answered
  <2>5. Tables(t)
    BY SymEnterFieldKeepsTables
  <2> HIDE DEF b, size, obj, known, t
  <2>6. Tables(linked) /\ b \in 1..Len(linked.btab)
    BY <2>2, <2>3, LinkedKeepsTables
  <2>7. OneMore(s, linked, b, name)
    BY <2>2, LinkedIsOneMore
  <2> HIDE DEF linked
  <2>8. SameChains(linked, [linked EXCEPT !.btab[b].vsze = @ + size])
    BY <2>6, CountingKeepsChains
  <2>9. OneMore(s, t, b, name)
    BY <2>2, <2>4, <2>7, <2>8, OneMoreCounted
  <2>10. \A i \in Block(s, b) : s.tab[i].identifier # name
    BY <2>2, FindsTheName
  <2>11. BlocksApart(t)
    BY <2>2, <2>5, <2>9, <2>10, OneMoreApart
  <2> QED
    BY <2>11 DEF t
<1> QED
  BY <1>1, <1>2

\* symInit leaves one block without entries.
LEMMA InitialBlocksAreApart == BlocksApart(InitialTable)
<1> DEFINE t == InitialTable
<1>1. Tables(t)
  BY InitialTableIsATable
<1>2. t.tab = Predefined /\ t.btab = <<EmptyBlock>> /\ Predefined \in Seq(TabEntry)
  BY SymbolTableAssumption DEF InitialTable
<1> HIDE DEF t
<1>3. Len(Predefined) \in Nat /\ Len(t.btab) = 1 /\ t.btab[1] = EmptyBlock
  BY <1>2
<1>4. t.btab[1].last = NoIndex
  BY <1>3 DEF EmptyBlock
<1>5. NoIndex \in 0..Len(t.tab)
  BY <1>2, <1>3 DEF NoIndex
<1>6. Block(t, 1) = {}
  BY <1>1, <1>4, <1>5, ChainFollowsLink, Zenon DEF Block
<1>7. \A b \in 1..Len(t.btab) : b = 1
  BY <1>3
<1>8. \A i \in 1..Len(t.tab) : ~(i > Len(Predefined))
  BY <1>2, <1>3
<1>9. Len(Predefined) <= Len(t.tab)
  BY <1>2, <1>3
<1>10. BlocksApart(t)
  BY <1>6, <1>7, <1>8, <1>9 DEF BlocksApart
<1> QED
  BY <1>10 DEF t

\* What the other calls do to tab and btab: nothing, or a block without entries is
\* added, or a range is set.
LEMMA SameTablesSameBlocks ==
    ASSUME NEW s, Tables(s), NEW t, t.tab = s.tab, t.btab = s.btab
    PROVE  SameBlocks(s, t)
<1>1. Len(s.tab) \in Nat /\ Len(s.btab) \in Nat
  BY LengthIsNat
<1> QED
  BY <1>1 DEF SameBlocks

LEMMA NewBlockSameBlocks ==
    ASSUME NEW s, Tables(s), NEW t, t.tab = s.tab, t.btab = Append(s.btab, EmptyBlock)
    PROVE  SameBlocks(s, t)
<1>1. s.btab \in Seq(BtabEntry) /\ Len(s.btab) \in Nat
  BY DEF Tables, Table
<1>2. /\ Len(t.btab) = Len(s.btab) + 1
      /\ \A b \in 1..Len(s.btab) : t.btab[b] = s.btab[b]
      /\ t.btab[Len(s.btab) + 1] = EmptyBlock
  BY <1>1
<1>3. EmptyBlock.last = NoIndex
  BY DEF EmptyBlock
<1>4. \A b \in 1..Len(t.btab) : b > Len(s.btab) => b = Len(s.btab) + 1
  BY <1>1, <1>2
<1>5. Len(s.btab) <= Len(t.btab)
  BY <1>1, <1>2
<1> QED
  BY <1>2, <1>3, <1>4, <1>5 DEF SameBlocks

LEMMA SymEnterScopeSameBlocks ==
    ASSUME NEW s, Tables(s) PROVE SameBlocks(s, SymEnterScope(s))
<1>1. s \in Table
  BY DEF Tables
<1>2. CASE s.currentLevel + 1 >= MaxScopes \/ Len(s.btab) >= MaxBtab
  BY <1>2, SameTablesSameBlocks DEF SymEnterScope
<1>3. CASE ~(s.currentLevel + 1 >= MaxScopes \/ Len(s.btab) >= MaxBtab)
  <2>1. /\ SymEnterScope(s).tab = s.tab
        /\ SymEnterScope(s).btab = Append(s.btab, EmptyBlock)
    BY <1>1, <1>3 DEF SymEnterScope, Table
  <2> QED
    BY <2>1, NewBlockSameBlocks
<1> QED
  BY <1>2, <1>3

LEMMA SymEnterRecordBlockSameBlocks ==
    ASSUME NEW s, Tables(s) PROVE SameBlocks(s, SymEnterRecordBlock(s).table)
<1>1. s \in Table
  BY DEF Tables
<1>2. CASE Len(s.btab) >= MaxBtab
  BY <1>2, SameTablesSameBlocks DEF SymEnterRecordBlock, Answered
<1>3. CASE ~(Len(s.btab) >= MaxBtab)
  <2> DEFINE t == SymEnterRecordBlock(s).table
             blocks == IF Len(s.recordBlocks) < MaxBtab
                       THEN Append(s.recordBlocks, Len(s.btab) + 1) ELSE s.recordBlocks
  <2>1. t = [s EXCEPT !.btab = Append(s.btab, EmptyBlock), !.recordBlocks = blocks]
    BY <1>1, <1>3 DEF SymEnterRecordBlock, Answered, Table
  <2> HIDE DEF t, blocks
  <2>2. t.tab = s.tab /\ t.btab = Append(s.btab, EmptyBlock)
    BY <1>1, <2>1 DEF Table
  <2>3. SameBlocks(s, t)
    BY <2>2, NewBlockSameBlocks
  <2> QED
    BY <2>3 DEF t
<1> QED
  BY <1>2, <1>3

LEMMA OtherCallsSameBlocks ==
    ASSUME NEW s, Tables(s)
    PROVE  /\ SameBlocks(s, SymExitScope(s))
           /\ SameBlocks(s, SymExitRecordBlock(s))
           /\ \A count : SameBlocks(s, SymEnterEnum(s, count).table)
           /\ \A index, element, low, high, elsz :
                 SameBlocks(s, SymEnterArray(s, index, element, low, high, elsz).table)
<1>1. s \in Table
  BY DEF Tables
<1>2. SymExitScope(s).tab = s.tab /\ SymExitScope(s).btab = s.btab
  BY <1>1 DEF SymExitScope, Table
<1>3. SymExitRecordBlock(s).tab = s.tab /\ SymExitRecordBlock(s).btab = s.btab
  BY <1>1 DEF SymExitRecordBlock, Table
<1>4. ASSUME NEW count
      PROVE  /\ SymEnterEnum(s, count).table.tab = s.tab
             /\ SymEnterEnum(s, count).table.btab = s.btab
  BY <1>1 DEF SymEnterEnum, Answered, Table
<1>5. ASSUME NEW index, NEW element, NEW low, NEW high, NEW elsz
      PROVE  /\ SymEnterArray(s, index, element, low, high, elsz).table.tab = s.tab
             /\ SymEnterArray(s, index, element, low, high, elsz).table.btab = s.btab
  BY <1>1 DEF SymEnterArray, Answered, Table
<1> QED
  BY <1>2, <1>3, <1>4, <1>5, SameTablesSameBlocks

LEMMA SymSetRangeSameBlocks ==
    ASSUME NEW s, Tables(s), NEW i, NEW range
    PROVE  SameBlocks(s, SymSetRange(s, i, range))
<1>1. s \in Table /\ s.tab \in Seq(TabEntry) /\ Len(s.tab) \in Nat /\ Len(s.btab) \in Nat
  BY DEF Tables, Table
<1>2. CASE i \notin 1..Len(s.tab)
  BY <1>2, SameTablesSameBlocks DEF SymSetRange
<1>3. CASE i \in 1..Len(s.tab)
  <2> DEFINE e == [s.tab[i] EXCEPT !.range = range]
             t == SymSetRange(s, i, range)
  <2>1. s.tab[i] \in TabEntry
    BY <1>1, <1>3
  <2>2. e.link = s.tab[i].link /\ e.identifier = s.tab[i].identifier
    BY <2>1 DEF TabEntry
  <2>3. t.btab = s.btab /\ t.tab = [s.tab EXCEPT ![i] = e]
    BY <1>1, <1>3 DEF SymSetRange, Table
  <2> HIDE DEF t, e
  <2>4. /\ Len(t.tab) = Len(s.tab)
        /\ \A j \in 1..Len(s.tab) : t.tab[j] = IF j = i THEN e ELSE s.tab[j]
    BY <1>1, <2>3
  <2>5. SameBlocks(s, t)
    BY <1>1, <2>2, <2>3, <2>4 DEF SameBlocks
  <2> QED
    BY <2>5 DEF t
<1> QED
  BY <1>2, <1>3

\* Blocks that are apart have each entry once.
LEMMA ApartIsInOneBlock ==
    ASSUME TablesIntact, BlocksApart(table)
    PROVE  EntriesInOneBlock
<1>1. ASSUME NEW i \in 1..Len(table.tab) \ DOMAIN Predefined
      PROVE  Cardinality({b \in 1..Len(table.btab) : i \in Block(table, b)}) = 1
  <2>1. i \in 1..Len(table.tab) /\ i > Len(Predefined)
    <3>1. Predefined \in Seq(TabEntry)
      BY SymbolTableAssumption
    <3>2. DOMAIN Predefined = 1..Len(Predefined) /\ Len(Predefined) \in Nat
      BY <3>1
    <3>3. Len(table.tab) \in Nat
      BY LengthIsNat DEF TablesIntact
    <3> QED
      BY <3>2, <3>3
  <2>2. PICK b \in 1..Len(table.btab) : i \in Block(table, b)
    BY <2>1 DEF BlocksApart
  <2>3. \A c \in 1..Len(table.btab) : i \in Block(table, c) => c = b
    BY <2>2 DEF BlocksApart
  <2>4. {c \in 1..Len(table.btab) : i \in Block(table, c)} = {b}
    BY <2>2, <2>3, Zenon
  <2> QED
    BY <2>4, FS_Singleton
<1>2. \A b \in 1..Len(table.btab) : \A i, j \in Block(table, b) :
         table.tab[i].identifier = table.tab[j].identifier => i = j
  BY DEF BlocksApart
<1> QED
  BY <1>1, <1>2 DEF EntriesInOneBlock

\* Under any caller each entry but the predefined ones is on the chain of exactly one
\* block and no block has two entries of a name.  The invariant behind it is that the
\* tables are intact, so that chains are what they seem, and the blocks apart.
THEOREM EntriesStayInOneBlock == CallSpec => []EntriesInOneBlock
<1> DEFINE Inv == TablesIntact /\ BlocksApart(table)
<1>1. CallInit => Inv
  BY InitialTableIsATable, InitialBlocksAreApart DEF CallInit, TablesIntact
<1>2. Inv /\ TablesIntact' /\ [CallNext]_table => Inv'
  <2> SUFFICES ASSUME Tables(table), BlocksApart(table), Tables(table'), [CallNext]_table
               PROVE  BlocksApart(table')
    BY DEF TablesIntact
  <2>1. CASE EnterScope
    BY <2>1, SymEnterScopeSameBlocks, SameBlocksApart DEF EnterScope
  <2>2. CASE ExitScope
    BY <2>2, OtherCallsSameBlocks, SameBlocksApart DEF ExitScope
  <2>3. CASE EnterRecordBlock
    BY <2>3, SymEnterRecordBlockSameBlocks, SameBlocksApart DEF EnterRecordBlock
  <2>4. CASE ExitRecordBlock
    BY <2>4, OtherCallsSameBlocks, SameBlocksApart DEF ExitRecordBlock
  <2>5. ASSUME NEW name \in Identifier, Enter(name)
        PROVE  BlocksApart(table')
    <3>1. PICK obj \in Objects, info \in TypeInfos, nrm \in Numbers, adr \in Numbers :
            table' = SymEnter(table, name, obj, info.type, info.ref, nrm, adr).table
      BY <2>5 DEF Enter
    <3>2. /\ obj \in ObjClass /\ info.type \in BaseType /\ info.ref \in Nat
          /\ nrm \in Int /\ adr \in Int
      BY CallsAssumption
    <3> QED
      BY <3>1, <3>2, SymEnterKeepsBlocksApart
  <2>6. ASSUME NEW name \in Identifier, EnterField(name)
        PROVE  BlocksApart(table')
    <3>1. PICK info \in TypeInfos, adr \in Numbers :
            table' = SymEnterField(table, name, info.type, info.ref, adr).table
      BY <2>6 DEF EnterField
    <3>2. info.type \in BaseType /\ info.ref \in Nat /\ adr \in Int
      BY CallsAssumption
    <3> QED
      BY <3>1, <3>2, SymEnterFieldKeepsBlocksApart
  <2>7. CASE SetRange
    BY <2>7, SymSetRangeSameBlocks, SameBlocksApart DEF SetRange
  <2>8. CASE EnterEnum
    BY <2>8, OtherCallsSameBlocks, SameBlocksApart DEF EnterEnum
  <2>9. CASE EnterArray
    <3>1. PICK index \in TypeInfos, element \in TypeInfos,
               low \in Numbers, high \in Numbers, elsz \in Numbers :
            table' = SymEnterArray(table, index, element, low, high, elsz).table
      BY <2>9 DEF EnterArray
    <3>2. SameBlocks(table, table')
      BY <3>1, OtherCallsSameBlocks
    <3> QED
      BY <3>2, SameBlocksApart
  <2>10. CASE UNCHANGED table
    BY <2>10
  <2> QED
    BY <2>1, <2>2, <2>3, <2>4, <2>5, <2>6, <2>7, <2>8, <2>9, <2>10 DEF CallNext
<1>3. Inv => EntriesInOneBlock
  BY ApartIsInOneBlock
<1> HIDE DEF Inv
<1> QED
  BY <1>1, <1>2, <1>3, TablesStayIntact, PTL DEF CallSpec
=============================================================================
