------------------------------- MODULE Decorator -------------------------------
(***************************************************************************)
(* The semantic phase (ast_decorator.c) as it drives the symbol table: the *)
(* visit of a program, one declaration or one use of a name at a time.     *)
(* Which declaration or use comes next is the program's text, so it is any *)
(* of those the grammar allows at that point, over small sets of names,    *)
(* constants, type expressions and parameter lists.  Expressions and       *)
(* statements are seen only as the uses of names in them: TreeDecorator    *)
(* has the checks on their types.                                          *)
(***************************************************************************)
EXTENDS Declarations

CONSTANTS ProgramName,        \* the name after "program"
          Vocabularies        \* what programs are made of: records with the sets of
                              \*   constants: the constants declared, and the bounds of ranges
                              \*   types:     the type expressions
                              \*   headings:  the formal parameter lists
                              \*   lists:     the identifier lists of var declarations
                              \*   names:     the names other declarations declare
                              \*   results:   the names of the types functions return
                              \*   uses:      the names used in bodies

VARIABLES vocabulary,         \* the one this program is made of
          sym,                \* the symbol table
          open,               \* the program and the subprograms being visited
          status,             \* "start", "running", "done" or "failed": decorateAst's result
          answer,             \* what the last use of a name was resolved to
          callee              \* what the last call was resolved to

vars == <<vocabulary, sym, open, status, answer, callee>>

-----------------------------------------------------------------------------
(***************************************************************************)
(* The visit.  A context in `open` is the program or a subprogram, and the *)
(* part of its block that is being visited: the parser accepts constants,  *)
(* types, variables and subprograms in this order only, then the body.     *)
(***************************************************************************)
Parts == <<"constants", "types", "variables", "subprograms", "body">>

Context == [entry : Nat, part : 1..Len(Parts)]

Top == open[Len(open)]

NoUse == [name |-> ProgramName, index |-> NoIndex, made |-> FALSE]
Use(name, i) == [name |-> name, index |-> i, made |-> TRUE]

Init ==
    /\ vocabulary \in Vocabularies
    /\ sym = InitialTable
    /\ open = <<>>
    /\ status = "start"
    /\ answer = NoUse /\ callee = NoUse

\* The block's visit is at this part, or may go on to it.
InPart(part) ==
    /\ status = "running"
    /\ Parts[Top.part] # "body"
    /\ Top.part <= part

At(part) == [open EXCEPT ![Len(open)].part = part]

\* On an error every handler returns, each leaving the scope it entered: one for
\* every open subprogram, and one for the body of the program.
OpenScopes == Len(open) - IF open # <<>> /\ Parts[open[1].part] = "body" THEN 0 ELSE 1

Abandon(s) ==
    /\ sym' = FoldLeft(LAMBDA u, k : SymExitScope(u), s, [k \in 1..OpenScopes |-> k])
    /\ open' = <<>>
    /\ status' = "failed"

\* The handler's table, and the contexts it goes on in unless it reported an error.
Outcomes(step, contexts) ==
    IF step.ok
    THEN sym' = step.table /\ open' = contexts /\ status' = "running"
    ELSE Abandon(step.table)

NoUses == answer' = NoUse /\ callee' = NoUse

\* visit, as far as the program's own entry.
VisitProgram ==
    /\ status = "start"
    /\ LET program == SymEnter(sym, ProgramName, "program", "void", NoIndex, 1, 0)
       IN  IF program.index = NoIndex
           THEN sym' = sym /\ open' = <<>> /\ status' = "failed"
           ELSE /\ sym' = program.table
                /\ open' = <<[entry |-> program.index, part |-> 1]>>
                /\ status' = "running"
    /\ NoUses

VisitConstDecl(name, c) ==
    /\ InPart(1)
    /\ Outcomes(DeclareConstant(sym, name, BuildConstant(c)), At(1))
    /\ NoUses

VisitTypeDecl(name, t) ==
    /\ InPart(2)
    /\ Outcomes(DeclareType(sym, name, t), At(2))
    /\ NoUses

\* buildVarDeclaration gives each name of a list its own copy of the type.
VisitVarDecls(names, t) ==
    /\ InPart(3)
    /\ Outcomes(FoldLeft(LAMBDA step, name : Then(step, LAMBDA u : DeclareVariable(u, name, t)),
                         Step(sym, TRUE), names),
                At(3))
    /\ NoUses

\* The subprogram's entry is the first one its heading makes.
VisitHeading(heading) ==
    /\ InPart(4)
    /\ Outcomes(heading, Append(At(4), [entry |-> Len(sym.tab) + 1, part |-> 1]))
    /\ NoUses

VisitProcDecl(name, groups) == VisitHeading(ProcedureHeading(sym, name, groups))

VisitFuncDecl(name, groups, resultName) ==
    VisitHeading(FunctionHeading(sym, name, groups, resultName))

\* The declarations are over.  The body of the program has a scope of its own.
BeginBody ==
    /\ InPart(Len(Parts))
    /\ sym' = IF Len(open) = 1 THEN SymEnterScope(sym) ELSE sym
    /\ open' = At(Len(Parts))
    /\ NoUses
    /\ UNCHANGED status

EndBody ==
    /\ status = "running" /\ Parts[Top.part] = "body"
    /\ sym' = SymExitScope(sym)
    /\ open' = SubSeq(open, 1, Len(open) - 1)
    /\ status' = IF Len(open) = 1 THEN "done" ELSE "running"
    /\ NoUses

-----------------------------------------------------------------------------
(***************************************************************************)
(* Uses of names in a body.                                                *)
(***************************************************************************)
InBody == status = "running" /\ Parts[Top.part] = "body"

\* A use that looked the name up, and either passed its checks or reported an error.
Look(name, legal, s) ==
    /\ answer' = Use(name, SymLookup(sym, name)) /\ callee' = NoUse
    /\ Outcomes(Step(s, legal), open)

IsValue(s, i) == i # NoIndex /\ s.tab[i].obj \in {"variable", "constant"}

Initialised(s, i) == [s EXCEPT !.tab[i].initialized = TRUE]

\* visitVarRef: only a variable of the running level is refused for want of a value.
Reference(name) ==
    LET i == SymLookup(sym, name)
    IN  /\ InBody
        /\ Look(name,
                /\ IsValue(sym, i)
                /\ ~ /\ sym.tab[i].obj = "variable" /\ ~sym.tab[i].initialized
                     /\ sym.tab[i].lev = sym.currentLevel,
                sym)

\* lvalueType of a variable, and markAssigned.
Assign(name) ==
    LET i     == SymLookup(sym, name)
        legal == i # NoIndex /\ sym.tab[i].obj = "variable"
    IN  /\ InBody
        /\ Look(name, legal, IF legal THEN Initialised(sym, i) ELSE sym)

\* visitFor: the counter.
ForCounter(name) ==
    LET i     == SymLookup(sym, name)
        legal == /\ i # NoIndex /\ sym.tab[i].obj = "variable"
                 /\ sym.tab[i].type \in {"integer", "char"}
    IN  /\ InBody
        /\ Look(name, legal, IF legal THEN Initialised(sym, i) ELSE sym)

Call(name) ==
    /\ InBody
    /\ callee' = Use(name, Callee(sym, name)) /\ answer' = NoUse
    /\ Outcomes(Step(sym, Callee(sym, name) # NoIndex), open)

Finished == status \in {"done", "failed"} /\ UNCHANGED vars

Visit ==
    \/ VisitProgram
    \/ \E name \in vocabulary.names :
          \/ \E c \in vocabulary.constants : VisitConstDecl(name, c)
          \/ \E t \in vocabulary.types : VisitTypeDecl(name, t)
          \/ \E groups \in vocabulary.headings : VisitProcDecl(name, groups)
          \/ \E groups \in vocabulary.headings, result \in vocabulary.results :
                VisitFuncDecl(name, groups, result)
    \/ \E names \in vocabulary.lists, t \in vocabulary.types : VisitVarDecls(names, t)
    \/ \E name \in vocabulary.uses :
          Reference(name) \/ Assign(name) \/ ForCounter(name) \/ Call(name)
    \/ BeginBody
    \/ EndBody

Next ==
    \/ Visit /\ UNCHANGED vocabulary
    \/ Finished

Spec == Init /\ [][Next]_vars
=============================================================================
