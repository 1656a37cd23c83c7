-------------------------------- MODULE Scopes --------------------------------
(***************************************************************************)
(* What the symbol table promises: a stack of scopes, each a mapping from  *)
(* the names declared in it to their declarations.  The first scope holds  *)
(* the predefined names.  A name is looked up from the innermost scope     *)
(* outwards; a scope that is left takes its declarations with it.          *)
(***************************************************************************)
EXTENDS Integers, SequencesExt

CONSTANT Predeclared          \* the outermost scope

VARIABLES scopes,             \* the scopes, outermost first
          answer              \* the last name looked up and its declaration, 0 for none

vars == <<scopes, answer>>

NoLookup == <<>>

\* Every declaration made so far that can still be seen.
Declarations(stack) == UNION {{stack[k][n] : n \in DOMAIN stack[k]} : k \in DOMAIN stack}

\* Scope k of a stack with more declarations in it, of new names and none of them seen
\* before; the scopes around it are as they were.
Extends(old, new, k) ==
    /\ SubSeq(new, 1, k - 1) = SubSeq(old, 1, k - 1)
    /\ DOMAIN old[k] \subseteq DOMAIN new[k]
    /\ \A n \in DOMAIN old[k] : new[k][n] = old[k][n]
    /\ \A n \in DOMAIN new[k] \ DOMAIN old[k] : new[k][n] \notin Declarations(old)

Lookup(name) ==
    LET at == {k \in DOMAIN scopes : name \in DOMAIN scopes[k]}
    IN  IF at = {} THEN 0 ELSE scopes[CHOOSE k \in at : \A j \in at : j <= k][name]

Init ==
    /\ scopes = <<Predeclared, <<>>>>
    /\ answer = NoLookup

\* Names are declared in the innermost scope.
Declares(old, new) == Len(new) = Len(old) /\ Extends(old, new, Len(old))

\* A subprogram is declared, and a scope of its own entered.
Enters(old, new) == Len(new) = Len(old) + 1 /\ Extends(old, new, Len(old))

Leaves(old, new) == Len(old) > 2 /\ new = Front(old)

\* An error: the scopes inside the global one are left, and nothing follows.
Abandons(old, new) == Len(new) = 2 /\ Extends(old, new, 2)

\* The stacks are bound so that a refinement mapping is evaluated once in a step.
Change ==
    /\ answer' = NoLookup
    /\ \E old \in {scopes}, new \in {scopes'} :
          Declares(old, new) \/ Enters(old, new) \/ Leaves(old, new)

Answers == answer' # NoLookup /\ answer'[2] = Lookup(answer'[1])

LookUp ==
    /\ Answers
    /\ UNCHANGED scopes

Abandon ==
    /\ answer' = NoLookup \/ Answers
    /\ \E old \in {scopes}, new \in {scopes'} : Abandons(old, new)

Next == LookUp \/ Change \/ Abandon

Spec == Init /\ [][Next]_vars
=============================================================================
