------------------------------- MODULE Toolchain -------------------------------
(***************************************************************************)
(* The fourth mode of main.c: a program's tree is decorated, code is       *)
(* generated from the decorated tree, and the machine executes the code.   *)
(* Each phase is entered only if the one before it had no error.           *)
(*                                                                         *)
(* The properties are about the phases together: what the decorator lets   *)
(* pass the generator can translate, and what the machine then does is     *)
(* what the program means.                                                 *)
(***************************************************************************)
EXTENDS CodeGenerator

CONSTANTS Programs,           \* name -> the tree of a program, as the parser leaves it
          MaxStack,           \* STACK_MACHINE_DEFAULT_MAX_STACK
          MaxCallDepth,       \* STACK_MACHINE_DEFAULT_MAX_CALL_DEPTH
          Canary              \* STACK_MACHINE_FRAME_CANARY

VARIABLES prog, pc, stack, memory, frame, display, callDepth, output, stopped,
          error, result, suspended,
          phase               \* "parsed", "decorated", "generated"; "rejected", "refused"

\* The decorated trees, and the instruction lists of those that are accepted: they
\* become the machine's programs.
EachDecorated(programs) ==
    Tabulated([name \in DOMAIN programs |-> DecorateAst(programs[name])])

Decorated == EachDecorated(Programs)

CodeOf(decorated) ==
    IF decorated.ok THEN Generate(ContextOf(decorated.table, decorated.node)) ELSE NoCode

Compiled == Tabulated([name \in DOMAIN Programs |-> CodeOf(Decorated[name])])

\* The machine executes what the generator made.
Machine == INSTANCE FrameDiscipline WITH Library <- Compiled

Reference == INSTANCE Meaning

machineVars == <<prog, pc, stack, memory, frame, display, callDepth, output, stopped,
                 error, result, suspended>>

toolchainVars == <<machineVars, phase>>

ToolchainInit == Machine!TrackedInit /\ phase = "parsed"

Decorate ==
    /\ phase = "parsed"
    /\ phase' = IF Decorated[prog].ok THEN "decorated" ELSE "rejected"
    /\ UNCHANGED machineVars

GenerateCode ==
    /\ phase = "decorated"
    /\ phase' = IF Compiled[prog] = NoCode THEN "refused" ELSE "generated"
    /\ UNCHANGED machineVars

Run ==
    /\ phase = "generated"
    /\ Machine!TrackedNext
    /\ UNCHANGED phase

\* Nothing follows an error of a phase.
Reported ==
    /\ phase \in {"rejected", "refused"}
    /\ UNCHANGED toolchainVars

ToolchainNext == Decorate \/ GenerateCode \/ Run \/ Reported

ToolchainSpec ==
    ToolchainInit /\ [][ToolchainNext]_toolchainVars /\ WF_toolchainVars(ToolchainNext)

-----------------------------------------------------------------------------
(***************************************************************************)
(* Properties.                                                             *)
(***************************************************************************)

\* Outputs are the same if their values are: a fraction has several forms.
SameValue(x, y) ==
    /\ x.type = y.type
    /\ IF x.type = "real" THEN Same(x.v, y.v) ELSE x.v = y.v

SameOutput(one, other) ==
    /\ Len(one) = Len(other)
    /\ \A k \in DOMAIN one :
          /\ SameValue(one[k].value, other[k].value)
          /\ one[k].newline = other[k].newline

Meant == Reference!Meant(Programs[prog])

\* What a program writes and ends with, and what it means: one that stops having a
\* meaning somewhere has it up to there.
EndsAs(meant) ==
    IF meant.error = Reference!Senseless
    THEN /\ Len(meant.output) <= Len(output)
         /\ SameOutput(SubSeq(output, 1, Len(meant.output)), meant.output)
    ELSE error = meant.error /\ SameOutput(output, meant.output)

\* An accepted program writes what it means and ends as it means to, for every way
\* of nesting scopes, levels, calls and loops: the entries, slots, jumps and checks
\* the three phases agree on without a common definition do agree.
MeaningPreserved == result # "running" => EndsAs(Meant)

\* What the semantic phase accepts the generator translates: every check of the
\* generator repeats one of the decorator (but read has no instruction).
AcceptedIsGenerated == phase # "refused"

\* Every way through the code of a program, taken in a run or not, brings as many
\* operands to a line as every other, and as many as the line needs: jumps around
\* branches, checks and subprograms, the slots of parameters and results and the
\* pops of results nobody wants fit together.  Only the array or record a function
\* returns does not, where one value is taken.
GeneratedIsBalanced ==
    phase = "generated" /\ pc = 0 =>
        \/ IsBalanced(Compiled[prog], HeightsOf(Compiled[prog]))
        \/ Meant.error = Reference!Senseless

\* A program the semantic phase lets pass is not refused by the generator and never
\* stops the machine with an error that is not the program's own: the tree has its
\* marks, operands have the types the opcodes want, the stack is balanced.  The
\* semantic phase has reports for operands and labels of types that do not go
\* together (ast_decorator.c).
AcceptedRuns == phase # "refused" /\ Machine!NoMachineFault


\* Every program comes to its report.
Finishes == <>(phase \in {"rejected", "refused"} \/ result # "running")
=============================================================================
