-------------------------------- MODULE Meaning --------------------------------
(***************************************************************************)
(* What an Arion program means, as an interpreter of the tree as it was    *)
(* written: names are looked up in nested scopes, variables are cells that *)
(* hold whole arrays and records, and nothing is known of tables, frames,  *)
(* addresses or instructions.  It is what the decorator, the generator and *)
(* the machine together are compared with.                                 *)
(*                                                                         *)
(* A state is the cells, the output, the error that ended the program and  *)
(* the value of the expression evaluated last.  A scope maps names to what *)
(* they stand for; an environment is a sequence of scopes, innermost last, *)
(* and a subprogram remembers the environment it was declared in.          *)
(***************************************************************************)
EXTENDS Operations, SyntaxTree, SequencesExt

Start == [cells |-> <<>>, output |-> <<>>, error |-> NoError, value |-> None]

\* After an error nothing happens any more.
After(state, Rest(_)) == IF state.error = NoError THEN Rest(state) ELSE state

Giving(state, outcome) == [state EXCEPT !.error = outcome.error, !.value = outcome.value]
Failing(state, kind)   == [state EXCEPT !.error = kind]

-----------------------------------------------------------------------------
(***************************************************************************)
(* Names and types.                                                        *)
(***************************************************************************)
ConstantBinding(value)    == [kind |-> "const", value |-> value]
VariableBinding(at, type) == [kind |-> "var", at |-> at, type |-> type]
TypeBinding(type)         == [kind |-> "type", type |-> type]
SubprogramBinding(node, env) == [kind |-> "sub", node |-> node, env |-> env]

Bind(env, name, binding) == [env EXCEPT ![Len(env)] = (name :> binding) @@ @]

Find(env, name, kinds) ==
    LET known == {k \in DOMAIN env : name \in DOMAIN env[k] /\ env[k][name].kind \in kinds}
    IN  env[Max(known)][name]

Unbounded == <<>>
Scalar(type, bounds) == [kind |-> "scalar", type |-> type, bounds |-> bounds]

OutermostScope ==
    <<[name \in {"integer", "real", "boolean", "char", "string"} |->
          TypeBinding(Scalar(name, Unbounded))]
      @@ ("true" :> ConstantBinding(Boolean(TRUE)))
      @@ ("false" :> ConstantBinding(Boolean(FALSE)))>>

LiteralMeaning(node) ==
    LET sign == IF node.negative THEN -1 ELSE 1
    IN  [type |-> node.type,
         v |-> CASE node.type = "integer" -> sign * node.value
                 [] node.type = "real"    -> <<sign * node.value[1], node.value[2]>>
                 [] OTHER                 -> node.value]

\* A minus sign before the name of a constant has no effect in a declaration.
ConstantMeaning(env, node) ==
    IF node.kind = "literal" THEN LiteralMeaning(node)
    ELSE Find(env, node.name, {"const"}).value

RECURSIVE EnumerationsIn(_), TypeMeaning(_, _), InitialValue(_)

EnumerationsIn(t) ==
    CASE t.kind = "enumerated" -> <<t.names>>
      [] t.kind = "array"      -> EnumerationsIn(t.index) \o EnumerationsIn(t.element)
      [] t.kind = "record"     ->
           FlattenSeq([k \in DOMAIN t.fields |-> EnumerationsIn(t.fields[k].type)])
      [] OTHER                 -> <<>>

\* The names of an enumeration are constants wherever the type is written.
BindEnumerations(env, t) ==
    FoldLeft(LAMBDA inner, names :
                FoldLeftDomain(LAMBDA e, k : Bind(e, names[k], ConstantBinding(Integer(k - 1))),
                               inner, names),
             env, EnumerationsIn(t))

BoundsOf(type) ==
    IF type.bounds # Unbounded THEN type.bounds ELSE <<0, 1>>

TypeMeaning(env, t) ==
    CASE t.kind = "name"  -> Find(env, t.name, {"type"}).type
      [] t.kind = "range" ->
           LET low == ConstantMeaning(env, t.low)
           IN  Scalar(low.type, <<low.v, ConstantMeaning(env, t.high).v>>)
      [] t.kind = "enumerated" -> Scalar("integer", <<0, Len(t.names) - 1>>)
      [] t.kind = "array" ->
           [kind |-> "array", bounds |-> BoundsOf(TypeMeaning(env, t.index)),
            element |-> TypeMeaning(env, t.element)]
      [] t.kind = "record" ->
           [kind |-> "record",
            fields |-> FoldLeft(LAMBDA fields, part :
                          [name \in ToSet(part.names) |-> TypeMeaning(env, part.type)] @@ fields,
                          <<>>, t.fields)]

InitialValue(type) ==
    CASE type.kind = "scalar" -> None
      [] type.kind = "array"  ->
           [k \in type.bounds[1]..type.bounds[2] |-> InitialValue(type.element)]
      [] type.kind = "record" ->
           [name \in DOMAIN type.fields |-> InitialValue(type.fields[name])]

-----------------------------------------------------------------------------
(***************************************************************************)
(* Places: a cell, a path into it, and the type of what is there.          *)
(***************************************************************************)
RECURSIVE Updated(_, _, _)

Updated(whole, path, value) ==
    IF path = <<>> THEN value
    ELSE [whole EXCEPT ![Head(path)] = Updated(@, Tail(path), value)]

Contents(state, place) ==
    FoldLeft(LAMBDA whole, part : whole[part], state.cells[place.at], place.path)

Assigned(state, place, value) ==
    [state EXCEPT !.cells[place.at] = Updated(@, place.path, value)]

\* A scalar must have a value to be read; arrays and records are copied as they are.
Reading(state, place) ==
    LET value == Contents(state, place)
    IN  IF place.type.kind = "scalar" /\ value = None
        THEN Failing(state, "Loaded value is uninitialized")
        ELSE [state EXCEPT !.value = value]

RECURSIVE Evaluate(_, _, _), Locate(_, _, _)

Into(at, part, type) == [at EXCEPT !.value.path = Append(@, part), !.value.type = type]

\* The element with this index, `key` being the state its evaluation left.
Element(at, array, key) ==
    CASE key.error # NoError -> key
      [] key.error = NoError /\ key.value.v \in array.bounds[1]..array.bounds[2] ->
           Into(at, key.value.v, array.element)
      [] OTHER -> Failing(at, "IndexOutOfBoundsException")

WholeVariable(variable) == [at |-> variable.at, path |-> <<>>, type |-> variable.type]

\* The place a name, a field or an element stands for, as the state's value.
Locate(env, state, node) ==
    CASE node.kind = "name" ->
           [state EXCEPT !.value = WholeVariable(Find(env, node.name, {"var", "const"}))]
      [] node.kind = "field" ->
           After(Locate(env, state, node.base), LAMBDA s :
              Into(s, node.field, s.value.type.fields[node.field]))
      [] node.kind = "element" ->
           FoldLeft(LAMBDA at, index : After(at, LAMBDA s :
                       Element(s, s.value.type, Evaluate(env, s, index))),
                    Locate(env, state, node.base), node.indexes)

RECURSIVE TargetType(_, _)

TargetType(env, node) ==
    CASE node.kind = "name"    -> Find(env, node.name, {"var", "const"}).type
      [] node.kind = "field"   -> TargetType(env, node.base).fields[node.field]
      [] node.kind = "element" ->
           FoldLeft(LAMBDA type, index : type.element, TargetType(env, node.base), node.indexes)

\* A value on its way into a variable of this type: its range, and integers to reals.
Guarded(state, type) ==
    LET value == state.value
    IN  CASE type.kind = "scalar" /\ type.bounds # Unbounded
               /\ value.v \notin type.bounds[1]..type.bounds[2] ->
               Failing(state, "RangeCheckException")
          [] type.kind = "scalar" /\ type.type = "real" /\ value.type = "integer" ->
               Giving(state, ToReal(value))
          [] OTHER -> state

-----------------------------------------------------------------------------
(***************************************************************************)
(* Expressions and calls.                                                  *)
(***************************************************************************)
CodeOfOperator ==
    [plus |-> OPR_ADD, minus |-> OPR_SUB, times |-> OPR_MUL, idiv |-> OPR_DIV,
     rdiv |-> OPR_RDIV, imod |-> OPR_MOD, eql |-> OPR_EQL, neq |-> OPR_NEQ,
     lss |-> OPR_LSS, leq |-> OPR_LEQ, gtr |-> OPR_GTR, geq |-> OPR_GEQ]

RECURSIVE Invoke(_, _, _, _)

ResultType(self, node) ==
    IF node.kind = "function" THEN TypeMeaning(self, TypeNameNode(node.result))
    ELSE Scalar("none", Unbounded)

\* The error of a program that takes an array or a record for one value, or compares a
\* selector with a label of another kind: it is accepted, and means nothing.
Senseless == "Senseless"

\* A place, or the result of a call, that is an array or a record.
IsWhole(env, node) ==
    CASE node.kind = "name" ->
           LET found == Find(env, node.name, {"var", "const"})
           IN  found.kind = "var" /\ found.type.kind # "scalar"
      [] node.kind \in {"field", "element"} -> TargetType(env, node).kind # "scalar"
      [] node.kind = "apply" ->
           LET found == Find(env, node.name, {"sub"})
           IN  ResultType(found.env, found.node).kind # "scalar"
      [] OTHER -> FALSE

\* An expression where one value is expected.
EvaluateOne(env, state, node) ==
    IF IsWhole(env, node) THEN Failing(state, Senseless) ELSE Evaluate(env, state, node)

\* The right operand of and and or is evaluated only if the left one does not decide.
EvaluateBinary(env, state, node) ==
    After(EvaluateOne(env, state, node.left), LAMBDA s :
       IF node.op \in BooleanOperators
       THEN IF (node.op = "orsy") = (s.value.v = 1) THEN s ELSE Evaluate(env, s, node.right)
       ELSE After(EvaluateOne(env, s, node.right), LAMBDA u :
               Giving(u, Outcome(CodeOfOperator[node.op], <<s.value, u.value>>))))

EvaluateUnary(env, state, node) ==
    After(Evaluate(env, state, node.operand), LAMBDA s :
       Giving(s, IF node.op = "not" THEN Result(Boolean(s.value.v = 0)) ELSE Negated(s.value)))

Evaluate(env, state, node) ==
    CASE node.kind = "literal" -> [state EXCEPT !.value = LiteralMeaning(node)]
      [] node.kind = "name" /\ Find(env, node.name, {"var", "const"}).kind = "const" ->
           [state EXCEPT !.value = Find(env, node.name, {"const"}).value]
      [] node.kind = "apply" -> Invoke(env, state, node.name, node.arguments)
      [] node.kind = "binop" -> EvaluateBinary(env, state, node)
      [] node.kind = "unop"  -> EvaluateUnary(env, state, node)
      [] OTHER -> After(Locate(env, state, node), LAMBDA s : Reading(s, s.value))

RECURSIVE Execute(_, _, _), Elaborate(_, _, _)

\* A new variable in the innermost scope.
NewVariable(env, state, name, type, value) ==
    [env   |-> Bind(env, name, VariableBinding(Len(state.cells) + 1, type)),
     state |-> [state EXCEPT !.cells = Append(@, value)]]

\* The names and types of the parameters, in their order.
Formals(env, groups) ==
    FlattenSeq([k \in DOMAIN groups |->
        [j \in DOMAIN groups[k].names |->
            <<groups[k].names[j], TypeMeaning(env, groups[k].type)>>]])

\* The arguments from left to right, each guarded; the values are collected.
EvaluateArguments(env, state, formals, arguments) ==
    FoldLeftDomain(LAMBDA done, k :
        After(done, LAMBDA s :
           After(Evaluate(env, s, arguments[k]), LAMBDA u :
              After(Guarded(u, formals[k][2]), LAMBDA v :
                 [v EXCEPT !.value = Append(s.value, v.value)]))),
        [state EXCEPT !.value = <<>>], arguments)

\* The scope of the call, where the name of a function is its result.
WithResult(self, state, node, type) ==
    [NewVariable(Append(self, <<>>), state, node.name, type, InitialValue(type))
        EXCEPT !.env = IF node.kind = "function" THEN @ ELSE Append(self, <<>>)]

WithParameters(at, formals, values) ==
    FoldLeftDomain(LAMBDA inner, k :
                      NewVariable(inner.env, inner.state, formals[k][1], formals[k][2], values[k]),
                   at, formals)

ElaborateAll(at, declarations) ==
    FoldLeft(LAMBDA inner, d : Elaborate(inner.env, inner.state, d), at, declarations)

RunIn(at, body) == Execute(at.env, at.state, body)

\* The variables of the subprogram live as long as it runs.
Answering(node, done, cells, answer) ==
    IF node.kind = "function" /\ answer = None
    THEN Failing(done, "Function return value is uninitialized")
    ELSE [done EXCEPT !.cells = SubSeq(@, 1, cells), !.value = answer]

Returned(node, done, cells) ==
    After(done, LAMBDA s : Answering(node, s, cells, s.cells[cells + 1]))

RunCall(self, node, formals, given) ==
    Returned(node,
        RunIn(ElaborateAll(WithParameters(WithResult(self, given, node, ResultType(self, node)),
                                          formals, given.value),
                           node.declarations),
              node.body),
        Len(given.cells))

InvokeWith(env, state, self, node, formals, arguments) ==
    After(EvaluateArguments(env, state, formals, arguments),
          LAMBDA given : RunCall(self, node, formals, given))

InvokeIn(env, state, self, node, arguments) ==
    InvokeWith(env, state, self, node, Formals(self, node.groups), arguments)

InvokeFound(env, state, sub, arguments) ==
    InvokeIn(env, state, Bind(sub.env, sub.node.name, sub), sub.node, arguments)

\* A call of the subprogram the name stands for.
Invoke(env, state, name, arguments) ==
    InvokeFound(env, state, Find(env, name, {"sub"}), arguments)

-----------------------------------------------------------------------------
(***************************************************************************)
(* Declarations and statements.                                            *)
(***************************************************************************)
Elaborate(env, state, node) ==
    LET At(e) == [env |-> e, state |-> state]
    IN  CASE node.kind = "const" ->
               At(Bind(env, node.name, ConstantBinding(ConstantMeaning(env, node.value))))
          [] node.kind = "type" ->
               LET inner == BindEnumerations(env, node.type)
               IN  At(Bind(inner, node.name, TypeBinding(TypeMeaning(inner, node.type))))
          [] node.kind = "var" ->
               LET inner == BindEnumerations(env, node.type)
                   type  == TypeMeaning(inner, node.type)
               IN  NewVariable(inner, state, node.name, type, InitialValue(type))
          [] OTHER -> At(Bind(env, node.name, SubprogramBinding(node, env)))

ExecuteAll(env, state, nodes) ==
    FoldLeft(LAMBDA done, node : After(done, LAMBDA s : Execute(env, s, node)), state, nodes)

\* The source first, then its range, then the place it goes to.
ExecuteAssign(env, state, target, source) ==
    After(Evaluate(env, state, source), LAMBDA s :
       After(Guarded(s, TargetType(env, target)), LAMBDA u :
          After(Locate(env, u, target), LAMBDA v : Assigned(v, v.value, u.value))))

ExecuteWrite(env, state, node) ==
    LET newline == node.name = "writeln"
        count   == Len(node.arguments)
        Write(done, k) ==
            After(done, LAMBDA s :
               After(EvaluateOne(env, s, node.arguments[k]), LAMBDA u :
                  [u EXCEPT !.output = Append(@,
                      [value |-> u.value, newline |-> newline /\ k = count])]))
    IN  IF count = 0 /\ newline
        THEN [state EXCEPT !.output = Append(@, [value |-> String(<<>>), newline |-> TRUE])]
        ELSE FoldLeftDomain(Write, state, node.arguments)

RECURSIVE While(_, _, _), Repeat(_, _, _), Count(_, _, _, _)

While(env, state, node) ==
    After(Evaluate(env, state, node.condition), LAMBDA s :
       IF s.value.v = 0 THEN s
       ELSE After(Execute(env, s, node.body), LAMBDA u : While(env, u, node)))

Repeat(env, state, node) ==
    After(ExecuteAll(env, state, node.body), LAMBDA s :
       After(Evaluate(env, s, node.condition), LAMBDA u :
          IF u.value.v = 1 THEN u ELSE Repeat(env, u, node)))

\* The rounds of a for loop, the counter being in its cell.
Within(node, n, limit) == IF node.down THEN n >= limit ELSE n <= limit

Stepped(state, counter, n) ==
    After(Guarded([state EXCEPT !.value = [type |-> counter.type.type, v |-> n]], counter.type),
          LAMBDA s : Assigned(s, counter, s.value))

CountOn(env, state, node, limit, counter, n) ==
    IF ~Within(node, n, limit) THEN state
    ELSE After(Stepped(state, counter, n), LAMBDA s : Count(env, s, node, limit))

Round(env, state, node, limit, counter) ==
    IF ~Within(node, Contents(state, counter).v, limit) THEN state
    ELSE After(Execute(env, state, node.body), LAMBDA s :
            CountOn(env, s, node, limit, counter,
                    Contents(s, counter).v + IF node.down THEN -1 ELSE 1))

Count(env, state, node, limit) ==
    Round(env, state, node, limit, WholeVariable(Find(env, node.name, {"var", "const"})))

\* The first value is assigned, then the limit is evaluated, once.
ExecuteFor(env, state, node) ==
    After(ExecuteAssign(env, state, NameNode(node.name), node.from), LAMBDA s :
       After(Evaluate(env, s, node.to), LAMBDA u : Count(env, u, node, u.value.v)))

\* The labels in their order, each with the statement it stands before.
Tries(node) ==
    FlattenSeq([b \in DOMAIN node.blocks |->
        [k \in DOMAIN node.blocks[b].labels |->
            [label |-> node.blocks[b].labels[k], statement |-> node.blocks[b].statement]]])

\* The first label that is equal to the selector decides, unless one before it cannot be
\* compared.
ExecuteCase(env, state, node) ==
    After(EvaluateOne(env, state, node.selector), LAMBDA s :
       LET Equal(try) == Comparison(OPR_EQL, s.value, ConstantMeaning(env, try.label))
           first      == SelectInSeq(Tries(node), LAMBDA try :
                            Equal(try).error # NoError \/ Equal(try).value.v = 1)
       IN  CASE first = 0 -> s
             [] first # 0 /\ Equal(Tries(node)[first]).error # NoError -> Failing(s, Senseless)
             [] OTHER -> Execute(env, s, Tries(node)[first].statement))

Execute(env, state, node) ==
    CASE node.kind = "empty"    -> state
      [] node.kind = "compound" -> ExecuteAll(env, state, node.statements)
      [] node.kind = "assign"   -> ExecuteAssign(env, state, node.target, node.source)
      [] node.kind = "if" ->
           After(Evaluate(env, state, node.condition), LAMBDA s :
              IF s.value.v = 1 THEN Execute(env, s, node.branches[1])
              ELSE ExecuteAll(env, s, Tail(node.branches)))
      [] node.kind = "while"    -> While(env, state, node)
      [] node.kind = "repeat"   -> Repeat(env, state, node)
      [] node.kind = "for"      -> ExecuteFor(env, state, node)
      [] node.kind = "case"     -> ExecuteCase(env, state, node)
      [] node.kind = "call" ->
           IF node.name \in {"write", "writeln"} THEN ExecuteWrite(env, state, node)
           ELSE Invoke(env, state, node.name, node.arguments)

\* The state a program ends in.
Meant(program) ==
    RunIn(ElaborateAll([env |-> Append(OutermostScope, <<>>), state |-> Start],
                       program.declarations),
          program.body)
=============================================================================
