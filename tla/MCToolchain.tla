------------------------------ MODULE MCToolchain ------------------------------
(***************************************************************************)
(* Instances of the toolchain: the identifiers of every table and the      *)
(* scale of the machine.  The programs are those of ProgramFamilies.       *)
(***************************************************************************)
EXTENDS ProgramFamilies, Toolchain

Permanent(name, obj, type, nrm, adr) ==
    [identifier |-> name, link |-> NoIndex, obj |-> obj, type |-> type, ref |-> NoIndex,
     nrm |-> nrm, lev |-> 0, adr |-> adr, range |-> NoRange, initialized |-> TRUE]

PredefinedNames ==
    <<Permanent("true", "constant", "boolean", 1, 1),
      Permanent("false", "constant", "boolean", 1, 0),
      Permanent("writeln", "procedure", "void", -1, 0),
      Permanent("readln", "procedure", "void", -1, 0),
      Permanent("write", "procedure", "void", -1, 0),
      Permanent("read", "procedure", "void", -1, 0)>>

ScaledBase == -5000

Names == {"true", "false", "writeln", "readln", "write", "read"}
===============================================================================
