--------------------------- MODULE MCCodeGenProtocol ---------------------------
(***************************************************************************)
(* Two clients whose SCoPs are called from functions of different names,   *)
(* or of the same one, and that run different programs, or the same one.   *)
(***************************************************************************)
EXTENDS CodeGenProtocol

CONSTANTS c1, c2

MCClients == {c1, c2}

DifferentNames == [c \in MCClients |-> IF c = c1 THEN "main" ELSE "process"]
SameName       == [c \in MCClients |-> "main"]

DifferentPrograms == [c \in MCClients |-> IF c = c1 THEN "gauss" ELSE "grey"]
SameProgram       == [c \in MCClients |-> "gauss"]
=============================================================================
