-------------------------- MODULE SequentialProgram --------------------------
(***************************************************************************)
(* What the application means before HTrOP rewrites it: the function that  *)
(* calls the SCoPs runs its statements one after the other on host memory, *)
(* and the application calls that function Frames times.                   *)
(***************************************************************************)
EXTENDS KernelEffects

CONSTANTS
  Values,    (* the pointers of the program                                 *)
  Programs,  (* the statement lists it may be                              *)
  Frames     (* how often the application calls the function               *)

VARIABLES
  program,   (* the statements                                             *)
  pc,        (* the next statement                                         *)
  frame,     (* the call of the function                                   *)
  mem,       (* host memory                                                *)
  seen       (* what the last statement read                               *)

vars == <<program, pc, frame, mem, seen>>

Init ==
  /\ program \in Programs
  /\ pc = 1
  /\ frame = 1
  /\ mem = [v \in Values |-> [c \in Element |-> 0]]
  /\ seen = << >>

Execute ==
  /\ pc <= Len(program)
  /\ mem' = Effect(mem, program[pc], frame * Len(program) + pc)
  /\ seen' = Observed(mem, program[pc])
  /\ pc' = pc + 1
  /\ UNCHANGED <<program, frame>>

CallAgain ==
  /\ pc > Len(program)
  /\ frame < Frames
  /\ pc' = 1
  /\ frame' = frame + 1
  /\ UNCHANGED <<program, mem, seen>>

Next == Execute \/ CallAgain

Spec == Init /\ [][Next]_vars
=============================================================================
