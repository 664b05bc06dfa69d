---------------------------- MODULE KernelService ----------------------------
(***************************************************************************)
(* What the code generation promises a client: in every run of its program *)
(* it waits for kernels, and the application then runs with those made of  *)
(* its own SCoPs.  There is no server here, and no client knows of another.*)
(***************************************************************************)
EXTENDS Integers

CONSTANTS
  Clients,
  Program,      (* the code of the SCoPs of each                           *)
  ProgramRuns,  (* the runs of each                                        *)
  None          (* no kernels                                              *)

VARIABLES
  state,        (* "waiting", "running" or "ended"                         *)
  run,          (* the number of the run                                   *)
  kernels       (* what the application runs with                          *)

vars == <<state, run, kernels>>

Init ==
  /\ state = [c \in Clients |-> "waiting"]
  /\ run = [c \in Clients |-> 1]
  /\ kernels = [c \in Clients |-> None]

Serve(c) ==
  /\ state[c] = "waiting"
  /\ state' = [state EXCEPT ![c] = "running"]
  /\ kernels' = [kernels EXCEPT ![c] = [info |-> Program[c], code |-> Program[c]]]
  /\ UNCHANGED run

RunAgain(c) ==
  /\ state[c] = "running" /\ run[c] < ProgramRuns
  /\ state' = [state EXCEPT ![c] = "waiting"]
  /\ run' = [run EXCEPT ![c] = @ + 1]
  /\ kernels' = [kernels EXCEPT ![c] = None]

(* A client may end at any time, served or not. *)
End(c) ==
  /\ state[c] # "ended"
  /\ state' = [state EXCEPT ![c] = "ended"]
  /\ kernels' = [kernels EXCEPT ![c] = None]
  /\ UNCHANGED run

Next == \E c \in Clients : Serve(c) \/ RunAgain(c) \/ End(c)

Spec == Init /\ [][Next]_vars
=============================================================================
