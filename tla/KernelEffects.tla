---------------------------- MODULE KernelEffects ----------------------------
(***************************************************************************)
(* What a statement of the program does to memory.  A memory maps every    *)
(* pointer to its elements 1 .. MaxSize.  An element holds the time of its *)
(* last write, so a stale element is told apart from a fresh one, or       *)
(* Undef, the content of device memory nobody has written.                 *)
(***************************************************************************)
EXTENDS Integers, Sequences, TransferTypes

CONSTANTS
  MaxSize,     (* the largest number of elements a statement accesses      *)
  Undef        (* an element nobody has written                            *)

ASSUME MaxSizeAssumption == MaxSize \in Nat
ASSUME UndefAssumption == Undef \notin Nat

Element == 1 .. MaxSize
Data    == Nat \cup {Undef}

ReadBy(u, c) == Reads(u.type) /\ c <= u.size
(* A SCoP with a guard or a border writes only some of the elements.       *)
WrittenBy(u, c) == Writes(u.type) /\ c <= u.size /\ (u.covers \/ c = 1)

(* The memory after statement s has run on it at time t. *)
Effect(m, s, t) ==
  [v \in DOMAIN m |-> [c \in Element |->
     IF \E a \in DOMAIN s.args : s.args[a].value = v /\ WrittenBy(s.args[a], c)
       THEN t ELSE m[v][c]]]

(* What statement s reads in m: argument by argument, element by element.  *)
Observed(m, s) ==
  [a \in DOMAIN s.args |->
     {<<c, m[s.args[a].value][c]>> : c \in {e \in Element : ReadBy(s.args[a], e)}}]
=============================================================================
