---------------------------- MODULE ParallelDepth ----------------------------
(***************************************************************************)
(* DepDetect: how many of the outer loops of a SCoP become dimensions of   *)
(* its kernel.  The pass looks at the loads and stores through an argument *)
(* in the order of the instructions; of each it keeps the loops around it  *)
(* and whether its index is a constant.                                    *)
(***************************************************************************)
EXTENDS Integers, SequencesExt

Loads(instructions)  == SelectSeq(instructions, LAMBDA i : i.kind = "load")
Stores(instructions) == SelectSeq(instructions, LAMBDA i : i.kind = "store")

(* The depth of the loop LoopInfo has for an instruction, 0 for none. *)
LoopDepth(instruction) == Len(instruction.loops)

StoreSet(instructions)    == {i \in ToSet(instructions) : i.kind = "store"}
StoreDepths(instructions) == {LoopDepth(i) : i \in StoreSet(instructions)}

(* A constant index ends the process with "Implement" and exit(0). *)
IndexNotImplemented(instructions) ==
  \E i \in DOMAIN instructions : instructions[i].constant

(* Mutant: the comparison the other way round. *)
maxDepthLoop(instructions) == Max(StoreDepths(instructions) \ {0})

(* The depth of minDepthLoop, once the search over the stores is done.     *)
minDepthLoop(instructions) == Min(StoreDepths(instructions) \ {0})

(* A store outside the loops leaves minDepthLoop NULL as long as it is     *)
(* NULL, and is dereferenced, as NULL, as soon as it is not.               *)
StoreWithoutLoop(instructions) ==
  LET stores == Stores(instructions) IN
  \/ StoreDepths(instructions) \subseteq {0}
  \/ \E i, j \in DOMAIN stores :
       i < j /\ LoopDepth(stores[i]) # 0 /\ LoopDepth(stores[j]) = 0

(* The loads are looked at until one is less deep than minDepthLoop; one   *)
(* outside the loops is dereferenced as NULL.                              *)
LoadWithoutLoop(loads, depth) ==
  LET shallow == SelectSeq(loads, LAMBDA i : LoopDepth(i) < depth)
  IN  shallow # << >> /\ LoopDepth(Head(shallow)) = 0

EndsProcess(instructions) ==
  \/ IndexNotImplemented(instructions)
  \/ StoreWithoutLoop(instructions)
  \/ LoadWithoutLoop(Loads(instructions), minDepthLoop(instructions))

getMaxCodegenLoopDepth(instructions) == minDepthLoop(instructions)
=============================================================================
