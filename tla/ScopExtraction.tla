--------------------------- MODULE ScopExtraction ---------------------------
(***************************************************************************)
(* HTROPClient::analyseScop and runScopDetection: which functions hold a   *)
(* SCoP, from where they are called, and a function of its own for every   *)
(* further call.                                                           *)
(*                                                                         *)
(* What ScopDetect does with the memory accesses of a SCoP is not here but *)
(* in ScopBounds, and MCScopDetection composes the two.  A function is     *)
(* named by its name in the module and the number of the copy, 0 for the   *)
(* original.  Bodies of copies are left out: a SCoP holds no calls.        *)
(***************************************************************************)
EXTENDS ParallelDepth

CONSTANTS
  Modules,     (* the modules the client may be given                      *)
  DepthOptions,(* the values of the option maxScopDepth                    *)
  Undefined    (* the value of a member nobody has assigned                *)

(* Of a module: its functions in order, those with a SCoP, those whose     *)
(* name says that they only check results (CHECK_RESULTS_CPU), and the     *)
(* direct calls of every function in the order of the instructions.        *)
ASSUME ModulesAssumption ==
  \A m \in Modules :
    /\ m.functions \in Seq(ToSet(m.functions))
    /\ IsInjective(m.functions)
    /\ DOMAIN m.scop \subseteq ToSet(m.functions)
    /\ m.calls \in [ToSet(m.functions) -> Seq(ToSet(m.functions))]
    /\ Undefined \notin ToSet(m.functions)

(* Of a SCoP: the names in its context, its loads and stores with the      *)
(* loops around them.  No name is empty.                                   *)
ASSUME ScopsAssumption ==
  /\ \A m \in Modules : \A name \in DOMAIN m.scop :
       LET scop == m.scop[name] IN
       /\ scop.names \in Seq(ToSet(scop.names))
       /\ << >> \notin ToSet(scop.names)
       /\ \A i \in ToSet(scop.instructions) : i.loops \in Seq(ToSet(i.loops))
  /\ DepthOptions \subseteq Seq(Int)

VARIABLES
  module,              (* the functions, their SCoPs and calls             *)
  maxScopDepth,        (* depths given by the user, possibly none          *)
  calls,               (* by caller: the functions it calls now            *)
  stage,               (* the loop of analyseScop, or how it ended         *)
  candidates,          (* functions to be analysed, by position in a list  *)
  detecting,           (* the function runOnScop is at, if any             *)
  scopDS,              (* by SCoP function: what was found out about it    *)
  scopList,            (* the SCoP functions that are analysed             *)
  scopFunctionParent,  (* the parent of the SCoP found last                *)
  debug_hand_tune_pos, (* how many of maxScopDepth are used                *)
  repeatedCalls,       (* the calls that get a copy, by position           *)
  seq                  (* the number of the next copy                      *)

extractionVars == <<module, maxScopDepth, calls, stage, candidates, detecting,
                    scopDS, scopList, scopFunctionParent,
                    debug_hand_tune_pos, repeatedCalls, seq>>

Original(name) == [name |-> name, copy |-> 0]
Originals(s)   == [i \in DOMAIN s |-> Original(s[i])]
Names(m)       == ToSet(m.functions)
Callers(m)     == Names(m) \ m.check
HasScop(f)     == f.name \in DOMAIN module.scop
ScopOf(f)      == module.scop[f.name]

ExtractionInit ==
  /\ module \in Modules
  /\ maxScopDepth \in DepthOptions
  /\ calls = [p \in Names(module) |-> Originals(module.calls[p])]
  /\ stage = "functions"
  /\ candidates = Restrict(Originals(module.functions),
                           {i \in DOMAIN module.functions :
                              module.functions[i] \notin module.check})
  /\ detecting = {}
  /\ scopDS = << >>
  /\ scopList = {}
  /\ scopFunctionParent = Undefined
  /\ debug_hand_tune_pos = 0
  /\ repeatedCalls = {}
  /\ seq = 1
-----------------------------------------------------------------------------
CallersOf(f) == {p \in Callers(module) : f \in ToSet(calls[p])}

SeveralParents(f) == \E p, q \in CallersOf(f) : p # q

(* The member scopFunctonParent is not initialised: for a SCoP that is     *)
(* never called it may hold what a pass before left there.                 *)
FoundParents(f) ==
  IF CallersOf(f) = {} THEN Callers(module) \cup {Undefined} ELSE CallersOf(f)

(* max_codegen_loop_depth: found out, given for all SCoPs, or given for    *)
(* each, the last one being used again.                                    *)
max_codegen_loop_depth(f) ==
  CASE maxScopDepth = << >>   -> getMaxCodegenLoopDepth(ScopOf(f).instructions)
    [] Len(maxScopDepth) = 1  -> maxScopDepth[1]
    [] OTHER                  -> maxScopDepth[debug_hand_tune_pos + 1]

NextHandTunePos ==
  IF debug_hand_tune_pos + 1 < Len(maxScopDepth)
  THEN debug_hand_tune_pos + 1 ELSE debug_hand_tune_pos

(* A level whose ScopLoopInfo::nameStr is still empty. *)
Unnamed == << >>

(* Mutant: the bound of the loop that fills the rest is one less. *)
LoopNamesOneLess(names, depth) ==
  [i \in 1 .. depth |->
     CASE i <= Len(names)                 -> names[i]
       [] i > Len(names)
            /\ i - 1 < depth - Len(names) -> names[Len(names)]
       [] OTHER                           -> Unnamed]

(* The names of the context go to the loop levels in order.  If there are  *)
(* too few, the loop that fills the rest with the last name counts levels  *)
(* from the number of names up to depth minus that number.                 *)
LoopNames(names, depth) ==
  [i \in 1 .. depth |->
     CASE i <= Len(names)                  -> names[i]
       [] i > Len(names)
            /\ i - 1 <= depth - Len(names) -> names[Len(names)]
       [] OTHER                            -> Unnamed]
-----------------------------------------------------------------------------
NextPosition  == Min(DOMAIN candidates)
NextCandidate == candidates[NextPosition]
Remaining     == Restrict(candidates, DOMAIN candidates \ {NextPosition})

Working == detecting = {} /\ DOMAIN candidates # {}
Idle    == detecting = {} /\ DOMAIN candidates = {}

Abort ==
  /\ stage' = "aborted"
  /\ UNCHANGED <<module, maxScopDepth, calls, candidates, detecting, scopDS,
                 scopList, scopFunctionParent, debug_hand_tune_pos,
                 repeatedCalls, seq>>

(* A function without a SCoP: runScopDetection returns 1. *)
NoScopFound ==
  /\ stage \in {"functions", "copies"}
  /\ Working
  /\ ~HasScop(NextCandidate)
  /\ candidates' = Remaining
  /\ UNCHANGED <<module, maxScopDepth, calls, stage, detecting, scopDS,
                 scopList, scopFunctionParent, debug_hand_tune_pos,
                 repeatedCalls, seq>>

ScopFound ==
  /\ stage \in {"functions", "copies"}
  /\ Working
  /\ HasScop(NextCandidate)

(* runOnScop up to the loop over the statements. *)
BeginDetection ==
  LET f == NextCandidate
      depth == max_codegen_loop_depth(f)
  IN  /\ ScopFound
      /\ ~EndsProcess(ScopOf(f).instructions)
      /\ ~SeveralParents(f)
      /\ \E parent \in FoundParents(f) :
           scopDS' = [g \in DOMAIN scopDS \cup {f} |->
             IF g = f THEN [parent |-> parent, depth |-> depth,
                            loops |-> LoopNames(ScopOf(f).names, depth)]
                      ELSE scopDS[g]]
      /\ debug_hand_tune_pos' = NextHandTunePos
      /\ detecting' = {f}
      /\ candidates' = Remaining
      /\ UNCHANGED <<module, maxScopDepth, calls, stage, scopList,
                     scopFunctionParent, repeatedCalls, seq>>

(* DepDetect ends the process, or two functions call the SCoP function. *)
DetectionFails ==
  /\ ScopFound
  /\ \/ EndsProcess(ScopOf(NextCandidate).instructions)
     \/ SeveralParents(NextCandidate)
  /\ Abort

(* The rest of runScopDetection, once all accesses are processed. *)
EndDetection ==
  /\ detecting # {}
  /\ scopList' = scopList \cup detecting
  /\ scopFunctionParent' = scopDS[CHOOSE f \in detecting : TRUE].parent
  /\ detecting' = {}
  /\ UNCHANGED <<module, maxScopDepth, calls, stage, candidates, scopDS,
                 debug_hand_tune_pos, repeatedCalls, seq>>
-----------------------------------------------------------------------------
(* Mutant: a call is repeated only if the call right before it is the same. *)
IsRepeatedNext(i, list) == i > 1 /\ list[i] = list[i - 1]

(* The call has been seen before (seenScop). *)
IsRepeated(i, list) == \E j \in 1 .. i - 1 : list[j] = list[i]

(* The loop over the calls of the parent of the SCoP found last. *)
FindRepeatedCalls ==
  /\ stage = "functions" /\ Idle
  /\ scopFunctionParent # Undefined
  /\ LET list == calls[scopFunctionParent]
     IN  repeatedCalls' = {i \in DOMAIN list :
                             list[i] \in scopList /\ IsRepeated(i, list)}
  /\ stage' = "copies"
  /\ UNCHANGED <<module, maxScopDepth, calls, candidates, detecting, scopDS,
                 scopList, scopFunctionParent, debug_hand_tune_pos, seq>>

(* Without a SCoP, or when the last one is never called, the loop runs     *)
(* over a function that is not there.                                      *)
NoParentToSearch ==
  /\ stage = "functions" /\ Idle
  /\ scopFunctionParent = Undefined
  /\ Abort

(* A copy of the function takes the place of the called one, and is itself *)
(* given to runScopDetection.                                              *)
CloneScop ==
  LET at  == Min(repeatedCalls)
      new == [name |-> calls[scopFunctionParent][at].name, copy |-> seq]
  IN  /\ stage = "copies" /\ Idle
      /\ repeatedCalls # {}
      /\ calls' = [calls EXCEPT ![scopFunctionParent][at] = new]
      /\ seq' = seq + 1
      /\ repeatedCalls' = repeatedCalls \ {at}
      /\ candidates' = [position \in {at} |-> new]
      /\ UNCHANGED <<module, maxScopDepth, stage, detecting, scopDS, scopList,
                     scopFunctionParent, debug_hand_tune_pos>>

OneParent == \A f, g \in scopList : scopDS[f].parent = scopDS[g].parent

(* The assertions of analyseScop and analyseScopDependency. *)
ParentsAgree ==
  /\ stage = "copies" /\ Idle
  /\ repeatedCalls = {}
  /\ OneParent
  /\ stage' = "done"
  /\ UNCHANGED <<module, maxScopDepth, calls, candidates, detecting, scopDS,
                 scopList, scopFunctionParent, debug_hand_tune_pos,
                 repeatedCalls, seq>>

ParentsDiffer ==
  /\ stage = "copies" /\ Idle
  /\ repeatedCalls = {}
  /\ ~OneParent
  /\ Abort

ExtractionNext ==
  \/ NoScopFound
  \/ BeginDetection
  \/ DetectionFails
  \/ EndDetection
  \/ FindRepeatedCalls
  \/ NoParentToSearch
  \/ CloneScop
  \/ ParentsAgree
  \/ ParentsDiffer

ExtractionSpec == ExtractionInit /\ [][ExtractionNext]_extractionVars
-----------------------------------------------------------------------------
(* After the analysis no two calls, by whichever functions, call the same  *)
(* SCoP function, those that only check results apart, and every call      *)
(* still calls the original or a copy of it, which has been analysed if it *)
(* has a SCoP (htropclient.cpp:434-486).                                   *)
OwnFunction ==
  stage = "done" =>
    \A p, q \in Callers(module) : \A i \in DOMAIN calls[p], j \in DOMAIN calls[q] :
      /\ calls[p][i].name = module.calls[p][i]
      /\ calls[p][i] = calls[q][j] /\ calls[p][i] \in scopList => p = q /\ i = j
      /\ HasScop(calls[p][i]) /\ calls[p][i].name \notin module.check
           => calls[p][i] \in scopList

(* Every loop level has a name, without which the ScopDependency pass      *)
(* never ends (scopdependency.cpp:219), if the context has one name only,  *)
(* or one for each level (scopdetect.cpp:478-511).                         *)
LevelsNamed ==
  \A f \in scopList :
    Len(ScopOf(f).names) = 1 \/ Len(ScopOf(f).names) >= scopDS[f].depth =>
      Unnamed \notin ToSet(scopDS[f].loops)
=============================================================================
