-------------------------- MODULE KernelGeneration --------------------------
(***************************************************************************)
(* From an analysed SCoP to a kernel: sendCodeGenReq tells the server how  *)
(* many loops to take from each function, OpenCLCBackend makes the outer   *)
(* loops dimensions of the kernel, and the client starts as many work      *)
(* items as the arguments that bound these loops say.                      *)
(*                                                                         *)
(* The function of a SCoP has a nest of loops, from the one LoopInfo       *)
(* begins with along the first subloop of each.  Loops begin at 0 and end  *)
(* below an argument of the function, or below something else.  The        *)
(* transport of request and answer is in CodeGenProtocol.                  *)
(***************************************************************************)
EXTENDS ScopExtraction

CONSTANTS
  CodegenOptions,   (* the values of the option maxCogeGenLoopDepth        *)
  NameOrder,        (* the names of the functions in alphabetical order    *)
  NoArgument        (* the limit of a loop that no argument bounds         *)

ASSUME GenerationAssumption ==
  /\ \A depths \in CodegenOptions : depths \in Seq(1 .. 3)
  /\ \A m \in Modules : Names(m) \subseteq ToSet(NameOrder)

VARIABLES
  maxCogeGenLoopDepth, (* depths given by the user, possibly none          *)
  generation,          (* "none", "requested", "answered" or "aborted"     *)
  scoplist,            (* the request: by position a function and a depth  *)
  scopfunctions        (* the answer: the arguments that bound dimensions  *)

generationVars == <<maxCogeGenLoopDepth, generation, scoplist, scopfunctions>>

GenerationInit ==
  /\ maxCogeGenLoopDepth \in CodegenOptions
  /\ generation = "none"
  /\ scoplist = << >>
  /\ scopfunctions = << >>

(* The loops around an instruction are different ones, and a loop of the   *)
(* nest of a SCoP is bounded by an argument of it if by any.               *)
ASSUME NestsAssumption ==
  \A m \in Modules : \A name \in DOMAIN m.scop :
    LET scop == m.scop[name] IN
    /\ scop.nest \in Seq(ToSet(scop.nest))
    /\ \A i \in ToSet(scop.instructions) : IsInjective(i.loops)
    /\ \A loop \in ToSet(scop.nest) : loop.limit \in ToSet(scop.params) \cup {NoArgument}

(* The order of a std::map; the name of a copy is that of the original and *)
(* the number of the copy.                                                 *)
Before(f, g) ==
  LET Position(name) == CHOOSE i \in DOMAIN NameOrder : NameOrder[i] = name
  IN  \/ Position(f.name) < Position(g.name)
      \/ f.name = g.name /\ f.copy < g.copy

(* max_codegen_loop_depth of the k-th SCoP of the request.                 *)
CodegenDepth(f, k) ==
  CASE maxCogeGenLoopDepth = << >>      -> scopDS[f].depth
    [] k <= Len(maxCogeGenLoopDepth)    -> maxCogeGenLoopDepth[k]
    [] OTHER                            -> Last(maxCogeGenLoopDepth)

(* The functions of scopList in their order: there is just one such list.  *)
sendCodeGenReq ==
  \E list \in [1 .. Cardinality(scopList) -> scopList] :
    /\ stage = "done" /\ generation = "none"
    /\ \A i, j \in DOMAIN list : i < j => Before(list[i], list[j])
    /\ generation' = "requested"
    /\ scoplist' = [k \in DOMAIN list |->
                      [fn |-> list[k], depth |-> CodegenDepth(list[k], k)]]
    /\ UNCHANGED <<maxCogeGenLoopDepth, scopfunctions, extractionVars>>

(* The loops that become dimensions of the kernel of the next function. *)
Wanted     == scoplist[Len(scopfunctions) + 1]
NestOf(f)  == ScopOf(f).nest
Converted(f, depth) == SubSeq(NestOf(f), 1, Min({depth, Len(NestOf(f))}))

(* generateOpenCLCode for one function. *)
GenerateKernel ==
  LET loops == Converted(Wanted.fn, Wanted.depth)
  IN  /\ generation = "requested" /\ Len(scopfunctions) < Len(scoplist)
      /\ loops # << >>
      /\ \A i \in DOMAIN loops : loops[i].limit # NoArgument
      /\ scopfunctions' = Append(scopfunctions, [i \in DOMAIN loops |-> loops[i].limit])
      /\ UNCHANGED <<maxCogeGenLoopDepth, generation, scoplist, extractionVars>>

(* The assertion that there is a loop, or that an argument bounds it, ends *)
(* the server.                                                             *)
AssertFoundArg ==
  LET loops == Converted(Wanted.fn, Wanted.depth)
  IN  /\ generation = "requested" /\ Len(scopfunctions) < Len(scoplist)
      /\ loops = << >> \/ \E i \in DOMAIN loops : loops[i].limit = NoArgument
      /\ generation' = "aborted"
      /\ UNCHANGED <<maxCogeGenLoopDepth, scoplist, scopfunctions, extractionVars>>

(* The client has the answer and makes wrappers for the kernels. *)
EndGeneration ==
  /\ generation = "requested" /\ Len(scopfunctions) = Len(scoplist)
  /\ generation' = "answered"
  /\ UNCHANGED <<maxCogeGenLoopDepth, scoplist, scopfunctions, extractionVars>>

GenerationNext == sendCodeGenReq \/ GenerateKernel \/ AssertFoundArg \/ EndGeneration

(* createLocalAndGlobalWorkGroups and executeOCLKernel: the work items of  *)
(* the k-th kernel for given values of the arguments.                      *)
WorkItems(k, value) ==
  LET dims == scopfunctions[k]
      global_work_size == [i \in DOMAIN dims |-> value[dims[i]]]
  IN  {id \in [DOMAIN dims -> 0 .. Max({0} \cup Range(global_work_size))] :
         \A i \in DOMAIN dims : id[i] < global_work_size[i]}
=============================================================================
