---------------------------- MODULE ScopDependency ----------------------------
(***************************************************************************)
(* The ScopDependency pass over the function that calls the SCoPs.  A      *)
(* first loop walks its instructions, records every call of a SCoP with    *)
(* the transfer types and sizes found by ScopDetect, and counts the chains *)
(* of SCoP calls that host calls close.  If the chain is not interrupted,  *)
(* a second loop walks the recorded calls bottom-up and lets every buffer  *)
(* of a call take over what the next call that uses the buffer needs.      *)
(*                                                                         *)
(* A statement of the program stands for an instruction: a call of a SCoP, *)
(* a direct call of another function, or host code that is no direct call. *)
(* Every call of a SCoP calls a function of its own (analyseScop clones    *)
(* the function for each further call), so a SCoP, its function and its    *)
(* call are one thing, named by the position in the program.               *)
(***************************************************************************)
EXTENDS SizeExpressions, TransferTypes

CONSTANTS
  Values,      (* the llvm::Values passed as pointer arguments             *)
  Texts,       (* the expressions ScopDetect makes for their sizes         *)
  LoopNames,   (* the names ScopDetect gives the loop levels of a SCoP     *)
  Programs     (* the instruction lists the pass may meet                  *)

(* maxStr is dimension_maxStr.at(0), or NULLString for an argument without *)
(* dimensions: one no access of the SCoP refers to.  size is what the text *)
(* comes to when the call is executed, 0 without one.  The pass knows      *)
(* neither that number nor covers, whether a SCoP that writes an argument  *)
(* writes every element.                                                   *)
Argument  == [value : Values, type : DataTransferType, size : Nat,
              maxStr : Texts \cup {NULLString}, covers : BOOLEAN]
Statement == [kind : {"scop", "call", "inline"}, args : Seq(Argument),
              loops : LoopNames]

ASSUME ProgramsAssumption == Programs \subseteq Seq(Statement)

(* What a text comes to when the names of loop levels stand for 0. *)
ConstantOf(text, loops) ==
  Eval(FoldLeft(LAMBDA s, nameStr : replaceWithValue(s, nameStr, 0), text, loops))

ASSUME ConstantsAssumption ==
  \A text \in Texts, loops \in LoopNames : ConstantOf(text, loops) \in Int

VARIABLES
  program,              (* the instructions of the SCoP parent             *)
  phase,                (* "scan", "update" or "done"                      *)
  iter,                 (* the inst_iterator of the first loop             *)
  flag_new_chain,       (* a chain of SCoP calls is open                   *)
  runner_chain_id,      (* the chains closed so far                        *)
  flag_chain_interrupt, (* no optimization, write everything back          *)
  root_pos,             (* the root of the second loop                     *)
  typeOptimized,        (* ScopCallFnArg::typeOptimized by call, argument  *)
  maxOptimized          (* ScopCallFnArg::dimension_maxStr, likewise       *)

passVars == <<program, phase, iter, flag_new_chain, runner_chain_id,
              flag_chain_interrupt, root_pos, typeOptimized, maxOptimized>>

IsScop(i)   == program[i].kind = "scop"
ArgsOf(i)   == DOMAIN program[i].args
ValueOf(i, a) == program[i].args[a].value
TypeOf(i, a)  == program[i].args[a].type
SizeOf(i, a)  == program[i].args[a].size
TextOf(i, a)  == program[i].args[a].maxStr
LoopsOf(i)    == program[i].loops

PassInit ==
  /\ program \in Programs
  /\ phase = "scan"
  /\ iter = 1
  /\ flag_new_chain = FALSE
  /\ runner_chain_id = 0
  /\ flag_chain_interrupt = FALSE
  /\ root_pos = 0
  /\ typeOptimized = [i \in DOMAIN program |-> [a \in ArgsOf(i) |-> "UNKNOWN"]]
  /\ maxOptimized  = [i \in DOMAIN program |-> [a \in ArgsOf(i) |-> NULLString]]

(* The first loop *)

Scan(kind) ==
  /\ phase = "scan"
  /\ iter <= Len(program)
  /\ program[iter].kind = kind
  /\ iter' = iter + 1
  /\ UNCHANGED <<program, phase, flag_chain_interrupt, root_pos>>

ScanScopCall ==
  /\ Scan("scop")
  /\ flag_new_chain' = TRUE
  /\ typeOptimized' =
       [typeOptimized EXCEPT ![iter] = [a \in ArgsOf(iter) |-> TypeOf(iter, a)]]
  /\ maxOptimized' =
       [maxOptimized EXCEPT ![iter] = [a \in ArgsOf(iter) |-> TextOf(iter, a)]]
  /\ UNCHANGED runner_chain_id

(* Mutant: the chain stays open, every further host call counts again. *)
ScanHostCallKeepsChain ==
  /\ Scan("call")
  /\ runner_chain_id' = IF flag_new_chain THEN runner_chain_id + 1 ELSE runner_chain_id
  /\ UNCHANGED <<flag_new_chain, typeOptimized, maxOptimized>>

(* A host call closes an open chain. *)
ScanHostCall ==
  /\ Scan("call")
  /\ flag_new_chain' = FALSE
  /\ runner_chain_id' = IF flag_new_chain THEN runner_chain_id + 1 ELSE runner_chain_id
  /\ UNCHANGED <<typeOptimized, maxOptimized>>

(* The loop looks at direct calls only. *)
ScanOther ==
  /\ Scan("inline")
  /\ UNCHANGED <<flag_new_chain, runner_chain_id, typeOptimized, maxOptimized>>

(* Mutant: the second loop runs for an interrupted chain too. *)
EndScanAlwaysUpdates ==
  /\ phase = "scan"
  /\ iter > Len(program)
  /\ flag_chain_interrupt' = (runner_chain_id > 1)
  /\ phase' = "update"
  /\ root_pos' = Len(program)
  /\ UNCHANGED <<program, iter, flag_new_chain, runner_chain_id,
                 typeOptimized, maxOptimized>>

(* Mutant: the second loop starts at size() instead of size() - 1. *)
EndScanOffByOne ==
  /\ phase = "scan"
  /\ iter > Len(program)
  /\ flag_chain_interrupt' = (runner_chain_id > 1)
  /\ phase' = IF flag_chain_interrupt' THEN "done" ELSE "update"
  /\ root_pos' = Len(program) + 1
  /\ UNCHANGED <<program, iter, flag_new_chain, runner_chain_id,
                 typeOptimized, maxOptimized>>

(* Heuristic to check for interrupts, then choose whether to optimize. *)
EndScan ==
  /\ phase = "scan"
  /\ iter > Len(program)
  /\ flag_chain_interrupt' = (runner_chain_id > 1)
  /\ phase' = IF flag_chain_interrupt' THEN "done" ELSE "update"
  /\ root_pos' = Len(program)
  /\ UNCHANGED <<program, iter, flag_new_chain, runner_chain_id,
                 typeOptimized, maxOptimized>>

(* The second loop *)

(* updateRootBufferWithChildren returns at the first argument of the first *)
(* later call that has the same value.                                     *)
LaterUsers(i, v) ==
  {j \in DOMAIN program : j > i /\ IsScop(j) /\ \E b \in ArgsOf(j) : ValueOf(j, b) = v}
Child(i, v)    == Min(LaterUsers(i, v))
ChildArg(j, v) == Min({b \in ArgsOf(j) : ValueOf(j, b) = v})

(* Two sizes are compared by the constants of their texts, each without    *)
(* the names of the loop levels of its own SCoP, whatever these stand for. *)
IsLarger(text, loops, thanText, thanLoops) ==
  ConstantOf(text, loops) > ConstantOf(thanText, thanLoops)

(* Mutant: the comparison is the wrong way round. *)
RootTextSwapped(root, rootLoops, child, childLoops) ==
  IF root # NULLString /\ child # NULLString /\ IsLarger(root, rootLoops, child, childLoops)
    THEN child ELSE root

(* Mutant: the child's text is taken over on a tie too. *)
RootTextOnTie(root, rootLoops, child, childLoops) ==
  IF root # NULLString /\ child # NULLString /\ ~IsLarger(root, rootLoops, child, childLoops)
    THEN child ELSE root

RootText(root, rootLoops, child, childLoops) ==
  IF root # NULLString /\ child # NULLString /\ IsLarger(child, childLoops, root, rootLoops)
    THEN child ELSE root

RootTypeWithChildren(i, a) ==
  LET v == ValueOf(i, a)
      j == Child(i, v)
  IN  IF LaterUsers(i, v) = {} THEN typeOptimized[i][a]
      ELSE RootType(typeOptimized[i][a], typeOptimized[j][ChildArg(j, v)])

RootMaxWithChildren(i, a) ==
  LET v == ValueOf(i, a)
      j == Child(i, v)
  IN  IF LaterUsers(i, v) = {} THEN maxOptimized[i][a]
      ELSE RootText(maxOptimized[i][a], LoopsOf(i),
                     maxOptimized[j][ChildArg(j, v)], LoopsOf(j))

UpdateRoot ==
  /\ phase = "update"
  /\ root_pos > 0
  /\ IF IsScop(root_pos)
       THEN /\ typeOptimized' = [typeOptimized EXCEPT ![root_pos] =
                 [a \in ArgsOf(root_pos) |-> RootTypeWithChildren(root_pos, a)]]
            /\ maxOptimized' = [maxOptimized EXCEPT ![root_pos] =
                 [a \in ArgsOf(root_pos) |-> RootMaxWithChildren(root_pos, a)]]
       ELSE UNCHANGED <<typeOptimized, maxOptimized>>
  /\ root_pos' = root_pos - 1
  /\ UNCHANGED <<program, phase, iter, flag_new_chain, runner_chain_id,
                 flag_chain_interrupt>>

EndUpdate ==
  /\ phase = "update"
  /\ root_pos = 0
  /\ phase' = "done"
  /\ UNCHANGED <<program, iter, flag_new_chain, runner_chain_id,
                 flag_chain_interrupt, root_pos, typeOptimized, maxOptimized>>

PassNext ==
  \/ ScanScopCall \/ ScanHostCall \/ ScanOther \/ EndScan
  \/ UpdateRoot \/ EndUpdate

PassSpec == PassInit /\ [][PassNext]_passVars
-----------------------------------------------------------------------------
Phase == {"scan", "update", "done"}

PassTypeOK ==
  /\ program \in Seq(Statement)
  /\ phase \in Phase
  /\ iter \in 1 .. Len(program) + 1
  /\ flag_new_chain \in BOOLEAN
  /\ runner_chain_id \in Nat
  /\ flag_chain_interrupt \in BOOLEAN
  /\ root_pos \in 0 .. Len(program)
  /\ DOMAIN typeOptimized = DOMAIN program
  /\ DOMAIN maxOptimized = DOMAIN program
  /\ \A i \in DOMAIN program :
       /\ typeOptimized[i] \in [ArgsOf(i) -> DataTransferType]
       /\ maxOptimized[i] \in [ArgsOf(i) -> Texts \cup {NULLString}]

(* A program whose SCoPs access every pointer they are passed and are      *)
(* passed no pointer twice.  The pass stops at the first matching argument *)
(* of the first later call, so it is only about such programs.             *)
Regular(p) ==
  \A i \in DOMAIN p : p[i].kind = "scop" =>
    /\ \A a \in DOMAIN p[i].args :
         /\ p[i].args[a].type \in {"IN", "OUT", "IN_OUT"}
         /\ p[i].args[a].size > 0 /\ p[i].args[a].maxStr # NULLString
    /\ \A a, b \in DOMAIN p[i].args :
         p[i].args[a].value = p[i].args[b].value => a = b

Optimized == phase = "done" /\ ~flag_chain_interrupt

(* Argument a of call i and argument b of the later call j are the same    *)
(* buffer.                                                                 *)
UsedLater(i, a, j, b) ==
  /\ i < j
  /\ IsScop(i) /\ IsScop(j)
  /\ ValueOf(i, a) = ValueOf(j, b)

(* A buffer that a call creates as IN is released without being copied     *)
(* back, so no later call of an uninterrupted chain may write it, however  *)
(* many calls are in between (scopdependency.cpp:98, :425).                *)
ReadOnlyNeverWritten ==
  Optimized /\ Regular(program) =>
    \A i, j \in DOMAIN program : \A a \in ArgsOf(i), b \in ArgsOf(j) :
      UsedLater(i, a, j, b) /\ typeOptimized[i][a] = "IN" => ~Writes(TypeOf(j, b))

(* What call i and the later calls need of the buffer of argument a.       *)
WrittenLater(i, a) ==
  \E j \in DOMAIN program : \E b \in ArgsOf(j) :
    UsedLater(i, a, j, b) /\ Writes(TypeOf(j, b))

(* The uses of the buffer from call i on. *)
Use(j, b) ==
  [call |-> j, text |-> TextOf(j, b), size |-> SizeOf(j, b),
   constant |-> ConstantOf(TextOf(j, b), LoopsOf(j))]

Uses(i, a) ==
  {Use(i, a)} \cup
    UNION {{Use(j, b) : b \in {b \in ArgsOf(j) : UsedLater(i, a, j, b)}} :
             j \in DOMAIN program}

(* A text goes up from call to call, and each reads it with the names of   *)
(* its own loops.  This says that a call reads the texts of later uses as  *)
(* those uses do, as it does if the names in them are names of its loops   *)
(* too; another name is left in the text, where 2m comes to 2.             *)
ReadAlike ==
  \A i, j \in DOMAIN program : \A a \in ArgsOf(i), b \in ArgsOf(j) :
    UsedLater(i, a, j, b) =>
      ConstantOf(TextOf(j, b), LoopsOf(i)) = ConstantOf(TextOf(j, b), LoopsOf(j))

(* The sizes the calls need of a buffer differ by as much as the constants *)
(* of their texts.  For these the comparison is made: 1541 + 1536(-4 +     *)
(* rows) with 2 + 1536(-1 + rows), for the same rows                       *)
(* (scopdependency.cpp:208-210).                                           *)
DifferInConstants ==
  \A i \in DOMAIN program : IsScop(i) =>
    \A a \in ArgsOf(i) : LET uses == Uses(i, a) IN
      \A u, w \in uses : u.size - w.size = u.constant - w.constant

(* The optimized size of a buffer is that of one of its uses, and enough   *)
(* for every later call that uses it, however many calls are in between,   *)
(* when the sizes differ in their constants.  Nothing is said of others:   *)
(* to the pass n is as large as m, whatever the two stand for              *)
(* (scopdependency.cpp:215-257).                                           *)
SizeCoversLaterUses ==
  Optimized /\ Regular(program) /\ ReadAlike /\ DifferInConstants =>
    \A i \in DOMAIN program : IsScop(i) =>
      \A a \in ArgsOf(i) : LET uses == Uses(i, a) IN
        \E u \in uses : maxOptimized[i][a] = u.text /\ \A w \in uses : u.size >= w.size

(* "If flag is raised, all data optimizations are prevented": every call   *)
(* keeps the types and sizes its own SCoP needs (scopdependency.cpp:425).  *)
InterruptPreventsOptimization ==
  flag_chain_interrupt =>
    \A i \in DOMAIN program : IsScop(i) =>
      \A a \in ArgsOf(i) : /\ typeOptimized[i][a] = TypeOf(i, a)
                           /\ maxOptimized[i][a] = TextOf(i, a)

(* The pass does as much and adds nothing else: unless the flag forbids    *)
(* all of it, a buffer is written back if and only if its own SCoP or a    *)
(* later one writes it, and is uploaded as its own SCoP says; and its size *)
(* is the text of the first use with the largest constant, although every  *)
(* call has looked at a single next user and has read the texts with the   *)
(* names of two SCoPs only (scopdependency.cpp:114-264).                   *)
TypesAsNeeded ==
  \A i \in DOMAIN program : IsScop(i) =>
    \A a \in ArgsOf(i) :
      typeOptimized[i][a] = IF TypeOf(i, a) = "IN" /\ WrittenLater(i, a)
                            THEN "IN_OUT" ELSE TypeOf(i, a)

FirstLargest(u, uses) ==
  \A w \in uses : /\ w.constant <= u.constant
                  /\ w.call < u.call => w.constant < u.constant

SizesOfFirstLargest ==
  \A i \in DOMAIN program : IsScop(i) =>
    \A a \in ArgsOf(i) : LET uses == Uses(i, a) IN
      \E u \in uses : maxOptimized[i][a] = u.text /\ FirstLargest(u, uses)

PassIsExact ==
  /\ InterruptPreventsOptimization
  /\ Optimized /\ Regular(program) =>
       TypesAsNeeded /\ (ReadAlike => SizesOfFirstLargest)

(* The first loop of the pass closes a chain at statement k of p.          *)
ClosesChain(p, k) ==
  /\ p[k].kind = "call"
  /\ \E i \in 1 .. k - 1 : p[i].kind = "scop" /\ \A j \in i .. k - 1 : p[j].kind # "call"
ChainInterrupted(p) == Cardinality({k \in DOMAIN p : ClosesChain(p, k)}) > 1

(* There is a host call between two SCoP calls. *)
HostCallBetweenScops ==
  \E i, j, k \in DOMAIN program :
    i < k /\ k < j /\ IsScop(i) /\ IsScop(j) /\ program[k].kind = "call"

(* The pass gives up optimizing only for a chain that a host call does     *)
(* interrupt; several host calls before, after or in a row do not count    *)
(* (scopdependency.cpp:385, :402).                                         *)
FlagOnlyIfInterrupted ==
  flag_chain_interrupt => HostCallBetweenScops
=============================================================================
