---------------------------- MODULE ScopDetection ----------------------------
(***************************************************************************)
(* The static analysis of the client: analyseScop (ScopExtraction), and in *)
(* every detection the loop of runOnScop over the memory accesses          *)
(* (AccessTyping, ScopBounds).  Polly yields the statements of a SCoP, and *)
(* the accesses of a statement, in an order the pass does not control.     *)
(*                                                                         *)
(* Then the kernels are generated (KernelGeneration).                      *)
(*                                                                         *)
(* A SCoP is given by the names in its context, its statements, the        *)
(* integer arguments, loads, stores and loops of its function.             *)
(***************************************************************************)
EXTENDS KernelGeneration, ScopBounds

VARIABLE
  todo         (* the accesses of the SCoP that are still to be processed  *)

accessVars    == <<type, isPointer, seen, bounds, todo>>
detectionVars == <<extractionVars, generationVars, accessVars>>

(* An argument of a function, or the base of an access to none. *)
ArgOf(f, base) == IF base = PhiHelper THEN PhiHelper ELSE [fn |-> f, arg |-> base]
ArgsOf(f)      == {a \in Args : a.fn = f}

(* An argument of a function is one of a record that names the function. *)
ASSUME ArgsAssumption ==
  \A a \in Args : a = [fn |-> a.fn, arg |-> a.arg] /\ a.arg # PhiHelper

Accesses(scop) ==
  UNION {{[stmt |-> i, access |-> j] : j \in DOMAIN scop.stmts[i].accesses} :
           i \in DOMAIN scop.stmts}

(* Of an access: its kind, whether it is one to a scalar, and the index.   *)
ASSUME AccessesAssumption ==
  \A m \in Modules : \A name \in DOMAIN m.scop :
    \A x \in Accesses(m.scop[name]) :
      LET access == m.scop[name].stmts[x.stmt].accesses[x.access]
      IN  /\ access.kind \in AccessType /\ access.scalar \in BOOLEAN
          /\ access.index = [const |-> access.index.const, terms |-> access.index.terms]
          /\ access.index.const \in Int

Stmt(f, x)     == ScopOf(f).stmts[x.stmt]
AccessOf(f, x) == Stmt(f, x).accesses[x.access]

Started(f, i) == \E x \in Accesses(ScopOf(f)) \ todo : x.stmt = i

DetectionInit ==
  /\ ExtractionInit
  /\ GenerationInit
  /\ Init
  /\ BoundsInit
  /\ todo = {}

AnalysisBegins ==
  /\ BeginDetection
  /\ todo' = LET f == NextCandidate
             IN  {x \in Accesses(ScopOf(f)) : Resolved(Stmt(f, x))}
  /\ UNCHANGED <<type, isPointer, seen, bounds, generationVars>>

(* Mutant: an access that is skipped ends the loop over the statement. *)
ProcessAccessOrLeave ==
  \E f \in detecting, x \in todo :
    /\ \A y \in todo : y.stmt # x.stmt => ~Started(f, y.stmt)
    /\ AnalyseAccess(ArgOf(f, AccessOf(f, x).base), Stmt(f, x), AccessOf(f, x))
    /\ todo' = IF AccessOf(f, x).scalar THEN {y \in todo : y.stmt # x.stmt} ELSE todo \ {x}
    /\ UNCHANGED <<extractionVars, generationVars>>

(* One iteration of the loop over the accesses: all of a statement before  *)
(* those of the next one.                                                  *)
ProcessAccess ==
  \E f \in detecting, x \in todo :
    /\ \A y \in todo : y.stmt # x.stmt => ~Started(f, y.stmt)
    /\ AnalyseAccess(ArgOf(f, AccessOf(f, x).base), Stmt(f, x), AccessOf(f, x))
    /\ todo' = todo \ {x}
    /\ UNCHANGED <<extractionVars, generationVars>>

AnalysisEnds ==
  /\ todo = {}
  /\ EndDetection
  /\ \E f \in detecting : PlusOneFix(ArgsOf(f))
  /\ UNCHANGED <<type, isPointer, seen, todo, generationVars>>

OtherStep ==
  /\ \/ NoScopFound
     \/ DetectionFails
     \/ FindRepeatedCalls
     \/ NoParentToSearch
     \/ CloneScop
     \/ ParentsAgree
     \/ ParentsDiffer
  /\ UNCHANGED <<accessVars, generationVars>>

Generation == GenerationNext /\ UNCHANGED accessVars

DetectionNext ==
  AnalysisBegins \/ ProcessAccess \/ AnalysisEnds \/ OtherStep \/ Generation

DetectionSpec == DetectionInit /\ [][DetectionNext]_detectionVars
-----------------------------------------------------------------------------
(* The meaning of affine forms, constraints and statements, which isl      *)
(* represents and the client reads from their printed form.                *)
SumOf(terms, point) == FoldLeft(LAMBDA v, t : v + t.coef * point[t.name], 0, terms)
ValueAt(affine, point) == affine.const + SumOf(affine.terms, point)

Satisfies(c, point) ==
  IF c.rel = ">=" THEN ValueAt(c.left, point) >= ValueAt(c.right, point)
                  ELSE ValueAt(c.left, point) <= ValueAt(c.right, point)

(* The points of a statement for given parameters. Iterators run up to     *)
(* MaxIterator at most, which suffices for the parameters below.           *)
MaxParam    == 2
MaxIterator == 3

Points(stmt, params) ==
  {p \in [ToSet(stmt.iters) -> 0 .. MaxIterator] :
     \A i \in DOMAIN stmt.constraints : Satisfies(stmt.constraints[i], p @@ params)}

ArrayAccesses(scop, base) ==
  {x \in Accesses(scop) :
     LET access == scop.stmts[x.stmt].accesses[x.access]
     IN  access.base = base /\ ~access.scalar}

(* The indices by which a SCoP accesses an array. *)
Indices(scop, base, params) ==
  UNION {{ValueAt(scop.stmts[x.stmt].accesses[x.access].index, p @@ params) :
            p \in Points(scop.stmts[x.stmt], params)} :
           x \in ArrayAccesses(scop, base)}

KindsOf(scop, base) ==
  {scop.stmts[x.stmt].accesses[x.access].kind : x \in ArrayAccesses(scop, base)}

(* The SCoPs whose text the client reads correctly. Every statement is     *)
(* within loops from 0 to a bound in the parameters; no name is part of    *)
(* another; an array is accessed as such only, in one domain, with one     *)
(* growing index up to offsets of which the smallest is 0.                 *)
Simple(affine, names) == \A i \in DOMAIN affine.terms : affine.terms[i].name \in names

Rectangular(stmt, params) ==
  /\ stmt.constraints # << >>
  /\ \A i \in DOMAIN stmt.constraints :
       LET c == stmt.constraints[i]
       IN  /\ \E name \in ToSet(stmt.iters) :
                c.left = [const |-> 0, terms |-> <<[coef |-> 1, name |-> name]>>]
           /\ c.rel = ">=" => c.right = [const |-> 0, terms |-> << >>]
           /\ Simple(c.right, params)

AllNames(scop) ==
  ToSet(scop.params) \cup UNION {ToSet(scop.stmts[i].iters) : i \in DOMAIN scop.stmts}

NamesApart(scop) ==
  \A m, n \in AllNames(scop) : m # n => Occurrences(m, n) = {}

RegularArray(scop, base) ==
  LET all == ArrayAccesses(scop, base)
      Index(x) == scop.stmts[x.stmt].accesses[x.access].index
      Domain(x) == <<scop.stmts[x.stmt].iters, scop.stmts[x.stmt].constraints>>
  IN  /\ \A x, y \in all : Index(x).terms = Index(y).terms /\ Domain(x) = Domain(y)
      /\ \A x \in all : /\ scop.stmts[x.stmt].accesses[x.access].dimensions = 1
                        /\ Simple(Index(x), ToSet(scop.stmts[x.stmt].iters))
                        /\ \A i \in DOMAIN Index(x).terms : Index(x).terms[i].coef > 0
      /\ all # {} => Min({Index(x).const : x \in all}) = 0

RegularScop(scop) ==
  /\ NamesApart(scop)
  /\ \A i \in DOMAIN scop.stmts : Rectangular(scop.stmts[i], ToSet(scop.params))
  /\ \A x \in Accesses(scop) :
       LET access == scop.stmts[x.stmt].accesses[x.access]
       IN  access.base # PhiHelper =>
             ~access.scalar /\ RegularArray(scop, access.base)

(* The texts of an index are read as what they say: with every iterator 0, *)
(* or at its lower bound, it is the constant of the index, and with every  *)
(* iterator at its upper bound the largest index there is, whose successor *)
(* is the size.  isl's text, the replacement of names and the parser are   *)
(* those of ScopBounds and SizeExpressions.                                *)
OffsetIsRead(stmt, index) ==
  /\ Eval(NoVars(Printed(index), stmt)) = index.const
  /\ Eval(AtMin(Printed(index), stmt)) = index.const

ExtentIsRead(stmt, index, names, params) ==
  LET Value(p) == ValueAt(index, p @@ params)
      size == ValueOfText(PlusOne(AtMax(Printed(index), stmt)), names, params)
  IN  /\ \A p \in Points(stmt, params) : SumOf(index.terms, p @@ params) \in Int
      /\ \E p \in Points(stmt, params) :
           /\ size = 1 + Value(p)
           /\ \A q \in Points(stmt, params) : Value(q) <= Value(p)

TextsAreRead ==
  \A m \in Modules : \A name \in DOMAIN m.scop : RegularScop(m.scop[name]) =>
    LET scop == m.scop[name]
    IN  \A x \in Accesses(scop) :
          LET stmt   == scop.stmts[x.stmt]
              access == stmt.accesses[x.access]
          IN  access.base # PhiHelper =>
                /\ OffsetIsRead(stmt, access.index)
                /\ \A params \in [ToSet(scop.params) -> 1 .. MaxParam] :
                     ExtentIsRead(stmt, access.index, scop.params, params)
-----------------------------------------------------------------------------
Analysed == IF stage = "done" THEN scopList ELSE {}

(* The size the rewritten application computes for a buffer is the number  *)
(* of elements up to the largest one the SCoP accesses, for all values of  *)
(* the parameters, whatever order the accesses came in: the detour over    *)
(* isl's text, the replacement of names and the parser lose nothing        *)
(* (scopdetect.cpp:709-820, oclFunctions.cpp:55, math_parser.cpp).         *)
SizeIsExact ==
  \A f \in Analysed : RegularScop(ScopOf(f)) =>
    \A a \in ArgsOf(f) : isPointer[a] =>
      \A params \in [ToSet(ScopOf(f).params) -> 1 .. MaxParam] :
        resolveScopValue(a, ScopOf(f).params, params)
          = 1 + Max(Indices(ScopOf(f), a.arg, params))

(* If every statement has a domain the client can read, every array has    *)
(* the type all accesses of the SCoP call for, copies of the function      *)
(* included: no access was left out (scopdetect.cpp:572-704).              *)
TypesComplete ==
  \A f \in Analysed :
    (\A i \in DOMAIN ScopOf(f).stmts : Resolved(ScopOf(f).stmts[i])) =>
      \A a \in ArgsOf(f) : type[a] = RequiredType(KindsOf(ScopOf(f), a.arg))

(* A copy is analysed anew, by a new pass; it gets the parent, depth, *)
(* loops and types of the original, unless the user gives a list of depths *)
(* (htropclient.cpp:485, scopdetect.cpp:345).                              *)
CopiesAgree ==
  \A f, g \in Analysed :
    f.name = g.name /\ RegularScop(ScopOf(f)) /\ Len(maxScopDepth) <= 1 =>
      /\ scopDS[f] = scopDS[g]
      /\ \A a \in ArgsOf(f), b \in ArgsOf(g) :
           a.arg = b.arg => type[a] = type[b] /\ isPointer[a] = isPointer[b]

(* So does the text of the size: the largest index gives it, whatever      *)
(* order the accesses came in (scopdetect.cpp:740-820).                    *)
CopiesHaveSameSizes ==
  \A f, g \in Analysed :
    f.name = g.name /\ RegularScop(ScopOf(f)) =>
      \A a \in ArgsOf(f), b \in ArgsOf(g) :
        a.arg = b.arg => bounds[a].maxStr = bounds[b].maxStr

(* The iterations of an instruction of a function, and those of them a     *)
(* work item runs: loops that are dimensions are the item's number.        *)
Runs(loop, value) == IF loop.limit = NoArgument THEN 2 ELSE value[loop.limit]

Iterations(instruction, value) ==
  LET loops == instruction.loops
  IN  {v \in [DOMAIN loops -> 0 .. MaxIterator] :
         \A i \in DOMAIN loops : v[i] < Runs(loops[i], value)}

RunsIteration(id, f, instruction, v) ==
  \A i \in DOMAIN id, j \in DOMAIN v :
    instruction.loops[j] = NestOf(f)[i] => id[i] = v[j]

(* The functions all stores of which are in the nest the server takes.     *)
OneNest(f) ==
  \A s \in StoreSet(ScopOf(f).instructions) :
    /\ s.loops # << >>
    /\ IsPrefix(s.loops, NestOf(f)) \/ IsPrefix(NestOf(f), s.loops)

(* The depth has been found out, or the user has chosen one that is not    *)
(* deeper than any store.                                                  *)
DepthIsChosenWell(k) ==
  \/ maxScopDepth = << >> /\ maxCogeGenLoopDepth = << >>
  \/ \A s \in StoreSet(ScopOf(scoplist[k].fn).instructions) :
       scoplist[k].depth <= LoopDepth(s)

(* The work items of a kernel together run every iteration of every store  *)
(* of the function exactly once: DepDetect in the client, the request, the *)
(* server's choice of loops and the client's work sizes fit each other     *)
(* (depdetect.cpp:137, openCLCbackend.cpp:186, htropclient.cpp:928).       *)
StoresRunOnce ==
  \A k \in DOMAIN scopfunctions :
    LET f == scoplist[k].fn
    IN  generation = "answered" /\ OneNest(f) /\ DepthIsChosenWell(k) =>
          \A s \in StoreSet(ScopOf(f).instructions) :
            \A value \in [ToSet(ScopOf(f).params) -> 0 .. MaxParam] :
              \A v \in Iterations(s, value) :
                Cardinality({id \in WorkItems(k, value) : RunsIteration(id, f, s, v)}) = 1
=============================================================================
