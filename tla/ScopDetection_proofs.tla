-------------------------- MODULE ScopDetection_proofs --------------------------
(***************************************************************************)
(* For every set of modules: the types of the arguments are complete and   *)
(* the same in all copies of a function, the sizes of its arrays are exact *)
(* and the same in all copies, and the work items of a kernel run every    *)
(* iteration of a store once.                                              *)
(*                                                                         *)
(* The detection is a step of ScopExtraction or one of AccessTyping, so    *)
(* what is proved about these holds of it.  That the text of an index is   *)
(* read as what it says is a hypothesis about the modules (TextsAreRead).  *)
(***************************************************************************)
EXTENDS ScopDetection, ScopExtraction_proofs, FiniteSetTheorems, SequenceTheorems

AccessInv == TypeOK /\ TypeIsOrderIndependent

(* One access keeps the type equal to what the accesses seen so far call   *)
(* for (the table of setDataTransferType, scopdetect.cpp:187).             *)
LEMMA AccessMatchesRequired ==
  ASSUME NEW accesses \in SUBSET AccessType, NEW access \in AccessType
  PROVE  setDataTransferType(RequiredType(accesses), access)
           = RequiredType(accesses \cup {access})
<1>1. CASE access = "READ"
  <2>1. CASE accesses \subseteq {"READ"}
    BY <1>1, <2>1 DEF setDataTransferType, AfterRead, RequiredType
  <2>2. CASE ~(accesses \subseteq {"READ"})
    BY <1>1, <2>2 DEF setDataTransferType, AfterRead, RequiredType, AccessType
  <2> QED BY <2>1, <2>2
<1>2. CASE access # "READ"
  <2>1. CASE "READ" \in accesses
    <3>1. RequiredType(accesses) \in {"IN", "IN_OUT"}
      BY <2>1 DEF RequiredType
    <3>2. RequiredType(accesses \cup {access}) = "IN_OUT"
      BY <1>2, <2>1 DEF RequiredType
    <3> QED BY <1>2, <3>1, <3>2 DEF setDataTransferType, AfterWrite
  <2>2. CASE "READ" \notin accesses
    BY <1>2, <2>2 DEF setDataTransferType, AfterWrite, RequiredType
  <2> QED BY <2>1, <2>2
<1> QED BY <1>1, <1>2

LEMMA AccessInitInv == Init => AccessInv
BY DEF Init, AccessInv, TypeOK, TypeIsOrderIndependent, RequiredType, DataTransferType

LEMMA AccessStepInv == AccessInv /\ [Next]_vars => AccessInv'
<1> SUFFICES ASSUME AccessInv, [Next]_vars PROVE AccessInv'
  OBVIOUS
<1> USE DEF AccessInv, TypeOK
<1>1. ASSUME NEW a \in Args, NEW access \in AccessType, ArrayAccess(a, access)
      PROVE  AccessInv'
  <2>1. seen[a] \in SUBSET AccessType
    OBVIOUS
  <2>2. setDataTransferType(type[a], access) = RequiredType(seen[a] \cup {access})
    BY <2>1, AccessMatchesRequired DEF TypeIsOrderIndependent
  <2>3. TypeIsOrderIndependent'
    BY <1>1, <2>2 DEF ArrayAccess, TypeIsOrderIndependent
  <2>4. setDataTransferType(type[a], access) \in DataTransferType
    BY DEF setDataTransferType, AfterRead, AfterWrite, DataTransferType
  <2>5. TypeOK'
    BY <1>1, <2>4 DEF ArrayAccess
  <2> QED BY <2>3, <2>5
<1>2. ASSUME NEW a \in Args, ScalarAccess(a)
      PROVE  AccessInv'
  BY <1>2 DEF ScalarAccess, TypeIsOrderIndependent
<1>3. CASE UNCHANGED vars
  BY <1>3 DEF vars, TypeIsOrderIndependent
<1> QED BY <1>1, <1>2, <1>3 DEF Next, Access, HelperAccess

(* For any set of arguments and any sequence of accesses, the inferred     *)
(* transfer type is exactly the one the accesses call for                  *)
(* (scopdetect.cpp:187, 704).                                              *)
THEOREM OrderIndependence == Spec => []TypeIsOrderIndependent
<1>1. AccessInv => TypeIsOrderIndependent
  BY DEF AccessInv
<1> QED BY AccessInitInv, AccessStepInv, <1>1, PTL DEF Spec

(* The types inferred are transfer types, whatever is accessed             *)
(* (scopdetect.cpp:187).                                                   *)
THEOREM TypesCorrect == Spec => []TypeOK
<1>1. AccessInv => TypeOK
  BY DEF AccessInv
<1> QED BY AccessInitInv, AccessStepInv, <1>1, PTL DEF Spec

(* One access keeps the transfers the type stands for. *)
LEMMA AccessKeepsTransfers ==
  ASSUME NEW t \in DataTransferType, NEW access \in AccessType
  PROVE  /\ Reads(t) => Reads(setDataTransferType(t, access))
         /\ Writes(t) => Writes(setDataTransferType(t, access))
BY DEF DataTransferType, Reads, Writes, setDataTransferType, AfterRead, AfterWrite

(* Whatever is accessed later, no upload or write-back that an access has  *)
(* called for is taken away again (scopdetect.cpp:187).                    *)
THEOREM TransfersAreKept == Spec => TransfersOnlyAdded
<1>1. ASSUME AccessInv, Next
      PROVE  KeepsTransfers
  <2>1. ASSUME NEW b \in Args, NEW access \in AccessType, ArrayAccess(b, access)
        PROVE  KeepsTransfers
    <3>1. /\ Reads(type[b]) => Reads(setDataTransferType(type[b], access))
          /\ Writes(type[b]) => Writes(setDataTransferType(type[b], access))
      BY <1>1, AccessKeepsTransfers DEF AccessInv, TypeOK
    <3> QED BY <1>1, <2>1, <3>1 DEF ArrayAccess, AccessInv, TypeOK, KeepsTransfers
  <2>2. ASSUME UNCHANGED type
        PROVE  KeepsTransfers
    BY <2>2 DEF KeepsTransfers
  <2> QED BY <1>1, <2>1, <2>2 DEF Next, Access, HelperAccess, ScalarAccess, vars
<1> QED BY AccessInitInv, AccessStepInv, <1>1, PTL DEF Spec, TransfersOnlyAdded
-----------------------------------------------------------------------------
(* The accesses runOnScop looks at, and those it has looked at so far. *)
Due(f) == {x \in Accesses(ScopOf(f)) : Resolved(Stmt(f, x))}

Processed(f) ==
  CASE f \in scopList  -> Due(f)
    [] f \in detecting -> Due(f) \ todo
    [] OTHER           -> {}

(* The kinds of array access to base among some accesses of f. *)
ArrayKinds(f, accesses, base) ==
  {AccessOf(f, x).kind :
     x \in {y \in accesses : AccessOf(f, y).base = base /\ ~AccessOf(f, y).scalar}}

NoScalar(f, accesses, base) ==
  \A x \in accesses : AccessOf(f, x).base = base => ~AccessOf(f, x).scalar

(* What is known about an argument stems from the accesses of its own      *)
(* function that have been processed, and from nothing else.               *)
AnalysisInv ==
  /\ detecting = {} => todo = {}
  /\ detecting \cap scopList = {}
  /\ \A f \in detecting : todo \subseteq Due(f)
  /\ \A a \in Args :
       /\ seen[a] = ArrayKinds(a.fn, Processed(a.fn), a.arg)
       /\ NoScalar(a.fn, Processed(a.fn), a.arg) => (isPointer[a] <=> seen[a] # {})

(* The depth all SCoP functions of the same name get. *)
CommonDepth(f) ==
  IF maxScopDepth = << >> THEN getMaxCodegenLoopDepth(ScopOf(f).instructions)
                          ELSE maxScopDepth[1]

DepthsInv ==
  Len(maxScopDepth) <= 1 =>
    \A f \in DOMAIN scopDS :
      scopDS[f] = [parent |-> scopDS[f].parent, depth |-> CommonDepth(f),
                   loops |-> LoopNames(ScopOf(f).names, CommonDepth(f))]

(* What the request asks for and what the answer says about every kernel   *)
(* that is generated.                                                      *)
RequestInv ==
  /\ maxCogeGenLoopDepth \in Seq(1 .. 3)
  /\ generation = "none" => scoplist = << >> /\ scopfunctions = << >>
  /\ generation # "none" => stage = "done"
  /\ IsFiniteSet(scopList)
  /\ scoplist \in Seq([fn : scopList, depth : Int])
  /\ maxScopDepth = << >> /\ maxCogeGenLoopDepth = << >> =>
       \A k \in DOMAIN scoplist :
         scoplist[k].depth = getMaxCodegenLoopDepth(ScopOf(scoplist[k].fn).instructions)

IsKernelOf(dims, f, depth) ==
  LET loops == Converted(f, depth)
  IN  /\ loops # << >>
      /\ \A i \in DOMAIN loops : loops[i].limit # NoArgument
      /\ dims = [i \in DOMAIN loops |-> loops[i].limit]

AnswerInv ==
  /\ scopfunctions \in Seq(ToSet(scopfunctions))
  /\ Len(scopfunctions) <= Len(scoplist)
  /\ \A k \in DOMAIN scopfunctions :
       IsKernelOf(scopfunctions[k], scoplist[k].fn, scoplist[k].depth)

-----------------------------------------------------------------------------
(* An access of a SCoP function is one of the accesses AccessTyping knows. *)
LEMMA AccessIsKnown ==
  ASSUME module \in Modules, NEW f, HasScop(f), NEW x \in Accesses(ScopOf(f))
  PROVE  AccessOf(f, x).kind \in AccessType /\ AccessOf(f, x).scalar \in BOOLEAN
BY AccessesAssumption DEF HasScop, ScopOf, AccessOf, Stmt

(* Every step of the detection is one of the extraction, or leaves it.     *)
LEMMA DetectionStepExtracts ==
  ASSUME [DetectionNext]_detectionVars
  PROVE  [ExtractionNext]_extractionVars
<1>1. CASE AnalysisBegins
  BY <1>1 DEF AnalysisBegins, ExtractionNext
<1>2. CASE AnalysisEnds
  BY <1>2 DEF AnalysisEnds, ExtractionNext
<1>3. CASE OtherStep
  BY <1>3 DEF OtherStep, ExtractionNext
<1>4. CASE UNCHANGED extractionVars
  BY <1>4
<1>5. ProcessAccess \/ Generation => UNCHANGED extractionVars
  BY DEF ProcessAccess, Generation, GenerationNext, sendCodeGenReq, GenerateKernel,
         AssertFoundArg, EndGeneration
<1> QED BY <1>1, <1>2, <1>3, <1>4, <1>5 DEF DetectionNext, detectionVars

(* Every step of the analysis of the client is a step of analyseScop, or   *)
(* leaves its list of functions alone (htropclient.cpp:334-502): what is   *)
(* proved of ExtractionSpec holds of DetectionSpec.                        *)
THEOREM DetectionExtracts == DetectionSpec => ExtractionSpec
<1>1. DetectionInit => ExtractionInit
  BY DEF DetectionInit
<1>2. [DetectionNext]_detectionVars => [ExtractionNext]_extractionVars
  BY DetectionStepExtracts
<1> QED BY <1>1, <1>2, PTL DEF DetectionSpec, ExtractionSpec
-----------------------------------------------------------------------------
(* The function that is analysed has a SCoP, in which the accesses are.    *)
LEMMA TodoIsOfScop ==
  ASSUME ExtractionInv, LoopsRecorded, AnalysisInv, NEW f \in detecting, NEW x \in todo
  PROVE  /\ HasScop(f) /\ x \in Due(f) /\ x \in Accesses(ScopOf(f))
         /\ AccessOf(f, x).kind \in AccessType /\ AccessOf(f, x).scalar \in BOOLEAN
<1>1. HasScop(f)
  BY DEF ExtractionInv, ParentsRecorded, LoopsRecorded
<1>2. x \in Due(f) /\ x \in Accesses(ScopOf(f))
  BY DEF AnalysisInv, Due
<1> QED BY <1>1, <1>2, AccessIsKnown DEF ExtractionInv, ExtractionTypeOK

(* An access of a function is one to an argument of it or to none. *)
LEMMA ArgOfIsArgument ==
  ASSUME NEW f, NEW base, ArgOf(f, base) \in Args
  PROVE  ArgOf(f, base).fn = f /\ ArgOf(f, base).arg = base
<1>1. base # PhiHelper
  BY PhiHelperAssumption DEF ArgOf
<1> QED BY <1>1 DEF ArgOf

LEMMA ArgumentIsArgOf ==
  ASSUME NEW a \in Args
  PROVE  a = ArgOf(a.fn, a.arg)
BY ArgsAssumption DEF ArgOf

(* A step of the detection is an access of AccessTyping or changes no type.*)
LEMMA DetectionStepAccesses ==
  ASSUME ExtractionInv, LoopsRecorded, AnalysisInv, [DetectionNext]_detectionVars
  PROVE  [Next]_vars
<1>1. CASE ProcessAccess
  <2>1. PICK f \in detecting, x \in todo :
          AnalyseAccess(ArgOf(f, AccessOf(f, x).base), Stmt(f, x), AccessOf(f, x))
    BY <1>1 DEF ProcessAccess
  <2> DEFINE base   == ArgOf(f, AccessOf(f, x).base)
             kind   == AccessOf(f, x).kind
             scalar == AccessOf(f, x).scalar
  <2>2. kind \in AccessType /\ scalar \in BOOLEAN
    BY TodoIsOfScop
  <2>3. Access(base, kind, scalar)
    BY <2>1 DEF AnalyseAccess
  <2> HIDE DEF base, kind, scalar
  <2>4. CASE base \in Args
    BY <2>2, <2>3, <2>4 DEF Next
  <2>5. CASE base \notin Args
    BY <2>3, <2>5 DEF Access, HelperAccess
  <2> QED BY <2>4, <2>5
<1>2. CASE UNCHANGED vars
  BY <1>2
<1>3. AnalysisBegins \/ AnalysisEnds \/ OtherStep \/ Generation => UNCHANGED vars
  BY DEF AnalysisBegins, AnalysisEnds, OtherStep, Generation, accessVars, vars
<1> QED BY <1>1, <1>2, <1>3 DEF DetectionNext, detectionVars, accessVars, vars

(* Nothing but the phases of the detection changes what is processed.      *)
LEMMA ProcessedUnchanged ==
  ASSUME UNCHANGED <<module, detecting, scopList, todo>>
  PROVE  /\ \A f : Due(f)' = Due(f) /\ Processed(f)' = Processed(f)
         /\ \A f, x : AccessOf(f, x)' = AccessOf(f, x)
<1>1. \A f : ScopOf(f)' = ScopOf(f)
  BY DEF ScopOf
<1>2. \A f, x : AccessOf(f, x)' = AccessOf(f, x) /\ Stmt(f, x)' = Stmt(f, x)
  BY <1>1 DEF AccessOf, Stmt
<1>3. \A f : Due(f)' = Due(f)
  BY <1>1, <1>2 DEF Due
<1> QED BY <1>2, <1>3 DEF Processed

LEMMA AnalysisInvUnchanged ==
  ASSUME AnalysisInv, UNCHANGED <<module, detecting, scopList, todo, seen, isPointer>>
  PROVE  AnalysisInv'
<1>1. /\ \A f : Due(f)' = Due(f) /\ Processed(f)' = Processed(f)
      /\ \A f, x : AccessOf(f, x)' = AccessOf(f, x)
  BY ProcessedUnchanged
<1>2. \A f, base : /\ ArrayKinds(f, Processed(f), base)' = ArrayKinds(f, Processed(f), base)
                   /\ NoScalar(f, Processed(f), base)' <=> NoScalar(f, Processed(f), base)
  BY <1>1 DEF ArrayKinds, NoScalar
<1> QED BY <1>1, <1>2 DEF AnalysisInv

LEMMA AnalysisInvInit == DetectionInit => AnalysisInv
<1> SUFFICES ASSUME DetectionInit
             PROVE  AnalysisInv
  OBVIOUS
<1>1. /\ detecting = {} /\ scopList = {} /\ todo = {}
      /\ \A a \in Args : seen[a] = {} /\ ~isPointer[a]
  BY DEF DetectionInit, ExtractionInit, Init
<1>2. \A f : Processed(f) = {}
  BY <1>1 DEF Processed
<1>3. \A f, base : ArrayKinds(f, {}, base) = {}
  BY DEF ArrayKinds
<1> QED BY <1>1, <1>2, <1>3 DEF AnalysisInv

(* The function was in the list of candidates, so nothing of it has been   *)
(* processed before.                                                       *)
LEMMA NothingIsProcessedYet ==
  ASSUME ExtractionInv, AnalysisInv, AnalysisBegins
  PROVE  /\ NextCandidate \notin scopList
         /\ \A g : Due(g)' = Due(g) /\ Processed(g)' = Processed(g)
         /\ \A g, x : AccessOf(g, x)' = AccessOf(g, x) /\ Stmt(g, x)' = Stmt(g, x)
         /\ \A g : ScopOf(g)' = ScopOf(g)
<1>0. PICK f : f = NextCandidate
  OBVIOUS
<1>1. /\ detecting = {} /\ detecting' = {f} /\ todo' = Due(f)
      /\ UNCHANGED <<module, scopList>>
  BY <1>0 DEF AnalysisBegins, BeginDetection, ScopFound, Working, Due
<1>2. f \notin scopList
  <2>1. f \in Listed
    BY <1>0, TakingCandidate
       DEF AnalysisBegins, BeginDetection, ScopFound, Working, ExtractionInv, ExtractionTypeOK
  <2> QED BY <2>1 DEF ExtractionInv, AnalysedOnce
<1>3. \A g, x : /\ AccessOf(g, x)' = AccessOf(g, x) /\ Stmt(g, x)' = Stmt(g, x)
                /\ ScopOf(g)' = ScopOf(g)
  BY <1>1 DEF AccessOf, Stmt, ScopOf
<1>4. \A g : Due(g)' = Due(g)
  BY <1>3 DEF Due
<1>5. \A g : Processed(g)' = Processed(g)
  BY <1>1, <1>2, <1>4 DEF Processed
<1> QED BY <1>0, <1>2, <1>3, <1>4, <1>5

LEMMA AnalysisBeginsInv ==
  ASSUME ExtractionInv, AnalysisInv, AnalysisBegins
  PROVE  AnalysisInv'
<1>0. PICK f : f = NextCandidate
  OBVIOUS
<1>1. /\ detecting' = {f} /\ todo' = Due(f)
      /\ UNCHANGED <<module, scopList, seen, isPointer>>
  BY <1>0 DEF AnalysisBegins, BeginDetection, Due
<1>2. /\ f \notin scopList
      /\ \A g : Due(g)' = Due(g) /\ Processed(g)' = Processed(g)
      /\ \A g, x : AccessOf(g, x)' = AccessOf(g, x)
  BY <1>0, NothingIsProcessedYet
<1>3. \A g, base : /\ ArrayKinds(g, Processed(g), base)' = ArrayKinds(g, Processed(g), base)
                   /\ NoScalar(g, Processed(g), base)' <=> NoScalar(g, Processed(g), base)
  BY <1>2 DEF ArrayKinds, NoScalar
<1>4. f \in detecting' /\ \A g \in detecting' : g = f
  BY <1>1
<1>5. todo' \subseteq Due(f)' /\ f \notin scopList'
  BY <1>1, <1>2
<1> QED BY <1>1, <1>3, <1>4, <1>5 DEF AnalysisInv

(* An access is processed: that one, of that function.                     *)
LEMMA OneMoreIsProcessed ==
  ASSUME ExtractionInv, LoopsRecorded, AnalysisInv, NEW f \in detecting, NEW x \in todo,
         todo' = todo \ {x}, UNCHANGED extractionVars
  PROVE  /\ x \in Due(f) /\ f \notin scopList /\ \A g \in detecting : g = f
         /\ \A g : Due(g)' = Due(g)
         /\ Processed(f)' = Processed(f) \cup {x}
         /\ \A g : g # f => Processed(g)' = Processed(g)
         /\ \A g, y : AccessOf(g, y)' = AccessOf(g, y) /\ Stmt(g, y)' = Stmt(g, y)
         /\ \A g : ScopOf(g)' = ScopOf(g)
<1>1. UNCHANGED <<module, detecting, scopList>>
  BY DEF extractionVars
<1>2. x \in Due(f)
  BY TodoIsOfScop
<1>3. f \notin scopList /\ \A g \in detecting : g = f
  BY DEF ExtractionInv, AnalysedOnce, AnalysisInv
<1>4. \A g, y : /\ AccessOf(g, y)' = AccessOf(g, y) /\ Stmt(g, y)' = Stmt(g, y)
                /\ ScopOf(g)' = ScopOf(g)
  BY <1>1 DEF AccessOf, Stmt, ScopOf
<1>5. \A g : Due(g)' = Due(g)
  BY <1>4 DEF Due
<1>6. /\ Processed(f)' = Processed(f) \cup {x}
      /\ \A g : g # f => Processed(g)' = Processed(g)
  BY <1>1, <1>2, <1>3, <1>5 DEF Processed
<1> QED BY <1>2, <1>3, <1>4, <1>5, <1>6

LEMMA ProcessAccessInv ==
  ASSUME ExtractionInv, LoopsRecorded, AccessInv, AnalysisInv, ProcessAccess
  PROVE  AnalysisInv'
<1>1. PICK f \in detecting, x \in todo :
        /\ AnalyseAccess(ArgOf(f, AccessOf(f, x).base), Stmt(f, x), AccessOf(f, x))
        /\ todo' = todo \ {x}
        /\ UNCHANGED extractionVars
  BY DEF ProcessAccess
<1>2. UNCHANGED <<module, detecting, scopList>>
  BY <1>1 DEF extractionVars
<1>3. /\ x \in Due(f) /\ AccessOf(f, x).scalar \in BOOLEAN
      /\ f \notin scopList /\ \A g \in detecting : g = f
  BY <1>1, TodoIsOfScop, OneMoreIsProcessed
<1>4. /\ \A g : Due(g)' = Due(g)
      /\ \A g, y : AccessOf(g, y)' = AccessOf(g, y)
  BY <1>1, OneMoreIsProcessed
<1>5. /\ Processed(f)' = Processed(f) \cup {x}
      /\ \A g : g # f => Processed(g)' = Processed(g)
  BY <1>1, OneMoreIsProcessed
<1>6. \A g, base :
        /\ ArrayKinds(g, Processed(g), base)' = ArrayKinds(g, Processed(g)', base)
        /\ NoScalar(g, Processed(g), base)' <=> NoScalar(g, Processed(g)', base)
  BY <1>4 DEF ArrayKinds, NoScalar
<1>7. todo' \subseteq Due(f)'
  BY <1>1, <1>4 DEF AnalysisInv
<1>8. ASSUME NEW a \in Args
       PROVE  /\ seen'[a] = ArrayKinds(a.fn, Processed(a.fn)', a.arg)
              /\ NoScalar(a.fn, Processed(a.fn)', a.arg) => (isPointer'[a] <=> seen'[a] # {})
  <2> DEFINE b      == ArgOf(f, AccessOf(f, x).base)
             kind   == AccessOf(f, x).kind
             scalar == AccessOf(f, x).scalar
  <2>1. /\ seen[a] = ArrayKinds(a.fn, Processed(a.fn), a.arg)
        /\ NoScalar(a.fn, Processed(a.fn), a.arg) => (isPointer[a] <=> seen[a] # {})
    BY DEF AnalysisInv
  <2>2. Access(b, kind, scalar)
    BY <1>1 DEF AnalyseAccess
  <2>3. a = b <=> a.fn = f /\ a.arg = AccessOf(f, x).base
    BY ArgOfIsArgument, ArgumentIsArgOf
  <2>4. /\ seen \in [Args -> SUBSET AccessType] /\ isPointer \in [Args -> BOOLEAN]
    BY DEF AccessInv, TypeOK
  <2>8. a = b => a.fn = f /\ Processed(a.fn)' = Processed(f) \cup {x}
    BY <1>5, <2>3
  <2> HIDE DEF b, kind, scalar
  <2>5. CASE a # b
    <3>1. seen'[a] = seen[a] /\ isPointer'[a] = isPointer[a]
      BY <2>2, <2>4, <2>5 DEF Access, HelperAccess, ArrayAccess, ScalarAccess, vars
    <3>2. CASE a.fn # f
      BY <1>5, <2>1, <3>1, <3>2
    <3>3. CASE a.fn = f
      <4>1. Processed(f)' = Processed(f) \cup {x} /\ AccessOf(f, x).base # a.arg
        BY <1>5, <2>3, <2>5, <3>3
      <4>2. /\ ArrayKinds(f, Processed(f) \cup {x}, a.arg) = ArrayKinds(f, Processed(f), a.arg)
            /\ NoScalar(f, Processed(f) \cup {x}, a.arg) <=> NoScalar(f, Processed(f), a.arg)
        BY <4>1 DEF NoScalar, ArrayKinds
      <4> QED BY <2>1, <3>1, <3>3, <4>1, <4>2
    <3> QED BY <3>2, <3>3
  <2>6. CASE a = b /\ ~scalar
    <3>1. seen'[a] = seen[a] \cup {kind} /\ isPointer'[a] = TRUE
      BY <2>2, <2>4, <2>6 DEF Access, HelperAccess, ArrayAccess
    <3>2. AccessOf(f, x).base = a.arg /\ ~AccessOf(f, x).scalar
      BY <2>3, <2>6 DEF scalar
    <3>3. ArrayKinds(f, Processed(f) \cup {x}, a.arg)
            = ArrayKinds(f, Processed(f), a.arg) \cup {kind}
      BY <3>2 DEF kind, ArrayKinds
    <3>4. a.fn = f
      BY <2>6, <2>8
    <3>5. seen'[a] = ArrayKinds(a.fn, Processed(a.fn)', a.arg)
      BY <2>1, <2>6, <2>8, <3>1, <3>3, <3>4
    <3>6. seen'[a] # {}
      BY <3>1
    <3> QED BY <3>1, <3>5, <3>6
  <2>7. CASE a = b /\ scalar
    <3>1. seen'[a] = seen[a]
      BY <2>2, <2>6, <2>7 DEF Access, HelperAccess, ScalarAccess, vars
    <3>2. AccessOf(f, x).base = a.arg /\ AccessOf(f, x).scalar
      BY <2>3, <2>7 DEF scalar
    <3>3. /\ ArrayKinds(f, Processed(f) \cup {x}, a.arg) = ArrayKinds(f, Processed(f), a.arg)
          /\ ~NoScalar(f, Processed(f) \cup {x}, a.arg)
      BY <3>2 DEF NoScalar, ArrayKinds
    <3>4. a.fn = f
      BY <2>7, <2>8
    <3>5. ~NoScalar(a.fn, Processed(a.fn)', a.arg)
      BY <2>7, <2>8, <3>3, <3>4
    <3>6. seen'[a] = ArrayKinds(a.fn, Processed(a.fn)', a.arg)
      BY <2>1, <2>7, <2>8, <3>1, <3>3, <3>4
    <3> QED BY <3>5, <3>6
  <2> QED BY <2>5, <2>6, <2>7
<1> QED BY <1>2, <1>3, <1>6, <1>7, <1>8 DEF AnalysisInv

(* At the end everything the detection was to look at is processed.        *)
LEMMA AllIsProcessed ==
  ASSUME ExtractionInv, AnalysisInv, AnalysisEnds
  PROVE  /\ todo = {} /\ todo' = {} /\ detecting' = {}
         /\ scopList' = scopList \cup detecting
         /\ \A g : Processed(g)' = Processed(g)
         /\ \A g, x : AccessOf(g, x)' = AccessOf(g, x) /\ Stmt(g, x)' = Stmt(g, x)
         /\ \A g : ScopOf(g)' = ScopOf(g)
<1>1. /\ todo = {} /\ todo' = {} /\ detecting' = {}
      /\ scopList' = scopList \cup detecting
      /\ UNCHANGED module
  BY DEF AnalysisEnds, EndDetection
<1>2. \A g, x : /\ AccessOf(g, x)' = AccessOf(g, x) /\ Stmt(g, x)' = Stmt(g, x)
                /\ ScopOf(g)' = ScopOf(g)
  BY <1>1 DEF AccessOf, Stmt, ScopOf
<1>3. \A g : Due(g)' = Due(g)
  BY <1>2 DEF Due
<1>4. \A g : Processed(g)' = Processed(g)
  BY <1>1, <1>3 DEF Processed
<1> QED BY <1>1, <1>2, <1>4

LEMMA AnalysisEndsInv ==
  ASSUME ExtractionInv, AnalysisInv, AnalysisEnds
  PROVE  AnalysisInv'
<1>1. /\ todo' = {} /\ detecting' = {} /\ UNCHANGED <<seen, isPointer>>
  BY DEF AnalysisEnds, EndDetection
<1>2. \A g, base : /\ ArrayKinds(g, Processed(g), base)' = ArrayKinds(g, Processed(g), base)
                   /\ NoScalar(g, Processed(g), base)' <=> NoScalar(g, Processed(g), base)
  BY AllIsProcessed DEF ArrayKinds, NoScalar
<1> QED BY <1>1, <1>2 DEF AnalysisInv

LEMMA AnalysisNextInv ==
  ASSUME ExtractionInv, LoopsRecorded, AccessInv, AnalysisInv,
         [DetectionNext]_detectionVars
  PROVE  AnalysisInv'
<1>1. CASE AnalysisBegins
  BY <1>1, AnalysisBeginsInv
<1>2. CASE ProcessAccess
  BY <1>2, ProcessAccessInv
<1>3. CASE AnalysisEnds
  BY <1>3, AnalysisEndsInv
<1>4. OtherStep \/ Generation \/ UNCHANGED detectionVars
        => UNCHANGED <<module, detecting, scopList, todo, seen, isPointer>>
  BY DEF OtherStep, NoScopFound, DetectionFails, FindRepeatedCalls, NoParentToSearch,
         CloneScop, ParentsAgree, ParentsDiffer, Abort, Generation, GenerationNext,
         sendCodeGenReq, GenerateKernel, AssertFoundArg, EndGeneration, extractionVars,
         detectionVars, accessVars
<1> QED BY <1>1, <1>2, <1>3, <1>4, AnalysisInvUnchanged DEF DetectionNext
-----------------------------------------------------------------------------
DetectionInv == ExtractionInv /\ LoopsRecorded /\ AccessInv /\ AnalysisInv

LEMMA DetectionInvInit == DetectionInit => DetectionInv
BY ExtractionInitInv, ExtractionInitLoops, AccessInitInv, AnalysisInvInit
   DEF DetectionInit, DetectionInv

LEMMA DetectionInvNext == DetectionInv /\ [DetectionNext]_detectionVars => DetectionInv'
<1> SUFFICES ASSUME DetectionInv, [DetectionNext]_detectionVars
             PROVE  DetectionInv'
  OBVIOUS
<1>1. ExtractionInv' /\ LoopsRecorded'
  BY DetectionStepExtracts, ExtractionNextInv, ExtractionNextLoops DEF DetectionInv
<1>2. AccessInv'
  BY DetectionStepAccesses, AccessStepInv DEF DetectionInv
<1>3. AnalysisInv'
  BY AnalysisNextInv DEF DetectionInv
<1> QED BY <1>1, <1>2, <1>3 DEF DetectionInv

LEMMA DetectionHasInv == DetectionSpec => []DetectionInv
BY DetectionInvInit, DetectionInvNext, PTL DEF DetectionSpec

(* The detection does to the types what AccessTyping does, whatever the    *)
(* order in which it meets functions, statements and accesses: the types   *)
(* depend on the accesses alone, and no transfer is taken away.            *)
THEOREM DetectionTypes ==
  DetectionSpec => Spec /\ []TypeIsOrderIndependent /\ TransfersOnlyAdded
<1>1. DetectionInit => Init
  BY DEF DetectionInit
<1>2. DetectionInv /\ [DetectionNext]_detectionVars => [Next]_vars
  BY DetectionStepAccesses DEF DetectionInv
<1>3. DetectionSpec => Spec
  BY <1>1, <1>2, DetectionHasInv, PTL DEF DetectionSpec, Spec
<1> QED BY <1>3, OrderIndependence, TransfersAreKept, PTL

(* If no statement is left out, the kinds of access that were met are all  *)
(* of them.                                                                *)
LEMMA AllKindsSeen ==
  ASSUME DetectionInv, NEW a \in Args, a.fn \in scopList,
         \A i \in DOMAIN ScopOf(a.fn).stmts : Resolved(ScopOf(a.fn).stmts[i])
  PROVE  seen[a] = KindsOf(ScopOf(a.fn), a.arg)
<1> DEFINE f == a.fn
<1>1. \A x \in Accesses(ScopOf(f)) : x.stmt \in DOMAIN ScopOf(f).stmts
  BY DEF Accesses
<1>2. Due(f) = Accesses(ScopOf(f))
  BY <1>1 DEF Due, Stmt
<1>3. seen[a] = ArrayKinds(f, Accesses(ScopOf(f)), a.arg)
  BY <1>2 DEF DetectionInv, AnalysisInv, Processed
<1> QED BY <1>3 DEF ArrayKinds, KindsOf, ArrayAccesses, AccessOf, Stmt

(* For every set of modules: when the analysis is done, the type of every  *)
(* array of a SCoP, in all copies of its function, is the one all its      *)
(* accesses call for (scopdetect.cpp:572-704).                             *)
THEOREM TypesAreComplete == DetectionSpec => []TypesComplete
<1>1. DetectionInv => TypesComplete
  <2> SUFFICES ASSUME DetectionInv, stage = "done", NEW f \in scopList,
                      \A i \in DOMAIN ScopOf(f).stmts : Resolved(ScopOf(f).stmts[i]),
                      NEW a \in ArgsOf(f)
               PROVE  type[a] = RequiredType(KindsOf(ScopOf(f), a.arg))
    BY DEF TypesComplete, Analysed
  <2>1. a \in Args /\ a.fn = f
    BY DEF ArgsOf
  <2>2. seen[a] = KindsOf(ScopOf(f), a.arg)
    BY <2>1, AllKindsSeen
  <2> QED BY <2>1, <2>2 DEF DetectionInv, AccessInv, TypeIsOrderIndependent
<1> QED BY <1>1, DetectionHasInv, PTL

(* For every set of modules: the two properties of the extraction hold of  *)
(* the detection as a whole.                                               *)
THEOREM DetectionKeepsCallsApart == DetectionSpec => [](OwnFunction /\ LevelsNamed)
BY DetectionExtracts, EveryCallOwnFunction, LevelsHaveNames, PTL
-----------------------------------------------------------------------------
LEMMA DepthsInvNext ==
  ASSUME LoopsRecorded, DepthsInv, [ExtractionNext]_extractionVars
  PROVE  DepthsInv'
<1>1. CASE BeginDetection
  <2> SUFFICES ASSUME Len(maxScopDepth) <= 1, NEW g \in DOMAIN scopDS'
               PROVE  scopDS'[g] = [parent |-> scopDS'[g].parent, depth |-> CommonDepth(g)',
                                    loops |-> LoopNames(ScopOf(g).names, CommonDepth(g))']
    BY <1>1 DEF BeginDetection, DepthsInv
  <2>1. UNCHANGED <<module, maxScopDepth>>
    BY <1>1 DEF BeginDetection
  <2>2. /\ ScopOf(g)' = ScopOf(g) /\ CommonDepth(g)' = CommonDepth(g)
        /\ LoopNames(ScopOf(g).names, CommonDepth(g))'
             = LoopNames(ScopOf(g).names, CommonDepth(g))
    BY <2>1 DEF ScopOf, CommonDepth, LoopNames, Unnamed
  <2>3. PICK f, parent :
          /\ f = NextCandidate
          /\ scopDS' = [h \in DOMAIN scopDS \cup {f} |->
               IF h = f THEN [parent |-> parent, depth |-> max_codegen_loop_depth(f),
                              loops |-> LoopNames(ScopOf(f).names, max_codegen_loop_depth(f))]
                        ELSE scopDS[h]]
    BY <1>1 DEF BeginDetection
  <2>4. max_codegen_loop_depth(f) = CommonDepth(f)
    <3>1. maxScopDepth # << >> => Len(maxScopDepth) = 1
      <4>1. maxScopDepth \in Seq(Int)
        BY DEF LoopsRecorded
      <4>2. PICK n \in Nat : n = Len(maxScopDepth) /\ n <= 1
        BY <4>1
      <4>3. n = 0 => maxScopDepth = << >>
        BY <4>1, <4>2, EmptySeq
      <4>4. n = 0 \/ n = 1
        BY <4>2
      <4> QED BY <4>2, <4>3, <4>4
    <3> QED BY <3>1 DEF max_codegen_loop_depth, CommonDepth
  <2>5. CASE g = f
    BY <2>2, <2>3, <2>4, <2>5
  <2>6. CASE g # f
    BY <2>2, <2>3, <2>6 DEF DepthsInv
  <2> QED BY <2>5, <2>6
<1>2. CASE UNCHANGED <<module, maxScopDepth, scopDS>>
  BY <1>2 DEF DepthsInv, CommonDepth, ScopOf, LoopNames, Unnamed
<1> QED
  BY <1>1, <1>2 DEF ExtractionNext, NoScopFound, DetectionFails, EndDetection,
     FindRepeatedCalls, NoParentToSearch, CloneScop, ParentsAgree, ParentsDiffer, Abort,
     extractionVars

LEMMA DetectionHasDepths == DetectionSpec => []DepthsInv
<1>1. DetectionInit => DepthsInv
  BY DEF DetectionInit, ExtractionInit, DepthsInv
<1>2. LoopsRecorded /\ DepthsInv /\ [DetectionNext]_detectionVars => DepthsInv'
  BY DepthsInvNext, DetectionStepExtracts
<1>3. DetectionInv => LoopsRecorded
  BY DEF DetectionInv
<1> QED BY <1>1, <1>2, <1>3, DetectionHasInv, PTL DEF DetectionSpec

(* The domain of a regular SCoP's statements can be read, and its arrays   *)
(* are accessed as such only.                                              *)
LEMMA RegularIsReadable ==
  ASSUME NEW f, RegularScop(ScopOf(f)), NEW a \in Args
  PROVE  /\ \A i \in DOMAIN ScopOf(f).stmts : Resolved(ScopOf(f).stmts[i])
         /\ NoScalar(f, Accesses(ScopOf(f)), a.arg)
<1>1. \A i \in DOMAIN ScopOf(f).stmts : Resolved(ScopOf(f).stmts[i])
  BY DEF RegularScop, Rectangular, Resolved
<1>2. NoScalar(f, Accesses(ScopOf(f)), a.arg)
  BY ArgsAssumption DEF RegularScop, NoScalar, AccessOf, Stmt
<1> QED BY <1>1, <1>2

LEMMA ArrayIsPointer ==
  ASSUME DetectionInv, NEW a \in Args, a.fn \in scopList, RegularScop(ScopOf(a.fn))
  PROVE  /\ seen[a] = KindsOf(ScopOf(a.fn), a.arg)
         /\ isPointer[a] = (seen[a] # {})
<1>1. /\ \A i \in DOMAIN ScopOf(a.fn).stmts : Resolved(ScopOf(a.fn).stmts[i])
      /\ NoScalar(a.fn, Accesses(ScopOf(a.fn)), a.arg)
  BY RegularIsReadable
<1>2. seen[a] = KindsOf(ScopOf(a.fn), a.arg)
  BY <1>1, AllKindsSeen
<1>3. Processed(a.fn) \subseteq Accesses(ScopOf(a.fn))
  BY DEF Processed, Due
<1>4. NoScalar(a.fn, Processed(a.fn), a.arg)
  BY <1>1, <1>3 DEF NoScalar
<1>5. isPointer[a] <=> seen[a] # {}
  BY <1>4 DEF DetectionInv, AnalysisInv
<1>6. isPointer[a] \in BOOLEAN
  BY DEF DetectionInv, AccessInv, TypeOK
<1> QED BY <1>2, <1>5, <1>6

(* For every set of modules: a copy of a function gets the parent, depth,  *)
(* loops and types of the original (htropclient.cpp:485,                   *)
(* scopdetect.cpp:345).                                                    *)
THEOREM CopiesAreAnalysedAlike == DetectionSpec => []CopiesAgree
<1>1. DetectionInv /\ DepthsInv => CopiesAgree
  <2> SUFFICES ASSUME DetectionInv, DepthsInv, stage = "done",
                      NEW f \in scopList, NEW g \in scopList, f.name = g.name,
                      RegularScop(ScopOf(f)), Len(maxScopDepth) <= 1
               PROVE  /\ scopDS[f] = scopDS[g]
                      /\ \A a \in ArgsOf(f), b \in ArgsOf(g) :
                           a.arg = b.arg => type[a] = type[b] /\ isPointer[a] = isPointer[b]
    BY DEF CopiesAgree, Analysed
  <2>1. ScopOf(f) = ScopOf(g)
    BY DEF ScopOf
  <2>2. f \in DOMAIN scopDS /\ g \in DOMAIN scopDS
    BY DEF DetectionInv, ExtractionInv, ParentsRecorded
  <2>3. scopDS[f].parent = scopDS[g].parent
    BY DEF DetectionInv, ExtractionInv, DoneIsComplete, OneParent
  <2>4. CommonDepth(f) = CommonDepth(g)
    BY <2>1 DEF CommonDepth
  <2>5. scopDS[f] = scopDS[g]
    BY <2>1, <2>2, <2>3, <2>4 DEF DepthsInv
  <2>6. ASSUME NEW a \in ArgsOf(f), NEW b \in ArgsOf(g), a.arg = b.arg
        PROVE  type[a] = type[b] /\ isPointer[a] = isPointer[b]
    <3>1. a \in Args /\ a.fn = f /\ b \in Args /\ b.fn = g
      BY DEF ArgsOf
    <3>2. /\ seen[a] = KindsOf(ScopOf(f), a.arg) /\ isPointer[a] = (seen[a] # {})
          /\ seen[b] = KindsOf(ScopOf(g), b.arg) /\ isPointer[b] = (seen[b] # {})
      BY <2>1, <3>1, ArrayIsPointer
    <3>3. seen[a] = seen[b]
      BY <2>1, <2>6, <3>2
    <3> QED BY <3>1, <3>2, <3>3 DEF DetectionInv, AccessInv, TypeIsOrderIndependent
  <2> QED BY <2>5, <2>6
<1> QED BY <1>1, DetectionHasInv, DetectionHasDepths, PTL
-----------------------------------------------------------------------------
(* The sizes.  For regular SCoPs the bounds of an array are those of the   *)
(* accesses to it that have been processed: the constants of the smallest  *)
(* and of the largest index, and the text of the largest, which at the end *)
(* gets its "+1".  That the texts are read rightly is a hypothesis.        *)
Offset(f, x)  == AccessOf(f, x).index.const
MaxText(f, x) == AtMax(Printed(AccessOf(f, x).index), Stmt(f, x))

Met(f, base) == Processed(f) \cap ArrayAccesses(ScopOf(f), base)

Smallest(f, accesses, lo) ==
  lo \in accesses /\ \A x \in accesses : Offset(f, lo) <= Offset(f, x)
Largest(f, accesses, hi) ==
  hi \in accesses /\ \A x \in accesses : Offset(f, x) <= Offset(f, hi)

BoundsFrom(lo, hi, text) ==
  [dimension |-> 1, offset_min |-> {lo}, offset_max |-> {hi}, min |-> lo, maxStr |-> text]

SizeText(f, lo, hi) ==
  IF f \in scopList /\ Offset(f, lo) = 0 THEN PlusOne(MaxText(f, hi)) ELSE MaxText(f, hi)

BoundsAre(a, accesses) ==
  \E lo, hi \in accesses :
    /\ Smallest(a.fn, accesses, lo) /\ Largest(a.fn, accesses, hi)
    /\ bounds[a] = BoundsFrom(Offset(a.fn, lo), Offset(a.fn, hi), SizeText(a.fn, lo, hi))

BoundsOf(a) ==
  LET accesses == Met(a.fn, a.arg)
  IN  /\ accesses = {} => bounds[a] = NoBounds
      /\ accesses # {} => BoundsAre(a, accesses)

BoundsInv ==
  \A a \in Args : HasScop(a.fn) /\ RegularScop(ScopOf(a.fn)) => BoundsOf(a)

(* The first access to an array gives both bounds, ... *)
LEMMA FirstAccessBounds ==
  ASSUME NEW stmt, NEW access, ~access.scalar, access.dimensions = 1,
         OffsetIsRead(stmt, access.index)
  PROVE  UpdateBounds(NoBounds, stmt, access)
           = BoundsFrom(access.index.const, access.index.const,
                        AtMax(Printed(access.index), stmt))
<1> DEFINE index == Printed(access.index)
           c     == access.index.const
           text  == AtMax(index, stmt)
           empty == [dimension |-> 1, offset_min |-> {}, offset_max |-> {},
                     min |-> 0, maxStr |-> NULLString]
           half  == [dimension |-> 1, offset_min |-> {c}, offset_max |-> {},
                     min |-> c, maxStr |-> NULLString]
<1>1. Eval(NoVars(index, stmt)) = c /\ Eval(AtMin(index, stmt)) = c
  BY DEF OffsetIsRead
<1>2. resize(NoBounds, 1) = empty
  BY DEF resize, NoBounds
<1>3. UpdateBounds(NoBounds, stmt, access) = UpdateMax(UpdateMin(empty, index, stmt), index, stmt)
  BY <1>2 DEF UpdateBounds
<1> HIDE DEF index, c
<1>4. UpdateMin(empty, index, stmt) = half
  BY <1>1 DEF UpdateMin
<1>5. UpdateMax(half, index, stmt) = BoundsFrom(c, c, text)
  BY <1>1 DEF UpdateMax, BoundsFrom
<1> QED BY <1>3, <1>4, <1>5 DEF index, c

(* ... and every further one those it exceeds. *)
LEMMA NextAccessBounds ==
  ASSUME NEW stmt, NEW access, ~access.scalar, access.dimensions = 1,
         OffsetIsRead(stmt, access.index), access.index.const \in Int,
         NEW lo \in Int, NEW hi \in Int, NEW text
  PROVE  UpdateBounds(BoundsFrom(lo, hi, text), stmt, access)
           = BoundsFrom(IF access.index.const <= lo THEN access.index.const ELSE lo,
                        IF access.index.const >= hi THEN access.index.const ELSE hi,
                        IF access.index.const >= hi THEN AtMax(Printed(access.index), stmt)
                                                    ELSE text)
<1> DEFINE index == Printed(access.index)
           c     == access.index.const
           least == IF c <= lo THEN c ELSE lo
           last  == AtMax(index, stmt)
<1>1. /\ Eval(NoVars(index, stmt)) = c /\ Eval(AtMin(index, stmt)) = c
      /\ c \in Int
  BY DEF OffsetIsRead
<1>2. resize(BoundsFrom(lo, hi, text), 1) = BoundsFrom(lo, hi, text)
  BY DEF resize, BoundsFrom
<1>3. UpdateBounds(BoundsFrom(lo, hi, text), stmt, access)
        = UpdateMax(UpdateMin(BoundsFrom(lo, hi, text), index, stmt), index, stmt)
  BY <1>2 DEF UpdateBounds
<1> HIDE DEF index, c, last
<1>4. UpdateMin(BoundsFrom(lo, hi, text), index, stmt) = BoundsFrom(least, hi, text)
  BY <1>1 DEF UpdateMin, BoundsFrom
<1> HIDE DEF least
<1>5. UpdateMax(BoundsFrom(least, hi, text), index, stmt)
        = BoundsFrom(least, IF c >= hi THEN c ELSE hi, IF c >= hi THEN last ELSE text)
  <2>1. CASE c >= hi
    BY <1>1, <2>1 DEF UpdateMax, BoundsFrom, last
  <2>2. CASE ~(c >= hi)
    BY <1>1, <2>2 DEF UpdateMax, BoundsFrom
  <2> QED BY <2>1, <2>2
<1> QED BY <1>3, <1>4, <1>5 DEF index, c, least, last

(* An access of a regular SCoP that is to an argument is one to an array of *)
(* one dimension, the texts of which are read.                              *)
LEMMA RegularAccess ==
  ASSUME TextsAreRead, DetectionInv, NEW f, HasScop(f), RegularScop(ScopOf(f)),
         NEW x \in Accesses(ScopOf(f)), AccessOf(f, x).base # PhiHelper
  PROVE  /\ x \in ArrayAccesses(ScopOf(f), AccessOf(f, x).base)
         /\ ~AccessOf(f, x).scalar /\ AccessOf(f, x).dimensions = 1
         /\ OffsetIsRead(Stmt(f, x), AccessOf(f, x).index)
         /\ Offset(f, x) \in Int
         /\ AccessOf(f, x).index = [const |-> Offset(f, x), terms |-> AccessOf(f, x).index.terms]
<1> DEFINE scop == ScopOf(f)
<1>1. module \in Modules /\ f.name \in DOMAIN module.scop /\ scop = module.scop[f.name]
  BY DEF DetectionInv, ExtractionInv, ExtractionTypeOK, HasScop, ScopOf
<1>2. Stmt(f, x) = scop.stmts[x.stmt] /\ AccessOf(f, x) = scop.stmts[x.stmt].accesses[x.access]
  BY DEF Stmt, AccessOf
<1>3. ~AccessOf(f, x).scalar /\ RegularArray(scop, AccessOf(f, x).base)
  BY <1>2 DEF RegularScop
<1>4. x \in ArrayAccesses(scop, AccessOf(f, x).base)
  BY <1>2, <1>3 DEF ArrayAccesses
<1>5. AccessOf(f, x).dimensions = 1
  BY <1>2, <1>3, <1>4 DEF RegularArray
<1>6. OffsetIsRead(Stmt(f, x), AccessOf(f, x).index)
  BY <1>1, <1>2 DEF TextsAreRead
<1>7. AccessOf(f, x).index.const \in Int
  <2>1. x \in Accesses(module.scop[f.name])
    BY <1>1
  <2>2. module.scop[f.name].stmts[x.stmt].accesses[x.access].index.const \in Int
    BY <1>1, <2>1, AccessesAssumption
  <2> QED BY <1>1, <1>2, <2>2
<1>8. AccessOf(f, x).index = [const |-> AccessOf(f, x).index.const,
                              terms |-> AccessOf(f, x).index.terms]
  <2>1. x \in Accesses(module.scop[f.name])
    BY <1>1
  <2> DEFINE index == module.scop[f.name].stmts[x.stmt].accesses[x.access].index
  <2>2. index = [const |-> index.const, terms |-> index.terms]
    BY <1>1, <2>1, AccessesAssumption, Zenon
  <2> QED BY <1>1, <1>2, <2>2, Zenon
<1> HIDE DEF scop
<1> QED BY <1>3, <1>4, <1>5, <1>6, <1>7, <1>8 DEF Offset, scop

LEMMA MetAreIntegers ==
  ASSUME TextsAreRead, DetectionInv, NEW a \in Args, HasScop(a.fn),
         RegularScop(ScopOf(a.fn)), NEW x \in Met(a.fn, a.arg)
  PROVE  Offset(a.fn, x) \in Int /\ x \in Accesses(ScopOf(a.fn)) /\ AccessOf(a.fn, x).base = a.arg
<1>1. x \in Accesses(ScopOf(a.fn)) /\ AccessOf(a.fn, x).base = a.arg
  BY DEF Met, ArrayAccesses, AccessOf, Stmt
<1>2. a.arg # PhiHelper
  BY ArgsAssumption
<1> QED BY <1>1, <1>2, RegularAccess

LEMMA BoundsInvUnchanged ==
  ASSUME BoundsInv, UNCHANGED <<module, scopList, bounds>>,
         \A f : Processed(f)' = Processed(f)
  PROVE  BoundsInv'
<1>1. \A f, x : /\ AccessOf(f, x)' = AccessOf(f, x) /\ Stmt(f, x)' = Stmt(f, x)
                /\ ScopOf(f)' = ScopOf(f) /\ (HasScop(f)' <=> HasScop(f))
  BY DEF AccessOf, Stmt, ScopOf, HasScop
<1>2. \A f, x : Offset(f, x)' = Offset(f, x) /\ MaxText(f, x)' = MaxText(f, x)
  BY <1>1 DEF Offset, MaxText
<1>3. \A f, base : Met(f, base)' = Met(f, base)
  BY <1>1 DEF Met
<1>4. \A f, lo, hi : SizeText(f, lo, hi)' = SizeText(f, lo, hi)
  BY <1>2 DEF SizeText
<1>5. ASSUME NEW a \in Args, BoundsOf(a)
      PROVE  BoundsOf(a)'
  <2> DEFINE P == Met(a.fn, a.arg)
  <2>1. Met(a.fn, a.arg)' = P /\ bounds'[a] = bounds[a]
    BY <1>3
  <2>2. BoundsAre(a, P) => BoundsAre(a, P)'
    BY <1>2, <1>4, <2>1 DEF BoundsAre, Smallest, Largest
  <2> QED BY <1>5, <2>1, <2>2 DEF BoundsOf
<1> QED BY <1>1, <1>5 DEF BoundsInv

(* One access to the array an argument is. *)
LEMMA AccessKeepsBounds ==
  ASSUME TextsAreRead, DetectionInv, NEW f \in detecting, HasScop(f), RegularScop(ScopOf(f)),
         f \notin scopList, NEW x \in Accesses(ScopOf(f)), NEW a \in Args, a.fn = f,
         AccessOf(f, x).base = a.arg, BoundsOf(a), NEW b,
         b = UpdateBounds(bounds[a], Stmt(f, x), AccessOf(f, x)),
         NEW P, P = Met(f, a.arg)
  PROVE  \E lo, hi \in P \cup {x} :
           /\ Smallest(f, P \cup {x}, lo) /\ Largest(f, P \cup {x}, hi)
           /\ b = BoundsFrom(Offset(f, lo), Offset(f, hi), MaxText(f, hi))
<1> DEFINE c == Offset(f, x)
           stmt   == Stmt(f, x)
           access == AccessOf(f, x)
<1>1. access.base # PhiHelper
  BY ArgsAssumption
<1>2. /\ ~access.scalar /\ access.dimensions = 1
      /\ OffsetIsRead(stmt, access.index) /\ c \in Int
  BY <1>1, RegularAccess
<1>3. \A y \in P : Offset(f, y) \in Int
  BY MetAreIntegers
<1>4. access.index.const = c /\ AtMax(Printed(access.index), stmt) = MaxText(f, x)
  BY DEF Offset, MaxText
<1> HIDE DEF stmt, access, c
<1>5. CASE P = {}
  <2>1. bounds[a] = NoBounds
    BY <1>5 DEF BoundsOf
  <2>2. b = BoundsFrom(c, c, MaxText(f, x))
    BY <1>2, <1>4, <2>1, FirstAccessBounds DEF stmt, access
  <2>3. Smallest(f, P \cup {x}, x) /\ Largest(f, P \cup {x}, x)
    BY <1>2, <1>5 DEF Smallest, Largest, c
  <2> QED BY <2>2, <2>3 DEF c
<1>6. CASE P # {}
  <2>1. PICK l \in P, h \in P :
          /\ Smallest(f, P, l) /\ Largest(f, P, h)
          /\ bounds[a] = BoundsFrom(Offset(f, l), Offset(f, h), MaxText(f, h))
    <3>1. \A l, h : SizeText(f, l, h) = MaxText(f, h)
      BY DEF SizeText
    <3> QED BY <1>6, <3>1 DEF BoundsOf, BoundsAre
  <2> DEFINE least == Offset(f, l)
             most  == Offset(f, h)
             text  == MaxText(f, h)
             lo    == IF c <= least THEN x ELSE l
             hi    == IF c >= most THEN x ELSE h
  <2>2. least \in Int /\ most \in Int
    BY <1>3
  <2> HIDE DEF least, most, text
  <2>3. b = BoundsFrom(IF c <= least THEN c ELSE least, IF c >= most THEN c ELSE most,
                       IF c >= most THEN MaxText(f, x) ELSE text)
    BY <1>2, <1>4, <2>1, <2>2, NextAccessBounds DEF stmt, access, least, most, text
  <2>4. b = BoundsFrom(Offset(f, lo), Offset(f, hi), MaxText(f, hi))
    BY <2>3 DEF least, most, text, c
  <2>5. Smallest(f, P \cup {x}, lo)
    BY <1>2, <1>3, <2>1, <2>2 DEF Smallest, c, least
  <2>6. Largest(f, P \cup {x}, hi)
    BY <1>2, <1>3, <2>1, <2>2 DEF Largest, c, most
  <2>7. lo \in P \cup {x} /\ hi \in P \cup {x}
    BY <2>1
  <2> HIDE DEF lo, hi
  <2> QED BY <2>4, <2>5, <2>6, <2>7
<1> QED BY <1>5, <1>6

LEMMA ProcessAccessBounds ==
  ASSUME TextsAreRead, DetectionInv, BoundsInv, ProcessAccess
  PROVE  BoundsInv'
<1>1. PICK f \in detecting, x \in todo :
        /\ AnalyseAccess(ArgOf(f, AccessOf(f, x).base), Stmt(f, x), AccessOf(f, x))
        /\ todo' = todo \ {x}
        /\ UNCHANGED extractionVars
  BY DEF ProcessAccess
<1>2. UNCHANGED <<module, scopList>>
  BY <1>1 DEF extractionVars
<1>3. /\ f \notin scopList
      /\ Processed(f)' = Processed(f) \cup {x}
      /\ \A g : g # f => Processed(g)' = Processed(g)
      /\ \A g, y : AccessOf(g, y)' = AccessOf(g, y) /\ Stmt(g, y)' = Stmt(g, y)
      /\ \A g : ScopOf(g)' = ScopOf(g)
  BY <1>1, OneMoreIsProcessed DEF DetectionInv
<1>4. HasScop(f) /\ x \in Accesses(ScopOf(f))
  BY TodoIsOfScop DEF DetectionInv
<1>5. /\ \A g, y : Offset(g, y)' = Offset(g, y) /\ MaxText(g, y)' = MaxText(g, y)
      /\ \A g, lo, hi : SizeText(g, lo, hi)' = SizeText(g, lo, hi)
  BY <1>2, <1>3 DEF Offset, MaxText, SizeText
<1>6. \A g, base : Met(g, base)' = Processed(g)' \cap ArrayAccesses(ScopOf(g), base)
  BY <1>3 DEF Met
<1> SUFFICES ASSUME NEW a \in Args, HasScop(a.fn), RegularScop(ScopOf(a.fn))
             PROVE  BoundsOf(a)'
  BY <1>2, <1>3 DEF BoundsInv, HasScop
<1> DEFINE P    == Met(a.fn, a.arg)
           base == ArgOf(f, AccessOf(f, x).base)
<1>7. BoundsOf(a)
  BY DEF BoundsInv
<1>8. bounds'[a] = IF a = base THEN UpdateBounds(bounds[a], Stmt(f, x), AccessOf(f, x))
                               ELSE bounds[a]
  BY <1>1 DEF AnalyseAccess
<1>9. a = base <=> a.fn = f /\ a.arg = AccessOf(f, x).base
  BY ArgOfIsArgument, ArgumentIsArgOf
<1> HIDE DEF base
<1>10. CASE a # base
  <2>1. Met(a.fn, a.arg)' = P
    <3>1. CASE a.fn # f
      BY <1>3, <1>6, <3>1 DEF Met
    <3>2. CASE a.fn = f
      <4>1. AccessOf(f, x).base # a.arg
        BY <1>9, <1>10, <3>2
      <4>2. x \notin ArrayAccesses(ScopOf(f), a.arg)
        BY <4>1 DEF ArrayAccesses, AccessOf, Stmt
      <4> QED BY <1>3, <1>6, <3>2, <4>2 DEF Met
    <3> QED BY <3>1, <3>2
  <2>2. bounds'[a] = bounds[a]
    BY <1>8, <1>10
  <2>3. BoundsAre(a, P) => BoundsAre(a, P)'
    BY <1>5, <2>1, <2>2 DEF BoundsAre, Smallest, Largest
  <2> QED BY <1>7, <2>1, <2>2, <2>3 DEF BoundsOf
<1>11. CASE a = base
  <2>1. a.fn = f /\ a.arg = AccessOf(f, x).base /\ a.arg # PhiHelper
    BY <1>9, <1>11, ArgsAssumption
  <2>2. x \in ArrayAccesses(ScopOf(f), a.arg)
    BY <1>4, <2>1, RegularAccess
  <2>3. Met(a.fn, a.arg)' = P \cup {x}
    BY <1>3, <1>6, <2>1, <2>2 DEF Met
  <2>4. PICK lo \in P \cup {x}, hi \in P \cup {x} :
          /\ Smallest(f, P \cup {x}, lo) /\ Largest(f, P \cup {x}, hi)
          /\ bounds'[a] = BoundsFrom(Offset(f, lo), Offset(f, hi), MaxText(f, hi))
    BY <1>3, <1>4, <1>7, <1>8, <1>11, <2>1, AccessKeepsBounds
  <2>5. SizeText(f, lo, hi)' = MaxText(f, hi)
    BY <1>3, <1>5 DEF SizeText
  <2> DEFINE Q == P \cup {x}
  <2>6. Met(a.fn, a.arg)' = Q /\ lo \in Q /\ hi \in Q
    BY <2>3
  <2>7. Smallest(f, Q, lo) /\ Largest(f, Q, hi)
    BY <2>4
  <2> HIDE DEF Q
  <2>8. \A y \in Met(a.fn, a.arg)' : /\ Offset(a.fn, lo)' <= Offset(a.fn, y)'
                                    /\ Offset(a.fn, y)' <= Offset(a.fn, hi)'
    BY <1>5, <2>1, <2>6, <2>7 DEF Smallest, Largest
  <2>9. bounds'[a] = BoundsFrom(Offset(a.fn, lo)', Offset(a.fn, hi)', SizeText(a.fn, lo, hi)')
    BY <1>5, <2>1, <2>4, <2>5
  <2>10. BoundsAre(a, Met(a.fn, a.arg))'
    BY <2>6, <2>8, <2>9 DEF BoundsAre, Smallest, Largest
  <2> QED BY <2>6, <2>10 DEF BoundsOf
<1> QED BY <1>10, <1>11

LEMMA AnalysisEndsBounds ==
  ASSUME TextsAreRead, DetectionInv, BoundsInv, AnalysisEnds
  PROVE  BoundsInv'
<1>1. PICK f \in detecting : PlusOneFix(ArgsOf(f))
  BY DEF AnalysisEnds
<1>2. /\ f \notin scopList /\ detecting = {f} /\ scopList' = scopList \cup {f}
      /\ \A g : Processed(g)' = Processed(g) /\ ScopOf(g)' = ScopOf(g)
      /\ \A g, x : AccessOf(g, x)' = AccessOf(g, x) /\ Stmt(g, x)' = Stmt(g, x)
  BY AllIsProcessed DEF DetectionInv, ExtractionInv, AnalysedOnce, AnalysisInv
<1>3. module' = module
  BY DEF AnalysisEnds, EndDetection
<1>4. /\ \A g, y : Offset(g, y)' = Offset(g, y) /\ MaxText(g, y)' = MaxText(g, y)
      /\ \A g, base : Met(g, base)' = Met(g, base)
  BY <1>2 DEF Offset, MaxText, Met
<1> SUFFICES ASSUME NEW a \in Args, HasScop(a.fn), RegularScop(ScopOf(a.fn))
             PROVE  BoundsOf(a)'
  BY <1>2, <1>3 DEF BoundsInv, HasScop
<1> DEFINE P == Met(a.fn, a.arg)
<1>5. BoundsOf(a)
  BY DEF BoundsInv
<1>6. bounds'[a] = IF a.fn = f /\ isPointer[a] /\ bounds[a].min = 0
                   THEN [bounds[a] EXCEPT !.maxStr = PlusOne(@)] ELSE bounds[a]
  BY <1>1 DEF PlusOneFix, ArgsOf
<1>7. CASE a.fn # f
  <2>1. bounds'[a] = bounds[a] /\ (a.fn \in scopList' <=> a.fn \in scopList)
    BY <1>2, <1>6, <1>7
  <2>2. \A lo, hi : SizeText(a.fn, lo, hi)' = SizeText(a.fn, lo, hi)
    BY <1>4, <2>1 DEF SizeText
  <2>3. BoundsAre(a, P) => BoundsAre(a, P)'
    BY <1>4, <2>1, <2>2 DEF BoundsAre, Smallest, Largest
  <2> QED BY <1>4, <1>5, <2>1, <2>3 DEF BoundsOf
<1>8. CASE a.fn = f
  <2>1. isPointer[a] <=> P # {}
    <3>1. NoScalar(f, Accesses(ScopOf(f)), a.arg)
      BY <1>8, RegularIsReadable
    <3>2. Processed(f) \subseteq Accesses(ScopOf(f))
      BY DEF Processed, Due
    <3>3. isPointer[a] <=> ArrayKinds(f, Processed(f), a.arg) # {}
      BY <1>8, <3>1, <3>2 DEF DetectionInv, AnalysisInv, NoScalar
    <3>4. P = {y \in Processed(f) : AccessOf(f, y).base = a.arg /\ ~AccessOf(f, y).scalar}
      BY <1>8, <3>2 DEF Met, ArrayAccesses, AccessOf, Stmt
    <3> QED BY <3>3, <3>4 DEF ArrayKinds
  <2>2. CASE P = {}
    BY <1>4, <1>5, <1>6, <2>1, <2>2 DEF BoundsOf
  <2>3. CASE P # {}
    <3>1. PICK lo \in P, hi \in P :
            /\ Smallest(f, P, lo) /\ Largest(f, P, hi)
            /\ bounds[a] = BoundsFrom(Offset(f, lo), Offset(f, hi), MaxText(f, hi))
      <4>1. \A l, h : SizeText(f, l, h) = MaxText(f, h)
        BY <1>2 DEF SizeText
      <4> QED BY <1>5, <1>8, <2>3, <4>1 DEF BoundsOf, BoundsAre
    <3>2. SizeText(f, lo, hi)' = IF Offset(f, lo) = 0 THEN PlusOne(MaxText(f, hi))
                                                      ELSE MaxText(f, hi)
      BY <1>2, <1>4 DEF SizeText
    <3>3. bounds'[a] = BoundsFrom(Offset(f, lo), Offset(f, hi), SizeText(f, lo, hi)')
      BY <1>6, <1>8, <2>1, <2>3, <3>1, <3>2 DEF BoundsFrom
    <3>4. Met(a.fn, a.arg)' = P
      BY <1>4
    <3> HIDE DEF P
    <3>5. BoundsAre(a, Met(a.fn, a.arg))'
      BY <1>4, <1>8, <3>1, <3>3, <3>4 DEF BoundsAre, Smallest, Largest
    <3> QED BY <2>3, <3>4, <3>5 DEF BoundsOf
  <2> QED BY <2>2, <2>3
<1> QED BY <1>7, <1>8

LEMMA BoundsInvNext ==
  ASSUME TextsAreRead, DetectionInv, BoundsInv, [DetectionNext]_detectionVars
  PROVE  BoundsInv'
<1>1. CASE AnalysisBegins
  <2>1. UNCHANGED <<module, scopList, bounds>>
    BY <1>1 DEF AnalysisBegins, BeginDetection
  <2> QED BY <1>1, <2>1, NothingIsProcessedYet, BoundsInvUnchanged DEF DetectionInv
<1>2. CASE ProcessAccess
  BY <1>2, ProcessAccessBounds
<1>3. CASE AnalysisEnds
  BY <1>3, AnalysisEndsBounds
<1>4. OtherStep \/ Generation \/ UNCHANGED detectionVars
        => UNCHANGED <<module, detecting, scopList, todo, bounds>>
  BY DEF OtherStep, NoScopFound, DetectionFails, FindRepeatedCalls, NoParentToSearch,
         CloneScop, ParentsAgree, ParentsDiffer, Abort, Generation, GenerationNext,
         sendCodeGenReq, GenerateKernel, AssertFoundArg, EndGeneration, extractionVars,
         detectionVars, accessVars
<1> QED BY <1>1, <1>2, <1>3, <1>4, ProcessedUnchanged, BoundsInvUnchanged DEF DetectionNext

LEMMA DetectionHasBounds == ASSUME TextsAreRead PROVE DetectionSpec => []BoundsInv
<1>1. DetectionInit => BoundsInv
  <2> SUFFICES ASSUME DetectionInit
               PROVE  BoundsInv
    OBVIOUS
  <2>1. \A a \in Args : bounds[a] = NoBounds
    BY DEF DetectionInit, BoundsInit
  <2>2. \A f, base : Met(f, base) = {}
    BY DEF DetectionInit, ExtractionInit, Met, Processed
  <2> QED BY <2>1, <2>2 DEF BoundsInv, BoundsOf
<1>2. DetectionInv /\ BoundsInv /\ [DetectionNext]_detectionVars => BoundsInv'
  BY BoundsInvNext
<1> QED BY <1>1, <1>2, DetectionHasInv, PTL DEF DetectionSpec

(* The bounds of an array of a SCoP whose analysis is complete.            *)
LEMMA AnalysedBounds ==
  ASSUME TextsAreRead, DetectionInv, BoundsInv, NEW a \in Args, a.fn \in scopList,
         RegularScop(ScopOf(a.fn)), NEW P, P = ArrayAccesses(ScopOf(a.fn), a.arg)
  PROVE  /\ P = {} => bounds[a] = NoBounds
         /\ P # {} => \E hi \in P :
              /\ Largest(a.fn, P, hi)
              /\ bounds[a].maxStr = PlusOne(MaxText(a.fn, hi))
         /\ isPointer[a] <=> P # {}
         /\ \A x \in P : Offset(a.fn, x) \in Int
         /\ HasScop(a.fn)
<1> DEFINE f == a.fn
<1>1. HasScop(f)
  BY DEF DetectionInv, ExtractionInv, ParentsRecorded, LoopsRecorded
<1>2. /\ \A i \in DOMAIN ScopOf(f).stmts : Resolved(ScopOf(f).stmts[i])
      /\ seen[a] = KindsOf(ScopOf(f), a.arg) /\ isPointer[a] = (seen[a] # {})
  BY RegularIsReadable, ArrayIsPointer
<1>3. Due(f) = Accesses(ScopOf(f))
  <2>1. \A x \in Accesses(ScopOf(f)) : x.stmt \in DOMAIN ScopOf(f).stmts
    BY DEF Accesses
  <2> QED BY <1>2, <2>1 DEF Due, Stmt
<1>4. Met(f, a.arg) = P
  <2>1. Processed(f) = Accesses(ScopOf(f))
    BY <1>3 DEF Processed, DetectionInv, AnalysisInv
  <2>2. P \subseteq Accesses(ScopOf(f))
    BY DEF ArrayAccesses
  <2> QED BY <2>1, <2>2 DEF Met
<1>5. isPointer[a] <=> P # {}
  BY <1>2 DEF KindsOf
<1>6. \A x \in P : Offset(f, x) \in Int
  BY <1>1, <1>4, MetAreIntegers
<1>7. BoundsOf(a)
  BY <1>1 DEF BoundsInv
<1>8. ASSUME P # {}
      PROVE  \E hi \in P : Largest(f, P, hi) /\ bounds[a].maxStr = PlusOne(MaxText(f, hi))
  <2>1. PICK lo \in P, hi \in P :
          /\ Smallest(f, P, lo) /\ Largest(f, P, hi)
          /\ bounds[a] = BoundsFrom(Offset(f, lo), Offset(f, hi), SizeText(f, lo, hi))
    BY <1>4, <1>7, <1>8 DEF BoundsOf, BoundsAre
  <2>2. Offset(f, lo) = 0
    <3> DEFINE S == {Offset(f, x) : x \in P}
    <3>1. PICK y \in Accesses(ScopOf(f)) : y = hi /\ AccessOf(f, y).base = a.arg
      BY <2>1 DEF ArrayAccesses, AccessOf, Stmt
    <3>2. RegularArray(ScopOf(f), a.arg)
      BY <3>1, ArgsAssumption DEF RegularScop, AccessOf, Stmt
    <3>3. Min(S) = 0
      BY <1>8, <3>2 DEF RegularArray, Offset, AccessOf, Stmt
    <3>4. Offset(f, lo) \in S /\ \A c \in S : Offset(f, lo) <= c
      BY <2>1 DEF Smallest
    <3>5. S \subseteq Int
      BY <1>6
    <3> HIDE DEF S
    <3>6. Min(S) \in S /\ \A c \in S : Min(S) <= c
      BY <3>4 DEF Min
    <3>7. 0 \in S /\ \A c \in S : 0 <= c
      BY <3>3, <3>6
    <3>8. PICK v \in Int : v = Offset(f, lo)
      BY <3>4, <3>5
    <3>9. 0 <= v /\ v <= 0
      BY <3>4, <3>7, <3>8
    <3> QED BY <3>8, <3>9
  <2>3. bounds[a].maxStr = PlusOne(MaxText(f, hi))
    BY <2>1, <2>2 DEF BoundsFrom, SizeText
  <2> QED BY <2>1, <2>3
<1> QED BY <1>1, <1>4, <1>5, <1>6, <1>7, <1>8 DEF BoundsOf

(* Two accesses to an array with the same constant have the same index, in *)
(* one domain, and so the same text.                                       *)
LEMMA SameOffsetSameText ==
  ASSUME TextsAreRead, DetectionInv, NEW f, HasScop(f), RegularScop(ScopOf(f)),
         NEW base, base # PhiHelper,
         NEW x \in ArrayAccesses(ScopOf(f), base), NEW y \in ArrayAccesses(ScopOf(f), base),
         Offset(f, x) = Offset(f, y)
  PROVE  MaxText(f, x) = MaxText(f, y)
<1>1. /\ x \in Accesses(ScopOf(f)) /\ AccessOf(f, x).base = base
      /\ y \in Accesses(ScopOf(f)) /\ AccessOf(f, y).base = base
  BY DEF ArrayAccesses, AccessOf, Stmt
<1>2. RegularArray(ScopOf(f), base)
  BY <1>1 DEF RegularScop, AccessOf, Stmt
<1>3. /\ AccessOf(f, x).index.terms = AccessOf(f, y).index.terms
      /\ Stmt(f, x).iters = Stmt(f, y).iters
      /\ Stmt(f, x).constraints = Stmt(f, y).constraints
  BY <1>2 DEF RegularArray, AccessOf, Stmt
<1>4. AccessOf(f, x).index = AccessOf(f, y).index
  BY <1>1, <1>3, RegularAccess
<1>5. MaxText(f, x) = AtMax(Printed(AccessOf(f, y).index), Stmt(f, x))
  BY <1>4 DEF MaxText
<1>6. \A index : AtMax(index, Stmt(f, x)) = AtMax(index, Stmt(f, y))
  BY <1>3 DEF AtMax
<1> QED BY <1>5, <1>6 DEF MaxText

(* For every set of modules whose texts are read rightly: the size of an   *)
(* array is the same text in all copies of a function, whatever order the  *)
(* accesses came in and however many analyses there were before            *)
(* (scopdetect.cpp:740-820).                                               *)
THEOREM SizesOfCopies == ASSUME TextsAreRead PROVE DetectionSpec => []CopiesHaveSameSizes
<1>1. DetectionInv /\ BoundsInv => CopiesHaveSameSizes
  <2> SUFFICES ASSUME DetectionInv, BoundsInv, stage = "done",
                      NEW f \in scopList, NEW g \in scopList, f.name = g.name,
                      RegularScop(ScopOf(f)), NEW a \in ArgsOf(f), NEW b \in ArgsOf(g),
                      a.arg = b.arg
               PROVE  bounds[a].maxStr = bounds[b].maxStr
    BY DEF CopiesHaveSameSizes, Analysed
  <2>1. /\ a \in Args /\ a.fn = f /\ b \in Args /\ b.fn = g
        /\ ScopOf(g) = ScopOf(f) /\ a.arg # PhiHelper
    BY ArgsAssumption DEF ArgsOf, ScopOf
  <2>2. \A x : AccessOf(g, x) = AccessOf(f, x) /\ Stmt(g, x) = Stmt(f, x)
    BY <2>1 DEF AccessOf, Stmt
  <2> DEFINE P == ArrayAccesses(ScopOf(f), a.arg)
  <2>3. /\ P = {} => bounds[a] = NoBounds
        /\ P # {} => \E hi \in P : /\ Largest(f, P, hi)
                                  /\ bounds[a].maxStr = PlusOne(MaxText(f, hi))
        /\ HasScop(f)
        /\ \A x \in P : Offset(f, x) \in Int
    BY <2>1, AnalysedBounds
  <2>4. /\ P = {} => bounds[b] = NoBounds
        /\ P # {} => \E hi \in P : /\ Largest(f, P, hi)
                                  /\ bounds[b].maxStr = PlusOne(MaxText(f, hi))
    <3>1. /\ P = {} => bounds[b] = NoBounds
          /\ P # {} => \E hi \in P : /\ Largest(g, P, hi)
                                    /\ bounds[b].maxStr = PlusOne(MaxText(g, hi))
      BY <2>1, AnalysedBounds
    <3>2. \A x : Offset(g, x) = Offset(f, x) /\ MaxText(g, x) = MaxText(f, x)
      BY <2>2 DEF Offset, MaxText
    <3> HIDE DEF P
    <3> QED BY <3>1, <3>2 DEF Largest
  <2>5. CASE P # {}
    <3>1. PICK x \in P : Largest(f, P, x) /\ bounds[a].maxStr = PlusOne(MaxText(f, x))
      BY <2>3, <2>5
    <3>2. PICK y \in P : Largest(f, P, y) /\ bounds[b].maxStr = PlusOne(MaxText(f, y))
      BY <2>4, <2>5
    <3>3. PICK c \in Int, d \in Int : c = Offset(f, x) /\ d = Offset(f, y)
      BY <2>3
    <3>4. c <= d /\ d <= c
      BY <3>1, <3>2, <3>3 DEF Largest
    <3>5. Offset(f, x) = Offset(f, y)
      BY <3>3, <3>4
    <3>6. MaxText(f, x) = MaxText(f, y)
      BY <2>1, <2>3, <3>5, SameOffsetSameText
    <3> QED BY <3>1, <3>2, <3>6
  <2> QED BY <2>3, <2>4, <2>5
<1> QED BY <1>1, DetectionHasInv, DetectionHasBounds, PTL

(* What the text of the largest index gives is the largest of all indices  *)
(* by which the array is accessed.                                         *)
LEMMA LargestIndex ==
  ASSUME TextsAreRead, DetectionInv, NEW f, HasScop(f), RegularScop(ScopOf(f)),
         NEW base, base # PhiHelper,
         NEW hi \in ArrayAccesses(ScopOf(f), base),
         Largest(f, ArrayAccesses(ScopOf(f), base), hi),
         NEW params \in [ToSet(ScopOf(f).params) -> 1 .. MaxParam]
  PROVE  ValueOfText(PlusOne(MaxText(f, hi)), ScopOf(f).params, params)
           = 1 + Max(Indices(ScopOf(f), base, params))
<1> DEFINE scop == ScopOf(f)
           all  == ArrayAccesses(scop, base)
           ps   == Points(Stmt(f, hi), params)
           Total(p) == SumOf(AccessOf(f, hi).index.terms, p @@ params)
           Value(x, p) == ValueAt(AccessOf(f, x).index, p @@ params)
           size == ValueOfText(PlusOne(MaxText(f, hi)), scop.params, params)
           S    == Indices(scop, base, params)
<1>1. /\ \A x \in all : x \in Accesses(scop) /\ AccessOf(f, x).base = base
      /\ module \in Modules /\ f.name \in DOMAIN module.scop /\ scop = module.scop[f.name]
  BY DEF ArrayAccesses, AccessOf, Stmt, DetectionInv, ExtractionInv, ExtractionTypeOK,
         HasScop, ScopOf
<1>2. RegularArray(scop, base)
  BY <1>1 DEF RegularScop, AccessOf, Stmt
<1>3. \A x \in all : Offset(f, x) \in Int
  BY <1>1, RegularAccess
<1>4. ExtentIsRead(Stmt(f, hi), AccessOf(f, hi).index, scop.params, params)
  <2>1. /\ RegularScop(module.scop[f.name]) /\ hi \in Accesses(module.scop[f.name])
        /\ params \in [ToSet(module.scop[f.name].params) -> 1 .. MaxParam]
        /\ module.scop[f.name].stmts[hi.stmt].accesses[hi.access].base # PhiHelper
    BY <1>1 DEF AccessOf, Stmt
  <2>2. ExtentIsRead(module.scop[f.name].stmts[hi.stmt],
                     module.scop[f.name].stmts[hi.stmt].accesses[hi.access].index,
                     module.scop[f.name].params, params)
    BY <1>1, <2>1 DEF TextsAreRead
  <2> QED BY <1>1, <2>2 DEF AccessOf, Stmt
<1>5. \A p \in ps : Total(p) \in Int
  BY <1>4 DEF ExtentIsRead
<1>6. PICK top \in ps : size = 1 + Value(hi, top) /\ \A q \in ps : Value(hi, q) <= Value(hi, top)
  BY <1>4 DEF ExtentIsRead, MaxText
<1>7. ASSUME NEW x \in all
      PROVE  /\ Points(Stmt(f, x), params) = ps
             /\ \A p \in ps : Value(x, p) = Offset(f, x) + Total(p)
  <2>1. /\ AccessOf(f, x).index.terms = AccessOf(f, hi).index.terms
        /\ Stmt(f, x).iters = Stmt(f, hi).iters
        /\ Stmt(f, x).constraints = Stmt(f, hi).constraints
    BY <1>2 DEF RegularArray, AccessOf, Stmt
  <2>2. Points(Stmt(f, x), params) = ps
    BY <2>1 DEF Points
  <2> QED BY <2>1, <2>2 DEF ValueAt, Offset
<1>8. S = UNION {{Value(x, p) : p \in Points(Stmt(f, x), params)} : x \in all}
  BY DEF Indices, AccessOf, Stmt
<1> HIDE DEF scop, all, ps, Total, Value, size, S
<1>9. Value(hi, top) \in S
  BY <1>6, <1>7, <1>8 DEF all, scop
<1>10. ASSUME NEW v \in S
       PROVE  v \in Int /\ v <= Value(hi, top)
  <2>1. PICK x \in all, p \in ps : v = Value(x, p)
    BY <1>7, <1>8
  <2>2. PICK c \in Int, d \in Int, s \in Int :
          /\ c = Offset(f, x) /\ d = Offset(f, hi) /\ s = Total(p)
    BY <1>3, <1>5 DEF all, scop
  <2>3. v = c + s /\ Value(hi, p) = d + s
    BY <1>7, <2>1, <2>2 DEF all, scop
  <2>4. c <= d
    BY <2>2 DEF Largest, all, scop
  <2>5. PICK t \in Int : t = Value(hi, top)
    <3>1. Value(hi, top) = Offset(f, hi) + Total(top) /\ Total(top) \in Int
      BY <1>5, <1>7 DEF all, scop
    <3> QED BY <2>2, <3>1
  <2>6. d + s <= t
    BY <1>6, <2>3, <2>5
  <2> QED BY <2>2, <2>3, <2>4, <2>5, <2>6
<1>11. Max(S) = Value(hi, top)
  <2>1. PICK t \in Int : t = Value(hi, top)
    BY <1>9, <1>10
  <2>2. t \in S /\ \A v \in S : v \in Int /\ t >= v
    BY <1>9, <1>10, <2>1
  <2>3. Max(S) \in S /\ \A v \in S : Max(S) >= v
    BY <2>2 DEF Max
  <2>4. PICK m \in Int : m = Max(S)
    BY <2>2, <2>3
  <2>5. m >= t /\ t >= m
    BY <2>2, <2>3, <2>4
  <2> QED BY <2>1, <2>4, <2>5
<1> QED BY <1>6, <1>11 DEF size, S, scop

(* For every set of modules whose texts are read rightly: the size the     *)
(* rewritten application computes for an array is the largest index of all *)
(* its accesses plus 1, whatever order they came in, in all copies of the  *)
(* function (scopdetect.cpp:709-820).                                      *)
THEOREM SizesAreExact == ASSUME TextsAreRead PROVE DetectionSpec => []SizeIsExact
<1>1. DetectionInv /\ BoundsInv => SizeIsExact
  <2> SUFFICES ASSUME DetectionInv, BoundsInv, stage = "done", NEW f \in scopList,
                      RegularScop(ScopOf(f)), NEW a \in ArgsOf(f), isPointer[a],
                      NEW params \in [ToSet(ScopOf(f).params) -> 1 .. MaxParam]
               PROVE  resolveScopValue(a, ScopOf(f).params, params)
                        = 1 + Max(Indices(ScopOf(f), a.arg, params))
    BY DEF SizeIsExact, Analysed
  <2>1. a \in Args /\ a.fn = f /\ a.arg # PhiHelper
    BY ArgsAssumption DEF ArgsOf
  <2> DEFINE P == ArrayAccesses(ScopOf(f), a.arg)
  <2>2. /\ HasScop(f)
        /\ \E hi \in P : Largest(f, P, hi) /\ bounds[a].maxStr = PlusOne(MaxText(f, hi))
    BY <2>1, AnalysedBounds
  <2>3. PICK hi \in P : Largest(f, P, hi) /\ bounds[a].maxStr = PlusOne(MaxText(f, hi))
    BY <2>2
  <2>4. ValueOfText(PlusOne(MaxText(f, hi)), ScopOf(f).params, params)
          = 1 + Max(Indices(ScopOf(f), a.arg, params))
    BY <2>1, <2>2, <2>3, LargestIndex
  <2> QED BY <2>3, <2>4 DEF resolveScopValue
<1> QED BY <1>1, DetectionHasInv, DetectionHasBounds, PTL
-----------------------------------------------------------------------------
LEMMA MinOfTwo ==
  ASSUME NEW m \in Int, NEW n \in Int
  PROVE  Min({m, n}) = IF m <= n THEN m ELSE n
BY DEF Min

(* The values of a function on 1 .. n have a bound. *)
LEMMA ValuesAreBounded ==
  ASSUME NEW n \in Nat, NEW g \in [1 .. n -> Nat]
  PROVE  \E b \in Nat : \A i \in 1 .. n : g[i] <= b
<1> DEFINE Bounded(m)  == \E b \in Nat : \A i \in 1 .. m : g[i] <= b
           Unbounded    == {m \in 0 .. n : ~ Bounded(m)}
<1>1. Bounded(0)
  OBVIOUS
<1>2. ASSUME NEW m \in 1 .. n, Bounded(m - 1)
      PROVE  Bounded(m)
  <2>1. PICK b \in Nat : \A i \in 1 .. m - 1 : g[i] <= b
    BY <1>2
  <2>2. PICK c \in Nat : c = g[m]
    OBVIOUS
  <2>3. ASSUME NEW i \in 1 .. m
        PROVE  g[i] <= b + c
    <3>1. CASE i = m
      BY <2>2, <3>1
    <3>2. CASE i # m
      <4>1. i \in 1 .. m - 1 /\ i \in 1 .. n
        BY <3>2
      <4>2. PICK e \in Nat : e = g[i] /\ e <= b
        BY <2>1, <4>1
      <4> QED BY <4>2
    <3> QED BY <3>1, <3>2
  <2>4. b + c \in Nat
    OBVIOUS
  <2> QED BY <2>3, <2>4
<1> HIDE DEF Bounded
<1>3. Unbounded = {}
  <2> SUFFICES ASSUME Unbounded # {}
               PROVE  FALSE
    OBVIOUS
  <2>1. Unbounded \in SUBSET Nat
    OBVIOUS
  <2>2. PICK m \in Unbounded : \A k \in Unbounded : m <= k
    <3> HIDE DEF Unbounded
    <3> QED BY <2>1, MinIsMember
  <2>3. m \in 1 .. n /\ ~Bounded(m)
    BY <1>1, <2>2
  <2>4. m - 1 \in 0 .. n /\ ~(m <= m - 1)
    BY <2>3
  <2>5. Bounded(m - 1)
    BY <2>2, <2>4
  <2> QED BY <1>2, <2>3, <2>5
<1>4. Bounded(n)
  BY <1>3
<1> QED BY <1>4 DEF Bounded

(* A bounded nonempty set of naturals has a maximum. *)
LEMMA MaxIsMember ==
  ASSUME NEW S \in SUBSET Nat, S # {}, NEW b \in Nat, \A n \in S : n <= b
  PROVE  Max(S) \in S /\ \A n \in S : n <= Max(S)
<1> DEFINE Gaps == {k \in Nat : \E n \in S : n + k = b}
<1>1. Gaps # {}
  <2>1. PICK n \in S : n \in Nat /\ n <= b
    OBVIOUS
  <2>2. b - n \in Nat /\ n + (b - n) = b
    BY <2>1
  <2> QED BY <2>1, <2>2
<1>2. PICK g \in Gaps : \A k \in Gaps : g <= k
  <2>1. Gaps \in SUBSET Nat
    OBVIOUS
  <2> HIDE DEF Gaps
  <2> QED BY <1>1, <2>1, MinIsMember
<1>3. PICK m \in S : m \in Nat /\ m + g = b
  BY <1>2
<1>4. ASSUME NEW n \in S
      PROVE  n <= m
  <2>1. n \in Nat /\ n <= b
    OBVIOUS
  <2>2. PICK k \in Nat : n + k = b
    <3>1. b - n \in Nat /\ n + (b - n) = b
      BY <2>1
    <3> QED BY <3>1
  <2>3. g <= k
    BY <1>2, <2>2
  <2> QED BY <1>2, <1>3, <2>1, <2>2, <2>3
<1>5. \E x \in S : \A y \in S : x >= y
  BY <1>3, <1>4
<1>6. Max(S) \in S /\ \A y \in S : Max(S) >= y
  BY <1>5 DEF Max
<1> QED BY <1>6

(* The number of elements of a set with just one. *)
LEMMA OneElement ==
  ASSUME NEW S, NEW x \in S, \A y \in S : y = x
  PROVE  Cardinality(S) = 1
<1>1. S = {x}
  OBVIOUS
<1> QED BY <1>1, FS_Singleton

(* The first loops of a nest. *)
LEMMA ConvertedLoops ==
  ASSUME NEW f, NEW depth \in Int, NestOf(f) \in Seq(ToSet(NestOf(f))),
         Converted(f, depth) # << >>
  PROVE  \E d \in Nat :
           /\ d <= depth /\ d <= Len(NestOf(f))
           /\ DOMAIN Converted(f, depth) = 1 .. d
           /\ \A i \in 1 .. d : Converted(f, depth)[i] = NestOf(f)[i]
<1> DEFINE nest == NestOf(f)
           d    == IF depth <= Len(nest) THEN depth ELSE Len(nest)
<1>1. Len(nest) \in Nat
  OBVIOUS
<1>2. Converted(f, depth) = SubSeq(nest, 1, d) /\ d \in Int
  BY <1>1, MinOfTwo DEF Converted
<1>3. ~(d < 1)
  BY <1>2, SubSeqEmpty
<1>4. d \in Nat /\ d <= depth /\ d <= Len(nest)
  BY <1>1, <1>2, <1>3
<1>5. \A i \in 1 .. d : nest[i] \in ToSet(nest)
  BY <1>1, <1>4
<1> HIDE DEF d
<1>6. /\ SubSeq(nest, 1, d) \in Seq(ToSet(nest))
      /\ Len(SubSeq(nest, 1, d)) = d
      /\ \A i \in 1 .. d : SubSeq(nest, 1, d)[i] = nest[i]
  BY <1>3, <1>4, <1>5, SubSeqProperties
<1>7. DOMAIN Converted(f, depth) = 1 .. d
  <2>1. \A s : s \in Seq(ToSet(nest)) /\ Len(s) = d => DOMAIN s = 1 .. d
    OBVIOUS
  <2> QED BY <1>2, <1>6, <2>1
<1>8. \A i \in 1 .. d : Converted(f, depth)[i] = nest[i]
  BY <1>2, <1>6
<1> QED BY <1>4, <1>7, <1>8
-----------------------------------------------------------------------------
(* Once the extraction is done, it leaves everything as it is. *)
LEMMA DoneStays ==
  ASSUME ExtractionInv, stage = "done", [ExtractionNext]_extractionVars
  PROVE  UNCHANGED extractionVars
BY DEF ExtractionInv, DoneIsComplete, Idle, ExtractionNext, NoScopFound, BeginDetection,
       ScopFound, DetectionFails, EndDetection, FindRepeatedCalls, NoParentToSearch,
       CloneScop, ParentsAgree, ParentsDiffer

(* A depth is asked for every function in the list. *)
LEMMA CodegenDepthIsNumber ==
  ASSUME DetectionInv, DepthsInv, RequestInv, NEW f \in scopList, NEW k \in Nat \ {0}
  PROVE  /\ CodegenDepth(f, k) \in Int
         /\ maxScopDepth = << >> /\ maxCogeGenLoopDepth = << >> =>
              CodegenDepth(f, k) = getMaxCodegenLoopDepth(ScopOf(f).instructions)
<1>1. f \in DOMAIN scopDS /\ scopDS[f].depth \in Int
  BY DEF DetectionInv, ExtractionInv, ParentsRecorded, LoopsRecorded
<1>2. CASE maxCogeGenLoopDepth = << >>
  <2>1. CodegenDepth(f, k) = scopDS[f].depth
    BY <1>2 DEF CodegenDepth
  <2>2. maxScopDepth = << >> => scopDS[f].depth = CommonDepth(f)
    BY <1>1, EmptySeq DEF DepthsInv
  <2> QED BY <1>1, <2>1, <2>2 DEF CommonDepth
<1>3. CASE maxCogeGenLoopDepth # << >>
  <2>1. maxCogeGenLoopDepth \in Seq(1 .. 3)
    BY DEF RequestInv
  <2>2. Len(maxCogeGenLoopDepth) \in Nat \ {0}
    BY <1>3, <2>1, EmptySeq
  <2>3. \A i \in 1 .. Len(maxCogeGenLoopDepth) : maxCogeGenLoopDepth[i] \in Int
    BY <2>1
  <2>4. CASE k <= Len(maxCogeGenLoopDepth)
    <3>1. CodegenDepth(f, k) = maxCogeGenLoopDepth[k]
      BY <1>3, <2>4 DEF CodegenDepth
    <3> QED BY <1>3, <2>2, <2>3, <2>4, <3>1
  <2>5. CASE ~(k <= Len(maxCogeGenLoopDepth))
    <3>1. CodegenDepth(f, k) = maxCogeGenLoopDepth[Len(maxCogeGenLoopDepth)]
      BY <1>3, <2>5 DEF CodegenDepth, Last
    <3> QED BY <1>3, <2>2, <2>3, <3>1
  <2> QED BY <2>4, <2>5
<1> QED BY <1>2, <1>3

LEMMA RequestInvInit == DetectionInit => RequestInv /\ AnswerInv
<1> SUFFICES ASSUME DetectionInit
             PROVE  RequestInv /\ AnswerInv
  OBVIOUS
<1>1. /\ maxCogeGenLoopDepth \in CodegenOptions /\ generation = "none"
      /\ scoplist = << >> /\ scopfunctions = << >> /\ scopList = {}
  BY DEF DetectionInit, ExtractionInit, GenerationInit
<1>2. maxCogeGenLoopDepth \in Seq(1 .. 3)
  BY <1>1, GenerationAssumption
<1>3. IsFiniteSet(scopList)
  BY <1>1, FS_EmptySet
<1>4. RequestInv
  BY <1>1, <1>2, <1>3 DEF RequestInv
<1>5. AnswerInv
  BY <1>1 DEF AnswerInv
<1> QED BY <1>4, <1>5

LEMMA sendCodeGenReqInv ==
  ASSUME DetectionInv, DepthsInv, RequestInv, AnswerInv, sendCodeGenReq
  PROVE  RequestInv' /\ AnswerInv'
<1>1. PICK list \in [1 .. Cardinality(scopList) -> scopList] :
        scoplist' = [k \in DOMAIN list |->
                       [fn |-> list[k], depth |-> CodegenDepth(list[k], k)]]
  BY DEF sendCodeGenReq
<1>2. /\ stage = "done" /\ generation = "none" /\ generation' = "requested"
      /\ UNCHANGED <<maxCogeGenLoopDepth, scopfunctions, module, maxScopDepth, stage, scopList>>
  BY DEF sendCodeGenReq, extractionVars
<1>3. PICK n \in Nat : n = Cardinality(scopList)
  BY FS_CardinalityType DEF RequestInv
<1>4. ASSUME NEW k \in 1 .. n
      PROVE  /\ scoplist'[k] \in [fn : scopList, depth : Int]
             /\ maxScopDepth = << >> /\ maxCogeGenLoopDepth = << >> =>
                  scoplist'[k].depth
                    = getMaxCodegenLoopDepth(ScopOf(scoplist'[k].fn).instructions)
  <2>1. list[k] \in scopList /\ k \in Nat \ {0}
    BY <1>1, <1>3
  <2>2. scoplist'[k] = [fn |-> list[k], depth |-> CodegenDepth(list[k], k)]
    BY <1>1, <1>3
  <2> QED BY <2>1, <2>2, CodegenDepthIsNumber
<1>5. scoplist' \in Seq([fn : scopList, depth : Int]) /\ DOMAIN scoplist' = 1 .. n
  <2>1. scoplist' \in [1 .. n -> [fn : scopList, depth : Int]]
    BY <1>1, <1>3, <1>4
  <2>2. DOMAIN scoplist' = 1 .. n
    BY <2>1
  <2>3. scoplist' \in Seq([fn : scopList, depth : Int])
    <3> DEFINE S == [fn : scopList, depth : Int]
    <3> HIDE DEF S
    <3>1. scoplist' \in [1 .. n -> S]
      BY <2>1 DEF S
    <3>2. scoplist' \in Seq(S)
      BY <1>3, <3>1, SeqDef
    <3> QED BY <3>2 DEF S
  <2> QED BY <2>2, <2>3
<1>6. RequestInv'
  BY <1>2, <1>4, <1>5 DEF RequestInv, ScopOf
<1>7. AnswerInv'
  BY <1>2, <1>5 DEF AnswerInv, RequestInv
<1> QED BY <1>6, <1>7

LEMMA IsKernelOfUnchanged ==
  ASSUME UNCHANGED module, NEW dims, NEW f, NEW depth
  PROVE  IsKernelOf(dims, f, depth)' <=> IsKernelOf(dims, f, depth)
<1>1. Converted(f, depth)' = Converted(f, depth)
  BY DEF Converted, NestOf, ScopOf
<1> QED BY <1>1 DEF IsKernelOf

LEMMA AnswerInvUnchanged ==
  ASSUME AnswerInv, UNCHANGED <<module, scoplist, scopfunctions>>
  PROVE  AnswerInv'
<1>1. ASSUME NEW k \in DOMAIN scopfunctions
      PROVE  IsKernelOf(scopfunctions[k], scoplist[k].fn, scoplist[k].depth)'
  <2>1. PICK dims, f, depth :
          dims = scopfunctions[k] /\ f = scoplist[k].fn /\ depth = scoplist[k].depth
    OBVIOUS
  <2>2. IsKernelOf(dims, f, depth)'
    BY <2>1, IsKernelOfUnchanged DEF AnswerInv
  <2> QED BY <2>1, <2>2
<1> QED BY <1>1 DEF AnswerInv

(* The answer is about one more function of the request. *)
LEMMA GenerateKernelInv ==
  ASSUME RequestInv, AnswerInv, GenerateKernel
  PROVE  RequestInv' /\ AnswerInv'
<1>1. UNCHANGED <<maxCogeGenLoopDepth, generation, scoplist, module, maxScopDepth, stage, scopList>>
  BY DEF GenerateKernel, extractionVars
<1>2. RequestInv'
  BY <1>1 DEF RequestInv, GenerateKernel, ScopOf
<1>3. PICK n \in Nat : n = Len(scopfunctions) /\ n < Len(scoplist)
  BY DEF AnswerInv, GenerateKernel
<1>4. PICK dims :
        /\ IsKernelOf(dims, scoplist[n + 1].fn, scoplist[n + 1].depth)
        /\ scopfunctions' = Append(scopfunctions, dims)
  BY <1>3 DEF GenerateKernel, Wanted, IsKernelOf
<1>5. /\ scopfunctions' \in Seq(ToSet(scopfunctions')) /\ Len(scopfunctions') = n + 1
      /\ \A k \in 1 .. n : scopfunctions'[k] = scopfunctions[k]
      /\ scopfunctions'[n + 1] = dims
  <2> DEFINE all == ToSet(scopfunctions) \cup {dims}
  <2>1. scopfunctions \in Seq(all)
    <3>1. scopfunctions \in Seq(ToSet(scopfunctions))
      BY DEF AnswerInv
    <3> QED BY <3>1, SeqMonotonic
  <2>2. /\ scopfunctions' \in Seq(all) /\ Len(scopfunctions') = n + 1
        /\ \A k \in 1 .. n : scopfunctions'[k] = scopfunctions[k]
        /\ scopfunctions'[n + 1] = dims
    <3> HIDE DEF all
    <3>1. dims \in all
      BY DEF all
    <3> QED BY <1>3, <1>4, <2>1, <3>1, AppendProperties
  <2>3. scopfunctions' \in [1 .. n + 1 -> ToSet(scopfunctions')]
    BY <2>2 DEF ToSet
  <2>4. scopfunctions' \in Seq(ToSet(scopfunctions'))
    BY <2>3, SeqDef
  <2> QED BY <2>2, <2>4
<1>6. ASSUME NEW k \in 1 .. n + 1
      PROVE  IsKernelOf(scopfunctions'[k], scoplist[k].fn, scoplist[k].depth)
  <2>1. CASE k = n + 1
    BY <1>4, <1>5, <2>1
  <2>2. CASE k # n + 1
    <3>1. k \in 1 .. n
      BY <2>2
    <3>2. k \in DOMAIN scopfunctions
      BY <1>3, <3>1 DEF AnswerInv
    <3> QED BY <1>5, <3>1, <3>2 DEF AnswerInv
  <2> QED BY <2>1, <2>2
<1>7. DOMAIN scopfunctions' = 1 .. n + 1 /\ Len(scopfunctions') <= Len(scoplist')
  <2>1. Len(scoplist) \in Nat /\ scoplist' = scoplist
    BY <1>1 DEF RequestInv
  <2> QED BY <1>3, <1>5, <2>1
<1>8. AnswerInv'
  <2>1. ASSUME NEW k \in 1 .. n + 1
        PROVE  IsKernelOf(scopfunctions[k], scoplist[k].fn, scoplist[k].depth)'
    <3>1. PICK one, f, depth :
            one = scopfunctions'[k] /\ f = scoplist[k].fn /\ depth = scoplist[k].depth
      OBVIOUS
    <3>2. IsKernelOf(one, f, depth)'
      BY <1>1, <1>6, <3>1, IsKernelOfUnchanged
    <3> QED BY <1>1, <3>1, <3>2
  <2> QED BY <1>5, <1>7, <2>1 DEF AnswerInv
<1> QED BY <1>2, <1>8

(* The detection before the request.                                       *)
LEMMA DetectionRequestInv ==
  ASSUME DetectionInv, RequestInv, AnswerInv, [ExtractionNext]_extractionVars,
         UNCHANGED generationVars
  PROVE  RequestInv' /\ AnswerInv'
<1>1. CASE stage = "done"
  <2>1. UNCHANGED extractionVars
    BY <1>1, DoneStays DEF DetectionInv
  <2>2. UNCHANGED <<module, maxScopDepth, stage, scopList>>
    BY <2>1 DEF extractionVars
  <2>3. RequestInv'
    BY <2>2 DEF RequestInv, generationVars, ScopOf
  <2> QED BY <2>2, <2>3, AnswerInvUnchanged DEF generationVars
<1>2. CASE stage # "done"
  <2>1. generation = "none" /\ scoplist = << >> /\ scopfunctions = << >>
    BY <1>2 DEF RequestInv
  <2>2. IsFiniteSet(scopList)'
    <3>1. IsFiniteSet(scopList)
      BY DEF RequestInv
    <3>2. CASE EndDetection
      <4>1. PICK f \in detecting : scopList' = scopList \cup {f}
        BY <3>2 DEF EndDetection, DetectionInv, ExtractionInv, AnalysedOnce
      <4> QED BY <3>1, <4>1, FS_AddElement
    <3>3. CASE UNCHANGED scopList
      BY <3>1, <3>3
    <3> QED BY <3>2, <3>3
        DEF ExtractionNext, NoScopFound, BeginDetection, DetectionFails, FindRepeatedCalls,
            NoParentToSearch, CloneScop, ParentsAgree, ParentsDiffer, Abort, extractionVars
  <2>3. RequestInv'
    BY <2>1, <2>2 DEF RequestInv, generationVars
  <2>4. AnswerInv'
    BY <2>1 DEF AnswerInv, generationVars
  <2> QED BY <2>3, <2>4
<1> QED BY <1>1, <1>2

LEMMA RequestInvNext ==
  ASSUME DetectionInv, DepthsInv, RequestInv, AnswerInv, [DetectionNext]_detectionVars
  PROVE  RequestInv' /\ AnswerInv'
<1>1. CASE sendCodeGenReq
  BY <1>1, sendCodeGenReqInv
<1>2. CASE GenerateKernel
  BY <1>2, GenerateKernelInv
<1>3. CASE AssertFoundArg \/ EndGeneration
  <2>1. /\ UNCHANGED <<module, maxScopDepth, stage, scopList>>
        /\ UNCHANGED <<maxCogeGenLoopDepth, scoplist, scopfunctions>>
        /\ generation = "requested" /\ generation' # "none"
    BY <1>3 DEF AssertFoundArg, EndGeneration, extractionVars
  <2>2. RequestInv'
    BY <2>1 DEF RequestInv, ScopOf
  <2> QED BY <2>1, <2>2, AnswerInvUnchanged
<1>4. CASE UNCHANGED generationVars
  BY <1>4, DetectionStepExtracts, DetectionRequestInv
<1> QED BY <1>1, <1>2, <1>3, <1>4
    DEF DetectionNext, AnalysisBegins, ProcessAccess, AnalysisEnds, OtherStep, Generation,
        GenerationNext, detectionVars

LEMMA DetectionHasRequest == DetectionSpec => [](RequestInv /\ AnswerInv)
BY RequestInvInit, RequestInvNext, DetectionHasInv, DetectionHasDepths, PTL DEF DetectionSpec
-----------------------------------------------------------------------------
LEMMA PrefixAgrees ==
  ASSUME NEW s, s \in Seq(ToSet(s)), NEW r, r \in Seq(ToSet(r)), IsPrefix(s, r),
         NEW i \in 1 .. Len(s)
  PROVE  s[i] = r[i]
<1> DEFINE all == ToSet(s) \cup ToSet(r)
<1>1. s \in Seq(all) /\ r \in Seq(all)
  BY SeqMonotonic
<1> HIDE DEF all
<1>2. PICK n \in Nat : n = Len(s) /\ n <= Len(r) /\ SubSeq(s, 1, n) = SubSeq(r, 1, n)
  BY <1>1 DEF IsPrefix
<1>3. \A j \in 1 .. n : s[j] \in all /\ r[j] \in all
  BY <1>1, <1>2
<1>4. \A j \in 1 .. n : SubSeq(s, 1, n)[j] = s[j] /\ SubSeq(r, 1, n)[j] = r[j]
  BY <1>2, <1>3, SubSeqProperties
<1> QED BY <1>2, <1>4

(* The data of a SCoP that has been analysed. *)
LEMMA AnalysedScop ==
  ASSUME DetectionInv, NEW f \in scopList
  PROVE  /\ NestOf(f) \in Seq(ToSet(NestOf(f)))
         /\ \A loop \in ToSet(NestOf(f)) :
              loop.limit \in ToSet(ScopOf(f).params) \cup {NoArgument}
         /\ \A s \in StoreSet(ScopOf(f).instructions) :
              s.loops \in Seq(ToSet(s.loops)) /\ IsInjective(s.loops)
<1>1. HasScop(f) /\ module \in Modules
  BY DEF DetectionInv, ExtractionInv, ParentsRecorded, LoopsRecorded, ExtractionTypeOK
<1> QED BY <1>1, NestsAssumption, ScopsAssumption DEF HasScop, ScopOf, NestOf, StoreSet

LEMMA RequestedFunction ==
  ASSUME RequestInv, NEW k \in DOMAIN scoplist
  PROVE  scoplist[k].fn \in scopList /\ scoplist[k].depth \in Int
<1>1. scoplist \in Seq([fn : scopList, depth : Int])
  BY DEF RequestInv
<1>2. scoplist[k] \in [fn : scopList, depth : Int]
  BY <1>1, LenProperties, ElementOfSeq
<1> QED BY <1>2

(* No store is in fewer loops than the request asks for. *)
LEMMA DepthIsReached ==
  ASSUME DetectionInv, RequestInv, NEW k \in DOMAIN scoplist, DepthIsChosenWell(k),
         NEW s \in StoreSet(ScopOf(scoplist[k].fn).instructions), s.loops # << >>
  PROVE  scoplist[k].depth <= LoopDepth(s)
<1> DEFINE f      == scoplist[k].fn
           depths == StoreDepths(ScopOf(f).instructions) \ {0}
<1>1. f \in scopList
  BY RequestedFunction
<1>2. depths \in SUBSET Nat
  BY <1>1, AnalysedScop DEF StoreDepths, LoopDepth
<1>3. LoopDepth(s) \in depths
  <2>1. s.loops \in Seq(ToSet(s.loops))
    BY <1>1, AnalysedScop
  <2>2. LoopDepth(s) # 0
    BY <2>1, EmptySeq DEF LoopDepth
  <2> QED BY <2>2 DEF StoreDepths
<1>4. Min(depths) <= LoopDepth(s)
  <2> HIDE DEF depths
  <2> QED BY <1>2, <1>3, MinIsMember
<1>5. CASE maxScopDepth = << >> /\ maxCogeGenLoopDepth = << >>
  <2>1. scoplist[k].depth = Min(depths)
    BY <1>5 DEF RequestInv, getMaxCodegenLoopDepth, minDepthLoop
  <2> QED BY <1>4, <2>1
<1> QED BY <1>5 DEF DepthIsChosenWell

(* The loops of a kernel's dimensions are the outermost ones of a store,   *)
(* and the work items are counted by their limits.                         *)
LEMMA DimensionsAreOuterLoops ==
  ASSUME DetectionInv, RequestInv, AnswerInv, generation = "answered",
         NEW k \in DOMAIN scopfunctions, OneNest(scoplist[k].fn), DepthIsChosenWell(k),
         NEW s \in StoreSet(ScopOf(scoplist[k].fn).instructions)
  PROVE  \E d \in Nat :
           /\ DOMAIN scopfunctions[k] = 1 .. d
           /\ 1 .. d \subseteq DOMAIN s.loops
           /\ \A i \in 1 .. d :
                /\ s.loops[i] = NestOf(scoplist[k].fn)[i]
                /\ s.loops[i].limit # NoArgument
                /\ s.loops[i].limit \in ToSet(ScopOf(scoplist[k].fn).params)
                /\ scopfunctions[k][i] = s.loops[i].limit
<1> DEFINE f     == scoplist[k].fn
           depth == scoplist[k].depth
           nest  == NestOf(f)
           loops == Converted(f, depth)
<1>1. k \in DOMAIN scoplist
  BY DEF AnswerInv, RequestInv
<1>2. f \in scopList /\ depth \in Int
  BY <1>1, RequestedFunction
<1>3. nest \in Seq(ToSet(nest)) /\ s.loops \in Seq(ToSet(s.loops))
  BY <1>2, AnalysedScop
<1>4. /\ loops # << >> /\ \A i \in DOMAIN loops : loops[i].limit # NoArgument
      /\ scopfunctions[k] = [i \in DOMAIN loops |-> loops[i].limit]
  BY DEF AnswerInv, IsKernelOf
<1>5. s.loops # << >> /\ (IsPrefix(s.loops, nest) \/ IsPrefix(nest, s.loops))
  BY DEF OneNest
<1>6. depth <= Len(s.loops)
  BY <1>1, <1>5, DepthIsReached DEF LoopDepth
<1> HIDE DEF f, depth, nest, loops
<1>7. PICK d \in Nat : /\ d <= depth /\ d <= Len(nest) /\ DOMAIN loops = 1 .. d
                       /\ \A i \in 1 .. d : loops[i] = nest[i]
  BY <1>2, <1>3, <1>4, ConvertedLoops DEF nest, loops
<1>8. d <= Len(s.loops) /\ Len(s.loops) \in Nat /\ Len(nest) \in Nat
  BY <1>2, <1>3, <1>6, <1>7
<1>9. ASSUME NEW i \in 1 .. d
      PROVE  s.loops[i] = nest[i]
  <2>1. i \in 1 .. Len(s.loops) /\ i \in 1 .. Len(nest)
    BY <1>7, <1>8
  <2> QED BY <1>3, <1>5, <2>1, PrefixAgrees
<1>10. 1 .. d \subseteq DOMAIN s.loops
  BY <1>3, <1>7, <1>8
<1>11. ASSUME NEW i \in 1 .. d
       PROVE  nest[i].limit \in ToSet(ScopOf(f).params) \cup {NoArgument}
  <2>1. nest[i] \in ToSet(nest)
    BY <1>3, <1>7, <1>8
  <2> QED BY <1>2, <2>1, AnalysedScop DEF nest
<1>12. DOMAIN scopfunctions[k] = 1 .. d
  BY <1>4, <1>7
<1>13. ASSUME NEW i \in 1 .. d
       PROVE  /\ s.loops[i].limit # NoArgument
              /\ s.loops[i].limit \in ToSet(ScopOf(f).params)
              /\ scopfunctions[k][i] = s.loops[i].limit
  <2>1. i \in DOMAIN loops /\ loops[i] = s.loops[i]
    BY <1>7, <1>9
  <2>2. loops[i].limit # NoArgument /\ scopfunctions[k][i] = loops[i].limit
    BY <1>4, <2>1
  <2> QED BY <1>9, <1>11, <2>1, <2>2
<1> QED BY <1>9, <1>10, <1>12, <1>13 DEF f, nest

(* The work items of a kernel of which the dimensions have the sizes g. *)
LEMMA WorkItemExists ==
  ASSUME NEW d \in Nat, NEW g \in [1 .. d -> Nat], NEW w \in [1 .. d -> Nat],
         \A i \in 1 .. d : w[i] < g[i]
  PROVE  w \in [1 .. d -> 0 .. Max({0} \cup Range(g))]
<1> DEFINE sizes == {0} \cup Range(g)
<1>1. PICK b \in Nat : \A i \in 1 .. d : g[i] <= b
  BY ValuesAreBounded
<1>2. sizes \in SUBSET Nat /\ sizes # {} /\ \A n \in sizes : n <= b
  BY <1>1 DEF Range
<1>3. \A i \in 1 .. d : g[i] \in sizes
  BY DEF Range
<1> HIDE DEF sizes
<1>4. Max(sizes) \in Nat /\ \A n \in sizes : n <= Max(sizes)
  BY <1>1, <1>2, MaxIsMember
<1>5. ASSUME NEW i \in 1 .. d
      PROVE  w[i] \in 0 .. Max(sizes)
  <2>1. PICK x \in Nat, y \in Nat : x = w[i] /\ y = g[i] /\ x < y
    OBVIOUS
  <2>2. y <= Max(sizes)
    BY <1>3, <1>4, <2>1
  <2> QED BY <1>4, <2>1, <2>2
<1> QED BY <1>5 DEF sizes

(* An iteration of a store is run by the work item with the numbers of the *)
(* outer loops, and by no other.                                           *)
LEMMA IterationHasOneWorkItem ==
  ASSUME DetectionInv, RequestInv, AnswerInv, generation = "answered",
         NEW k \in DOMAIN scopfunctions, OneNest(scoplist[k].fn), DepthIsChosenWell(k),
         NEW s \in StoreSet(ScopOf(scoplist[k].fn).instructions),
         NEW value \in [ToSet(ScopOf(scoplist[k].fn).params) -> Nat],
         NEW v \in [DOMAIN s.loops -> Nat],
         \A i \in DOMAIN s.loops : v[i] < Runs(s.loops[i], value)
  PROVE  Cardinality({id \in WorkItems(k, value) :
                        RunsIteration(id, scoplist[k].fn, s, v)}) = 1
<1> DEFINE f    == scoplist[k].fn
           dims == scopfunctions[k]
<1>1. PICK d \in Nat :
        /\ DOMAIN dims = 1 .. d
        /\ 1 .. d \subseteq DOMAIN s.loops
        /\ \A i \in 1 .. d : /\ s.loops[i] = NestOf(f)[i]
                             /\ s.loops[i].limit # NoArgument
                             /\ s.loops[i].limit \in ToSet(ScopOf(f).params)
                             /\ dims[i] = s.loops[i].limit
  BY DimensionsAreOuterLoops
<1>2. IsInjective(s.loops)
  <2>1. k \in DOMAIN scoplist
    BY DEF AnswerInv, RequestInv
  <2> QED BY <2>1, RequestedFunction, AnalysedScop
<1> DEFINE g    == [i \in 1 .. d |-> value[dims[i]]]
           w    == [i \in 1 .. d |-> v[i]]
           runs == {id \in WorkItems(k, value) : RunsIteration(id, f, s, v)}
<1>3. g \in [1 .. d -> Nat] /\ w \in [1 .. d -> Nat]
  BY <1>1
<1>4. \A i \in 1 .. d : w[i] < g[i]
  BY <1>1 DEF Runs
<1>5. WorkItems(k, value)
        = {id \in [1 .. d -> 0 .. Max({0} \cup Range(g))] : \A i \in 1 .. d : id[i] < g[i]}
  BY <1>1 DEF WorkItems
<1>6. w \in WorkItems(k, value)
  <2> HIDE DEF g, w
  <2> QED BY <1>3, <1>4, <1>5, WorkItemExists
<1>7. RunsIteration(w, f, s, v)
  <2> SUFFICES ASSUME NEW i \in 1 .. d, NEW j \in DOMAIN v, s.loops[j] = NestOf(f)[i]
               PROVE  v[i] = v[j]
    BY DEF RunsIteration
  <2>1. i \in DOMAIN s.loops /\ j \in DOMAIN s.loops /\ s.loops[j] = s.loops[i]
    BY <1>1
  <2> QED BY <1>2, <2>1 DEF IsInjective
<1>8. ASSUME NEW id \in runs
      PROVE  id = w
  <2>1. id \in [1 .. d -> 0 .. Max({0} \cup Range(g))]
    BY <1>5
  <2>2. ASSUME NEW i \in 1 .. d
        PROVE  id[i] = v[i]
    <3>1. i \in DOMAIN id /\ i \in DOMAIN v /\ s.loops[i] = NestOf(f)[i]
      BY <1>1, <2>1
    <3> QED BY <3>1 DEF RunsIteration
  <2> QED BY <2>1, <2>2
<1>9. w \in runs
  BY <1>6, <1>7
<1> HIDE DEF runs, w
<1>10. Cardinality(runs) = 1
  BY <1>8, <1>9, OneElement
<1> QED BY <1>10 DEF runs

(* StoresRunOnce for all values of the arguments.                          *)
StoresRunOnceForAll ==
  \A k \in DOMAIN scopfunctions :
    LET f == scoplist[k].fn
    IN  generation = "answered" /\ OneNest(f) /\ DepthIsChosenWell(k) =>
          \A s \in StoreSet(ScopOf(f).instructions) :
            \A value \in [ToSet(ScopOf(f).params) -> Nat], v \in [DOMAIN s.loops -> Nat] :
              (\A i \in DOMAIN s.loops : v[i] < Runs(s.loops[i], value)) =>
                Cardinality({id \in WorkItems(k, value) : RunsIteration(id, f, s, v)}) = 1

(* For every set of modules, all options and all values of the arguments,  *)
(* however large: the work items of a kernel together run every iteration  *)
(* of every store of the function exactly once (depdetect.cpp:137,         *)
(* openCLCbackend.cpp:186, htropclient.cpp:928).                           *)
THEOREM EveryIterationRunsOnce == DetectionSpec => [](StoresRunOnceForAll /\ StoresRunOnce)
<1>1. DetectionInv /\ RequestInv /\ AnswerInv => StoresRunOnceForAll
  BY IterationHasOneWorkItem DEF StoresRunOnceForAll
<1>2. StoresRunOnceForAll => StoresRunOnce
  <2> SUFFICES ASSUME StoresRunOnceForAll, NEW k \in DOMAIN scopfunctions,
                      generation = "answered", OneNest(scoplist[k].fn), DepthIsChosenWell(k),
                      NEW s \in StoreSet(ScopOf(scoplist[k].fn).instructions),
                      NEW value \in [ToSet(ScopOf(scoplist[k].fn).params) -> 0 .. MaxParam],
                      NEW v \in Iterations(s, value)
               PROVE  Cardinality({id \in WorkItems(k, value) :
                                     RunsIteration(id, scoplist[k].fn, s, v)}) = 1
    BY DEF StoresRunOnce
  <2>1. value \in [ToSet(ScopOf(scoplist[k].fn).params) -> Nat]
    BY DEF MaxParam
  <2>2. /\ v \in [DOMAIN s.loops -> Nat]
        /\ \A i \in DOMAIN s.loops : v[i] < Runs(s.loops[i], value)
    BY DEF Iterations, MaxIterator
  <2> QED BY <2>1, <2>2 DEF StoresRunOnceForAll
<1> QED BY <1>1, <1>2, DetectionHasInv, DetectionHasRequest, PTL
=============================================================================
