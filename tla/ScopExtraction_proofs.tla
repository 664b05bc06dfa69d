------------------------ MODULE ScopExtraction_proofs ------------------------
(***************************************************************************)
(* For every module and every list of depths: once the analysis is done,   *)
(* no two calls share a SCoP function, and loop levels have names.         *)
(***************************************************************************)
EXTENDS ScopExtraction, WellFoundedInduction, TLAPS

(* The copies made so far have numbers below seq. *)
Made == {f \in [name : Names(module), copy : Nat] : f.copy < seq}

Listed == {candidates[i] : i \in DOMAIN candidates}
Known  == Listed \cup detecting \cup scopList

ExtractionTypeOK ==
  /\ module \in Modules
  /\ stage \in {"functions", "copies", "done", "aborted"}
  /\ seq \in Nat
  /\ DOMAIN candidates \subseteq Nat
  /\ Known \subseteq Made
  /\ DOMAIN calls = Names(module)
  /\ repeatedCalls \subseteq Nat
  /\ scopFunctionParent \in Callers(module) \cup {Undefined}

(* A call still calls the function it did, or a copy of it. *)
CallsKept ==
  \A p \in Names(module) :
    /\ calls[p] \in Seq(Made)
    /\ DOMAIN calls[p] = DOMAIN module.calls[p]
    /\ \A i \in DOMAIN calls[p] : calls[p][i].name = module.calls[p][i]

(* Every function with a SCoP that is called is analysed sooner or later.  *)
NoneForgotten ==
  \A p \in Callers(module) : \A i \in DOMAIN calls[p] :
    HasScop(calls[p][i]) /\ calls[p][i].name \notin module.check
      => calls[p][i] \in Known

(* The parent of a SCoP function is the only function that calls it. *)
ParentIsCaller ==
  \A f \in detecting \cup scopList : \A p \in CallersOf(f) : scopDS[f].parent = p

ParentOfLast ==
  scopFunctionParent # Undefined =>
    \E f \in scopList : scopDS[f].parent = scopFunctionParent

ParentsRecorded ==
  /\ detecting \cup scopList \subseteq DOMAIN scopDS
  /\ \A f \in DOMAIN scopDS : scopDS[f].parent \in Callers(module) \cup {Undefined}

(* While copies are made, the functions in progress are called by the      *)
(* parent, and every call of the parent that shares its function with an   *)
(* earlier one is still to be replaced.                                    *)
RepeatsRemain ==
  stage \in {"copies", "done"} =>
    /\ scopFunctionParent # Undefined
    /\ repeatedCalls \subseteq DOMAIN calls[scopFunctionParent]
    /\ Listed \cup detecting \subseteq ToSet(calls[scopFunctionParent])
    /\ \A i, j \in DOMAIN calls[scopFunctionParent] :
         /\ i < j
         /\ calls[scopFunctionParent][i] = calls[scopFunctionParent][j]
         /\ calls[scopFunctionParent][i] \in Known
         => j \in repeatedCalls

DoneIsComplete ==
  stage = "done" => repeatedCalls = {} /\ Idle /\ OneParent

(* No function is analysed twice. *)
AnalysedOnce ==
  /\ \A i, j \in DOMAIN candidates : candidates[i] = candidates[j] => i = j
  /\ Listed \cap (detecting \cup scopList) = {}
  /\ \A f, g \in detecting : f = g

ExtractionInv ==
  /\ ExtractionTypeOK /\ CallsKept /\ NoneForgotten /\ ParentIsCaller
  /\ ParentOfLast /\ ParentsRecorded /\ RepeatsRemain /\ DoneIsComplete
  /\ AnalysedOnce
-----------------------------------------------------------------------------
(* A nonempty set of naturals has a minimum, which is one of its elements. *)
LEMMA MinIsMember ==
  ASSUME NEW S \in SUBSET Nat, S # {}
  PROVE  Min(S) \in S /\ \A n \in S : Min(S) =< n
<1> DEFINE Less == OpToRel(<, Nat)
<1>0. IsWellFoundedOn(Less, Nat)
  BY NatLessThanWellFounded
<1>1. PICK m \in S : \A n \in S : ~ (<<n, m>> \in Less)
  <2> HIDE DEF Less
  <2> QED BY <1>0, WFMin
<1>2. ASSUME NEW n \in S
      PROVE  m =< n
  <2>1. n < m => <<n, m>> \in Less
    BY DEF OpToRel
  <2> HIDE DEF Less
  <2> QED BY <1>1, <2>1
<1> QED BY <1>2 DEF Min

(* What taking the next candidate from the list leaves in it. *)
LEMMA TakingCandidate ==
  ASSUME DOMAIN candidates \subseteq Nat, DOMAIN candidates # {},
         candidates' = Remaining
  PROVE  /\ NextCandidate \in Listed
         /\ Listed' \subseteq Listed
         /\ Listed = Listed' \cup {NextCandidate}
         /\ DOMAIN candidates' \subseteq Nat
         /\ AnalysedOnce => /\ NextCandidate \notin Listed'
                            /\ \A i, j \in DOMAIN candidates' :
                                 candidates'[i] = candidates'[j] => i = j
<1>1. NextPosition \in DOMAIN candidates
  BY MinIsMember DEF NextPosition
<1>2. /\ DOMAIN candidates' = DOMAIN candidates \ {NextPosition}
      /\ \A i \in DOMAIN candidates' : candidates'[i] = candidates[i]
  BY DEF Remaining, Restrict
<1> QED BY <1>1, <1>2 DEF Listed, NextCandidate, AnalysedOnce

LEMMA OriginalHasName == \A name : Original(name).name = name
  BY DEF Original

LEMMA ExtractionInitInv == ExtractionInit => ExtractionInv
<1> SUFFICES ASSUME ExtractionInit
             PROVE  ExtractionInv
  OBVIOUS
<1> USE DEF ExtractionInit
<1>1. /\ module.functions \in Seq(Names(module))
      /\ IsInjective(module.functions)
      /\ DOMAIN module.scop \subseteq Names(module)
      /\ module.calls \in [Names(module) -> Seq(Names(module))]
      /\ Names(module) = {module.functions[i] : i \in DOMAIN module.functions}
  BY ModulesAssumption DEF Names, ToSet
<1>2. /\ DOMAIN module.functions \subseteq Nat
      /\ DOMAIN candidates \subseteq DOMAIN module.functions
      /\ \A i \in DOMAIN candidates : candidates[i] = Original(module.functions[i])
      /\ \A i \in DOMAIN module.functions :
            module.functions[i] \notin module.check => i \in DOMAIN candidates
  BY <1>1 DEF Restrict, Originals
<1>3. \A name \in Names(module) : Original(name) \in Made
  BY DEF Original, Made
<1>4. Known \subseteq Made
  BY <1>1, <1>2, <1>3 DEF Known, Listed
<1>5. ExtractionTypeOK
  BY <1>2, <1>4 DEF ExtractionTypeOK
<1>6. CallsKept
  <2> SUFFICES ASSUME NEW p \in Names(module)
               PROVE  /\ calls[p] \in Seq(Made)
                      /\ DOMAIN calls[p] = DOMAIN module.calls[p]
                      /\ \A i \in DOMAIN calls[p] : calls[p][i].name = module.calls[p][i]
    BY DEF CallsKept
  <2>1. module.calls[p] \in Seq(Names(module)) /\ calls[p] = Originals(module.calls[p])
    BY <1>1
  <2> QED BY <2>1, <1>3 DEF Originals, Original
<1>7. NoneForgotten
  <2> SUFFICES ASSUME NEW p \in Callers(module), NEW i \in DOMAIN calls[p],
                      calls[p][i].name \notin module.check
               PROVE  calls[p][i] \in Listed
    BY DEF NoneForgotten, Known
  <2>1. p \in Names(module)
    BY DEF Callers
  <2>2. calls[p] = Originals(module.calls[p]) /\ module.calls[p] \in Seq(Names(module))
    BY <2>1, <1>1
  <2>3. calls[p][i] = Original(module.calls[p][i]) /\ module.calls[p][i] \in Names(module)
    BY <2>2 DEF Originals
  <2>4. PICK j \in DOMAIN module.functions : module.functions[j] = module.calls[p][i]
    BY <2>3, <1>1
  <2>5. calls[p][i].name = module.calls[p][i]
    BY <2>3 DEF Original
  <2>6. j \in DOMAIN candidates /\ candidates[j] = calls[p][i]
    BY <2>3, <2>4, <2>5, <1>2
  <2> QED BY <2>6 DEF Listed
<1>8. AnalysedOnce
  <2>1. \A i, j \in DOMAIN module.functions :
          module.functions[i] = module.functions[j] => i = j
    <3> HIDE DEF ExtractionInit
    <3> QED BY <1>1 DEF IsInjective
  <2>2. \A i, j \in DOMAIN candidates :
          candidates[i] = candidates[j] => module.functions[i] = module.functions[j]
    <3> HIDE DEF ExtractionInit
    <3> QED BY <1>2, OriginalHasName
  <2>3. \A i, j \in DOMAIN candidates : candidates[i] = candidates[j] => i = j
    <3> HIDE DEF ExtractionInit
    <3> QED BY <2>1, <2>2, <1>2
  <2> QED BY <2>3 DEF AnalysedOnce
<1> QED BY <1>5, <1>6, <1>7, <1>8
  DEF ExtractionInv, ParentIsCaller, ParentOfLast, ParentsRecorded, RepeatsRemain,
      DoneIsComplete
-----------------------------------------------------------------------------
(* The end of the process leaves everything but the stage.                 *)
LEMMA AbortInv ==
  ASSUME ExtractionInv, Abort
  PROVE  ExtractionInv'
<1>1. Known' = Known /\ Listed' = Listed
  BY DEF Abort, Known, Listed
<1>2. \A f : CallersOf(f)' = CallersOf(f)
  BY DEF Abort, CallersOf, Callers
<1> USE DEF ExtractionInv, Abort
<1>3. ExtractionTypeOK'
  BY <1>1 DEF ExtractionTypeOK, Made, Callers, Names
<1>4. CallsKept'
  BY DEF CallsKept, Made, Names
<1>5. NoneForgotten'
  BY <1>1 DEF NoneForgotten, HasScop, Callers, Names
<1>6. ParentIsCaller'
  BY <1>2 DEF ParentIsCaller
<1>7. ParentOfLast' /\ ParentsRecorded'
  BY DEF ParentOfLast, ParentsRecorded, Callers, Names
<1>8. RepeatsRemain' /\ DoneIsComplete'
  BY DEF RepeatsRemain, DoneIsComplete
<1>9. AnalysedOnce'
  BY <1>1 DEF AnalysedOnce
<1> QED BY <1>3, <1>4, <1>5, <1>6, <1>7, <1>8, <1>9

LEMMA NoScopFoundInv ==
  ASSUME ExtractionInv, NoScopFound
  PROVE  ExtractionInv'
<1> USE DEF ExtractionInv, NoScopFound, Working
<1>1. /\ NextCandidate \in Listed
      /\ Listed' \subseteq Listed
      /\ Listed = Listed' \cup {NextCandidate}
      /\ DOMAIN candidates' \subseteq Nat
      /\ \A i, j \in DOMAIN candidates' : candidates'[i] = candidates'[j] => i = j
  BY TakingCandidate DEF ExtractionTypeOK
<1>2. Known' \subseteq Known /\ Known \subseteq Known' \cup {NextCandidate}
  BY <1>1 DEF Known
<1>3. \A f : CallersOf(f)' = CallersOf(f)
  BY DEF CallersOf, Callers
<1>4. ExtractionTypeOK'
  BY <1>1, <1>2 DEF ExtractionTypeOK, Made, Callers, Names
<1>5. CallsKept'
  BY DEF CallsKept, Made, Names
<1>6. NoneForgotten'
  BY <1>2 DEF NoneForgotten, HasScop, Callers, Names
<1>7. RepeatsRemain'
  BY <1>1, <1>2 DEF RepeatsRemain
<1>8. AnalysedOnce'
  BY <1>1 DEF AnalysedOnce
<1> QED BY <1>3, <1>4, <1>5, <1>6, <1>7, <1>8
  DEF ParentIsCaller, ParentOfLast, ParentsRecorded, DoneIsComplete, Callers, Names

LEMMA BeginDetectionInv ==
  ASSUME ExtractionInv, BeginDetection
  PROVE  ExtractionInv'
<1> DEFINE f == NextCandidate
<1> USE DEF ExtractionInv, BeginDetection, ScopFound, Working
<1>1. /\ f \in Listed
      /\ Listed' \subseteq Listed
      /\ Listed = Listed' \cup {f}
      /\ f \notin Listed'
      /\ DOMAIN candidates' \subseteq Nat
      /\ \A i, j \in DOMAIN candidates' : candidates'[i] = candidates'[j] => i = j
  BY TakingCandidate DEF ExtractionTypeOK
<1>2. detecting = {} /\ detecting' = {f} /\ scopList' = scopList
  OBVIOUS
<1>3. Known' = Known
  BY <1>1, <1>2 DEF Known
<1>4. \A g : CallersOf(g)' = CallersOf(g)
  BY DEF CallersOf, Callers
<1>5. PICK parent \in FoundParents(f) :
        /\ DOMAIN scopDS' = DOMAIN scopDS \cup {f}
        /\ scopDS'[f].parent = parent
        /\ \A g \in DOMAIN scopDS : g # f => scopDS'[g] = scopDS[g]
  OBVIOUS
<1>6. f \notin scopList
  BY <1>1 DEF AnalysedOnce
<1>7. ExtractionTypeOK'
  BY <1>1, <1>3 DEF ExtractionTypeOK, Made, Callers, Names
<1>8. CallsKept'
  BY DEF CallsKept, Made, Names
<1>9. NoneForgotten'
  BY <1>3 DEF NoneForgotten, HasScop, Callers, Names
<1>10. ParentIsCaller'
  <2>1. \A p \in CallersOf(f) : parent = p
    BY <1>5 DEF FoundParents, SeveralParents
  <2>2. \A g \in scopList : scopDS'[g] = scopDS[g]
    BY <1>5, <1>6 DEF ParentsRecorded
  <2> QED BY <2>1, <2>2, <1>2, <1>4, <1>5 DEF ParentIsCaller
<1>11. ParentOfLast'
  BY <1>2, <1>5, <1>6 DEF ParentOfLast, ParentsRecorded
<1>12. ParentsRecorded'
  <2>1. parent \in Callers(module) \cup {Undefined}
    BY <1>5 DEF FoundParents, CallersOf
  <2>2. Callers(module)' = Callers(module)
    BY DEF Callers, Names
  <2> HIDE DEF f, BeginDetection
  <2> QED BY <1>2, <1>5, <2>1, <2>2 DEF ParentsRecorded
<1>13. RepeatsRemain'
  <2>1. Listed' \cup detecting' = Listed \cup detecting
    BY <1>1, <1>2
  <2> QED BY <2>1, <1>3 DEF RepeatsRemain
<1>14. DoneIsComplete'
  BY DEF DoneIsComplete
<1>15. AnalysedOnce'
  BY <1>1, <1>2, <1>6 DEF AnalysedOnce
<1> QED BY <1>7, <1>8, <1>9, <1>10, <1>11, <1>12, <1>13, <1>14, <1>15

LEMMA EndDetectionInv ==
  ASSUME ExtractionInv, EndDetection
  PROVE  ExtractionInv'
<1> USE DEF ExtractionInv, EndDetection
<1>1. PICK f \in detecting : detecting = {f} /\ scopFunctionParent' = scopDS[f].parent
  BY DEF AnalysedOnce
<1>2. /\ detecting' = {} /\ scopList' = scopList \cup {f}
      /\ Listed' = Listed /\ Known' = Known
  BY <1>1 DEF Known, Listed
<1>3. \A g : CallersOf(g)' = CallersOf(g)
  BY DEF CallersOf, Callers
<1>4. scopDS[f].parent \in Callers(module) \cup {Undefined}
  BY DEF ParentsRecorded
<1>5. stage = "copies" => scopFunctionParent' = scopFunctionParent
  <2> SUFFICES ASSUME stage = "copies"
               PROVE  scopFunctionParent' = scopFunctionParent
    OBVIOUS
  <2>1. f \in ToSet(calls[scopFunctionParent]) /\ scopFunctionParent \in Callers(module)
    BY DEF RepeatsRemain, ExtractionTypeOK
  <2> QED BY <1>1, <2>1 DEF ParentIsCaller, CallersOf
<1>6. stage # "done"
  BY DEF DoneIsComplete, Idle
<1>7. ExtractionTypeOK'
  BY <1>1, <1>2, <1>4 DEF ExtractionTypeOK, Made, Callers, Names
<1>8. CallsKept'
  BY DEF CallsKept, Made, Names
<1>9. NoneForgotten'
  BY <1>2 DEF NoneForgotten, HasScop, Callers, Names
<1>10. ParentIsCaller'
  BY <1>1, <1>2, <1>3 DEF ParentIsCaller
<1>11. ParentOfLast'
  BY <1>1, <1>2 DEF ParentOfLast
<1>12. ParentsRecorded'
  BY <1>1, <1>2 DEF ParentsRecorded, Callers, Names
<1>13. RepeatsRemain'
  <2> SUFFICES ASSUME stage = "copies"
               PROVE  RepeatsRemain'
    BY <1>6 DEF RepeatsRemain
  <2>1. /\ scopFunctionParent' = scopFunctionParent
        /\ UNCHANGED <<stage, calls, repeatedCalls>>
    BY <1>5
  <2>2. Listed' \cup detecting' \subseteq Listed \cup detecting /\ RepeatsRemain
    BY <1>2
  <2> HIDE DEF EndDetection, ExtractionInv
  <2> QED BY <1>2, <2>1, <2>2 DEF RepeatsRemain
<1>14. DoneIsComplete'
  BY <1>6 DEF DoneIsComplete
<1>15. AnalysedOnce'
  BY <1>1, <1>2 DEF AnalysedOnce
<1> QED BY <1>7, <1>8, <1>9, <1>10, <1>11, <1>12, <1>13, <1>14, <1>15

LEMMA FindRepeatedCallsInv ==
  ASSUME ExtractionInv, FindRepeatedCalls
  PROVE  ExtractionInv'
<1> USE DEF ExtractionInv, FindRepeatedCalls, Idle
<1>1. Listed' = Listed /\ Listed = {} /\ Known' = Known /\ Known = scopList
  BY DEF Known, Listed
<1>2. \A g : CallersOf(g)' = CallersOf(g)
  BY DEF CallersOf, Callers
<1>3. scopFunctionParent \in Names(module)
  BY DEF ExtractionTypeOK, Callers
<1>4. DOMAIN calls[scopFunctionParent] \subseteq Nat
  BY <1>3 DEF CallsKept
<1>5. ExtractionTypeOK'
  BY <1>1, <1>4 DEF ExtractionTypeOK, Made, Callers, Names
<1>6. RepeatsRemain'
  <2>1. \A i, j \in DOMAIN calls[scopFunctionParent] : i < j => i \in 1 .. j - 1
    BY <1>3 DEF CallsKept
  <2> QED BY <1>1, <2>1 DEF RepeatsRemain, IsRepeated
<1>7. NoneForgotten'
  BY <1>1 DEF NoneForgotten, HasScop, Callers, Names
<1>8. CallsKept'
  BY DEF CallsKept, Made, Names
<1>9. AnalysedOnce'
  BY <1>1 DEF AnalysedOnce
<1> QED BY <1>2, <1>5, <1>6, <1>7, <1>8, <1>9
  DEF ParentIsCaller, ParentOfLast, ParentsRecorded, DoneIsComplete, Callers, Names

LEMMA CloneScopInv ==
  ASSUME ExtractionInv, CloneScop
  PROVE  ExtractionInv'
<1> DEFINE parent == scopFunctionParent
           at     == Min(repeatedCalls)
           new    == [name |-> calls[parent][at].name, copy |-> seq]
<1> USE DEF ExtractionInv, CloneScop, Idle
<1>1. at \in repeatedCalls /\ at \in Nat
  BY MinIsMember DEF ExtractionTypeOK
<1>2. parent \in Callers(module) /\ parent \in Names(module) /\ at \in DOMAIN calls[parent]
  BY <1>1 DEF RepeatsRemain, ExtractionTypeOK, Callers
<1>3. /\ calls' = [calls EXCEPT ![parent][at] = new]
      /\ seq' = seq + 1 /\ seq \in Nat
      /\ repeatedCalls' = repeatedCalls \ {at}
      /\ candidates' = [position \in {at} |-> new]
      /\ detecting = {} /\ detecting' = {} /\ DOMAIN candidates = {}
      /\ stage = "copies"
      /\ UNCHANGED <<module, stage, scopDS, scopList, scopFunctionParent>>
  BY DEF ExtractionTypeOK
<1>4. new \in [name : Names(module), copy : Nat] /\ new \notin Made
  <2>1. calls[parent] \in Seq(Made)
    BY <1>2 DEF CallsKept
  <2>2. calls[parent][at].name \in Names(module)
    BY <2>1, <1>2 DEF Made
  <2> QED BY <2>2, <1>3 DEF Made
<1>5. new.name = calls[parent][at].name
  OBVIOUS
<1> HIDE DEF at, new, CloneScop
<1>6. Made' = {f \in [name : Names(module), copy : Nat] : f.copy < seq + 1}
  BY <1>3 DEF Made, Names
<1>7. Made \subseteq Made' /\ new \in Made'
  <2>1. new.copy = seq
    BY DEF new
  <2> QED BY <1>3, <1>4, <1>6, <2>1 DEF Made
<1>8. /\ Listed' = {new} /\ Listed = {}
      /\ Known' = Known \cup {new} /\ Known = scopList
  BY <1>3 DEF Known, Listed
<1>9. /\ Callers(module)' = Callers(module) /\ Names(module)' = Names(module)
      /\ module' = module
  BY <1>3 DEF Callers, Names
<1>10. /\ DOMAIN calls' = DOMAIN calls
       /\ \A p \in DOMAIN calls :
            /\ DOMAIN calls'[p] = DOMAIN calls[p]
            /\ \A i \in DOMAIN calls[p] :
                 calls'[p][i] = IF p = parent /\ i = at THEN new ELSE calls[p][i]
  BY <1>3
<1>11. \A p \in Names(module) : calls[p] \in Seq(Made) /\ calls'[p] \in Seq(Made')
  <2> SUFFICES ASSUME NEW p \in Names(module)
               PROVE  calls[p] \in Seq(Made) /\ calls'[p] \in Seq(Made')
    OBVIOUS
  <2>1. calls[p] \in Seq(Made) /\ p \in DOMAIN calls
    BY DEF CallsKept, ExtractionTypeOK
  <2>2. CASE p # parent
    <3>1. calls'[p] = calls[p]
      BY <1>3, <2>1, <2>2
    <3> QED BY <2>1, <3>1, <1>7
  <2>3. CASE p = parent
    <3>1. calls'[p] = [calls[p] EXCEPT ![at] = new]
      BY <1>3, <2>1, <2>3
    <3>2. calls[p] \in Seq(Made')
      BY <2>1, <1>7
    <3> QED BY <2>1, <3>1, <3>2, <1>2, <1>7, <2>3
  <2> QED BY <2>2, <2>3
<1>12. ExtractionTypeOK'
  BY <1>1, <1>3, <1>7, <1>8, <1>9, <1>10 DEF ExtractionTypeOK
<1>13. CallsKept'
  BY <1>2, <1>5, <1>9, <1>10, <1>11 DEF CallsKept, ExtractionTypeOK
<1>14. NoneForgotten'
  <2> SUFFICES ASSUME NEW p \in Callers(module), NEW i \in DOMAIN calls'[p],
                      HasScop(calls[p][i])', calls'[p][i].name \notin module.check
               PROVE  calls'[p][i] \in Known'
    BY <1>9 DEF NoneForgotten
  <2>1. p \in DOMAIN calls
    BY DEF Callers, ExtractionTypeOK
  <2>2. CASE p = parent /\ i = at
    BY <2>1, <2>2, <1>8, <1>10
  <2>3. CASE ~(p = parent /\ i = at)
    <3>1. calls'[p][i] = calls[p][i] /\ i \in DOMAIN calls[p]
      BY <2>1, <2>3, <1>10
    <3> QED BY <3>1, <1>8, <1>9 DEF NoneForgotten, HasScop
  <2> QED BY <2>2, <2>3
<1>15. ParentIsCaller'
  <2> SUFFICES ASSUME NEW f \in scopList, NEW p \in Callers(module),
                      f \in ToSet(calls'[p])
               PROVE  scopDS[f].parent = p
    BY <1>3, <1>9 DEF ParentIsCaller, CallersOf
  <2>1. f # new
    BY <1>4, <1>8 DEF ExtractionTypeOK
  <2>2. p \in DOMAIN calls
    BY DEF Callers, ExtractionTypeOK
  <2>3. f \in ToSet(calls[p])
    BY <2>1, <2>2, <1>10 DEF ToSet
  <2> QED BY <2>3 DEF ParentIsCaller, CallersOf
<1>16. RepeatsRemain'
  <2>1. repeatedCalls' \subseteq DOMAIN calls'[parent]
    BY <1>3, <1>2, <1>10 DEF RepeatsRemain, ExtractionTypeOK
  <2>2. new \in ToSet(calls'[parent])
    BY <1>2, <1>10 DEF ToSet, ExtractionTypeOK
  <2>3. ASSUME NEW i \in DOMAIN calls'[parent], NEW j \in DOMAIN calls'[parent], i < j,
               calls'[parent][i] = calls'[parent][j], calls'[parent][i] \in Known'
        PROVE  j \in repeatedCalls'
    <3>1. /\ i \in DOMAIN calls[parent] /\ j \in DOMAIN calls[parent]
          /\ calls[parent] \in Seq(Made)
      BY <1>2, <1>10, <1>11 DEF ExtractionTypeOK
    <3>2. calls[parent][i] # new /\ calls[parent][j] # new /\ i # j
      BY <2>3, <3>1, <1>4
    <3>3. i # at /\ j # at
      BY <2>3, <3>1, <3>2, <1>2, <1>10 DEF ExtractionTypeOK
    <3>4. calls[parent][i] = calls[parent][j] /\ calls[parent][i] \in Known
      BY <2>3, <3>1, <3>2, <3>3, <1>2, <1>8, <1>10 DEF ExtractionTypeOK
    <3> QED BY <2>3, <3>1, <3>3, <3>4, <1>3 DEF RepeatsRemain
  <2> QED BY <2>1, <2>2, <2>3, <1>3, <1>8 DEF RepeatsRemain
<1>17. AnalysedOnce'
  BY <1>3, <1>4, <1>8 DEF AnalysedOnce, ExtractionTypeOK
<1> QED BY <1>3, <1>9, <1>12, <1>13, <1>14, <1>15, <1>16, <1>17
  DEF ParentOfLast, ParentsRecorded, DoneIsComplete

LEMMA ParentsAgreeInv ==
  ASSUME ExtractionInv, ParentsAgree
  PROVE  ExtractionInv'
<1> USE DEF ExtractionInv, ParentsAgree
<1>1. Known' = Known /\ Listed' = Listed
  BY DEF Known, Listed
<1>2. \A f : CallersOf(f)' = CallersOf(f)
  BY DEF CallersOf, Callers
<1>3. DoneIsComplete'
  BY DEF DoneIsComplete, Idle, OneParent
<1>4. ExtractionTypeOK'
  BY <1>1 DEF ExtractionTypeOK, Made, Callers, Names
<1>5. CallsKept'
  BY DEF CallsKept, Made, Names
<1>6. NoneForgotten'
  BY <1>1 DEF NoneForgotten, HasScop, Callers, Names
<1>7. ParentIsCaller'
  BY <1>2 DEF ParentIsCaller
<1>8. ParentOfLast' /\ ParentsRecorded'
  BY DEF ParentOfLast, ParentsRecorded, Callers, Names
<1>9. RepeatsRemain'
  BY <1>1 DEF RepeatsRemain
<1>10. AnalysedOnce'
  BY <1>1 DEF AnalysedOnce
<1> QED BY <1>3, <1>4, <1>5, <1>6, <1>7, <1>8, <1>9, <1>10

LEMMA ExtractionNextInv ==
  ASSUME ExtractionInv, [ExtractionNext]_extractionVars
  PROVE  ExtractionInv'
<1>1. CASE NoScopFound
  BY <1>1, NoScopFoundInv
<1>2. CASE BeginDetection
  BY <1>2, BeginDetectionInv
<1>3. CASE DetectionFails
  BY <1>3, AbortInv DEF DetectionFails
<1>4. CASE EndDetection
  BY <1>4, EndDetectionInv
<1>5. CASE FindRepeatedCalls
  BY <1>5, FindRepeatedCallsInv
<1>6. CASE NoParentToSearch
  BY <1>6, AbortInv DEF NoParentToSearch
<1>7. CASE CloneScop
  BY <1>7, CloneScopInv
<1>8. CASE ParentsAgree
  BY <1>8, ParentsAgreeInv
<1>9. CASE ParentsDiffer
  BY <1>9, AbortInv DEF ParentsDiffer
<1>10. CASE UNCHANGED extractionVars
  <2>1. Known' = Known /\ Listed' = Listed
    BY <1>10 DEF extractionVars, Known, Listed
  <2>2. \A f : CallersOf(f)' = CallersOf(f)
    BY <1>10 DEF extractionVars, CallersOf, Callers
  <2> USE DEF ExtractionInv, extractionVars
  <2>3. ExtractionTypeOK'
    BY <1>10, <2>1 DEF ExtractionTypeOK, Made, Callers, Names
  <2>4. CallsKept'
    BY <1>10 DEF CallsKept, Made, Names
  <2>5. NoneForgotten'
    BY <1>10, <2>1 DEF NoneForgotten, HasScop, Callers, Names
  <2>6. ParentIsCaller'
    BY <1>10, <2>2 DEF ParentIsCaller
  <2>7. ParentOfLast' /\ ParentsRecorded'
    BY <1>10 DEF ParentOfLast, ParentsRecorded, Callers, Names
  <2>8. RepeatsRemain'
    BY <1>10, <2>1 DEF RepeatsRemain
  <2>9. DoneIsComplete' /\ AnalysedOnce'
    BY <1>10, <2>1 DEF DoneIsComplete, Idle, OneParent, AnalysedOnce
  <2> QED BY <2>3, <2>4, <2>5, <2>6, <2>7, <2>8, <2>9
<1> QED BY <1>1, <1>2, <1>3, <1>4, <1>5, <1>6, <1>7, <1>8, <1>9, <1>10 DEF ExtractionNext
-----------------------------------------------------------------------------
(* The parent found last is the parent of every SCoP, so a function that   *)
(* two calls share would be called twice by it, and no repeat is left.     *)
LEMMA InvImpliesOwnFunction == ExtractionInv => OwnFunction
<1> SUFFICES ASSUME ExtractionInv, stage = "done",
                    NEW p \in Callers(module), NEW q \in Callers(module),
                    NEW i \in DOMAIN calls[p], NEW j \in DOMAIN calls[q]
             PROVE  /\ calls[p][i].name = module.calls[p][i]
                    /\ calls[p][i] = calls[q][j] /\ calls[p][i] \in scopList
                         => p = q /\ i = j
                    /\ HasScop(calls[p][i]) /\ calls[p][i].name \notin module.check
                         => calls[p][i] \in scopList
  BY DEF OwnFunction
<1> USE DEF ExtractionInv
<1>1. p \in Names(module) /\ q \in Names(module)
  BY DEF Callers
<1>2. repeatedCalls = {} /\ detecting = {} /\ Listed = {} /\ OneParent
  BY DEF DoneIsComplete, Idle, Listed
<1>3. Known = scopList
  BY <1>2 DEF Known
<1>4. calls[p][i].name = module.calls[p][i]
  BY <1>1 DEF CallsKept
<1>5. ASSUME calls[p][i] = calls[q][j], calls[p][i] \in scopList
      PROVE  p = q /\ i = j
  <2>1. scopDS[calls[p][i]].parent = p /\ scopDS[calls[p][i]].parent = q
    BY <1>5 DEF ParentIsCaller, CallersOf, ToSet
  <2>2. p = scopFunctionParent
    BY <1>2, <1>5, <2>1 DEF RepeatsRemain, ParentOfLast, OneParent
  <2>3. DOMAIN calls[p] \subseteq Int
    BY <1>1 DEF CallsKept
  <2>4. ~(i < j) /\ ~(j < i)
    BY <1>2, <1>3, <1>5, <2>1, <2>2 DEF RepeatsRemain
  <2> QED BY <2>1, <2>3, <2>4
<1>6. HasScop(calls[p][i]) /\ calls[p][i].name \notin module.check
        => calls[p][i] \in scopList
  BY <1>3 DEF NoneForgotten
<1> QED BY <1>4, <1>5, <1>6

(* For every module and every list of depths: after the analysis no two    *)
(* calls share a SCoP function, and all that are called are analysed       *)
(* (htropclient.cpp:397-486).                                              *)
THEOREM EveryCallOwnFunction == ExtractionSpec => []OwnFunction
<1>1. ExtractionSpec => []ExtractionInv
  BY ExtractionInitInv, ExtractionNextInv, PTL DEF ExtractionSpec
<1> QED BY <1>1, InvImpliesOwnFunction, PTL

-----------------------------------------------------------------------------
(* What runOnScop has recorded about the loops of a SCoP.                  *)
LoopsRecorded ==
  /\ maxScopDepth \in Seq(Int)
  /\ debug_hand_tune_pos \in Nat
  /\ maxScopDepth # << >> => debug_hand_tune_pos < Len(maxScopDepth)
  /\ \A f \in DOMAIN scopDS :
       /\ HasScop(f) /\ scopDS[f].depth \in Int
       /\ scopDS[f].loops = LoopNames(ScopOf(f).names, scopDS[f].depth)

(* Of a SCoP that does not end the process, some store is in a loop.       *)
LEMMA DepthIsNumber ==
  ASSUME NEW instructions, ~EndsProcess(instructions),
         \A i \in ToSet(instructions) : LoopDepth(i) \in Nat
  PROVE  getMaxCodegenLoopDepth(instructions) \in Nat
<1> DEFINE depths == StoreDepths(instructions) \ {0}
<1>1. depths \in SUBSET Nat
  BY DEF StoreDepths, StoreSet
<1>2. depths # {}
  BY DEF EndsProcess, StoreWithoutLoop
<1>3. Min(depths) \in depths
  <2> HIDE DEF depths
  <2> QED BY <1>1, <1>2, MinIsMember
<1> QED BY <1>1, <1>3 DEF getMaxCodegenLoopDepth, minDepthLoop

LEMMA ExtractionInitLoops == ExtractionInit => LoopsRecorded
<1> SUFFICES ASSUME ExtractionInit PROVE LoopsRecorded
  OBVIOUS
<1>1. maxScopDepth \in Seq(Int) /\ DOMAIN scopDS = {}
  BY ScopsAssumption DEF ExtractionInit
<1>2. maxScopDepth # << >> => 0 < Len(maxScopDepth)
  BY <1>1
<1> QED BY <1>1, <1>2 DEF ExtractionInit, LoopsRecorded

LEMMA BeginDetectionLoops ==
  ASSUME module \in Modules, LoopsRecorded, BeginDetection
  PROVE  LoopsRecorded'
<1> DEFINE f == NextCandidate
           depth == max_codegen_loop_depth(f)
<1>1. HasScop(f) /\ ~EndsProcess(ScopOf(f).instructions)
  BY DEF BeginDetection, ScopFound
<1>2. depth \in Int
  <2>1. CASE maxScopDepth = << >>
    <3>1. ASSUME NEW i \in ToSet(ScopOf(f).instructions)
          PROVE  LoopDepth(i) \in Nat
      <4>1. i.loops \in Seq(ToSet(i.loops))
        BY <1>1, ScopsAssumption DEF HasScop, ScopOf
      <4> QED BY <4>1 DEF LoopDepth
    <3>2. getMaxCodegenLoopDepth(ScopOf(f).instructions) \in Nat
      BY <1>1, <3>1, DepthIsNumber
    <3> QED BY <2>1, <3>2 DEF max_codegen_loop_depth
  <2>2. CASE maxScopDepth # << >>
    <3>1. /\ maxScopDepth \in Seq(Int) /\ debug_hand_tune_pos \in Nat
          /\ debug_hand_tune_pos < Len(maxScopDepth)
      BY <2>2 DEF LoopsRecorded
    <3>2. 1 \in DOMAIN maxScopDepth /\ debug_hand_tune_pos + 1 \in DOMAIN maxScopDepth
      BY <3>1
    <3> QED BY <2>2, <3>1, <3>2 DEF max_codegen_loop_depth
  <2> QED BY <2>1, <2>2
<1>3. PICK parent \in FoundParents(f) :
        scopDS' = [g \in DOMAIN scopDS \cup {f} |->
          IF g = f THEN [parent |-> parent, depth |-> depth,
                         loops |-> LoopNames(ScopOf(f).names, depth)]
                   ELSE scopDS[g]]
  BY DEF BeginDetection
<1>4. /\ UNCHANGED <<module, maxScopDepth>>
      /\ debug_hand_tune_pos' = NextHandTunePos
  BY DEF BeginDetection
<1>5. debug_hand_tune_pos' \in Nat
      /\ (maxScopDepth' # << >> => debug_hand_tune_pos' < Len(maxScopDepth'))
  BY <1>4 DEF LoopsRecorded, NextHandTunePos
<1>6. ASSUME NEW g \in DOMAIN scopDS'
      PROVE  /\ HasScop(g)' /\ scopDS'[g].depth \in Int
             /\ scopDS'[g].loops = LoopNames(ScopOf(g)'.names, scopDS'[g].depth)
  <2>1. HasScop(g)' = HasScop(g) /\ ScopOf(g)' = ScopOf(g)
    BY <1>4 DEF HasScop, ScopOf
  <2> HIDE DEF f, depth
  <2>2. CASE g = f
    BY <1>1, <1>2, <1>3, <2>1, <2>2 DEF f
  <2>3. CASE g # f
    BY <1>3, <2>1, <2>3 DEF LoopsRecorded
  <2> QED BY <2>2, <2>3
<1> QED BY <1>4, <1>5, <1>6 DEF LoopsRecorded, LoopNames, Unnamed

LEMMA ExtractionNextLoops ==
  ASSUME ExtractionInv, LoopsRecorded, [ExtractionNext]_extractionVars
  PROVE  LoopsRecorded'
<1>1. CASE BeginDetection
  BY <1>1, BeginDetectionLoops DEF ExtractionInv, ExtractionTypeOK
<1>2. CASE UNCHANGED <<module, maxScopDepth, scopDS, debug_hand_tune_pos>>
  BY <1>2 DEF LoopsRecorded, HasScop, ScopOf, LoopNames, Unnamed
<1> QED
  BY <1>1, <1>2 DEF ExtractionNext, NoScopFound, DetectionFails, EndDetection,
     FindRepeatedCalls, NoParentToSearch, CloneScop, ParentsAgree, ParentsDiffer, Abort,
     extractionVars

(* One name is given to all levels; else the first names are.              *)
LEMMA NamesReachAllLevels ==
  ASSUME NEW names, names \in Seq(ToSet(names)), NEW depth \in Int, Unnamed \notin ToSet(names),
         Len(names) = 1 \/ Len(names) >= depth
  PROVE  Unnamed \notin ToSet(LoopNames(names, depth))
<1>1. /\ Len(names) \in Nat
      /\ \A i \in 1 .. Len(names) : names[i] \in ToSet(names)
  BY DEF ToSet
<1>2. ASSUME NEW i \in 1 .. depth
      PROVE  LoopNames(names, depth)[i] \in ToSet(names)
  <2>1. CASE i <= Len(names)
    BY <1>1, <2>1 DEF LoopNames
  <2>2. CASE i > Len(names)
    <3>1. Len(names) = 1 /\ i - 1 <= depth - Len(names) /\ ~(i <= Len(names))
      BY <1>1, <2>2
    <3> QED BY <1>1, <2>2, <3>1 DEF LoopNames
  <2> QED BY <2>1, <2>2
<1>3. DOMAIN LoopNames(names, depth) = 1 .. depth
  BY DEF LoopNames
<1> QED BY <1>2, <1>3 DEF ToSet

(* For every module and every list of depths: no loop level of an analysed *)
(* SCoP is without a name if there is one name, or one for each level      *)
(* (scopdetect.cpp:478-511).                                               *)
THEOREM LevelsHaveNames == ExtractionSpec => []LevelsNamed
<1>1. ExtractionInv /\ LoopsRecorded => LevelsNamed
  <2> SUFFICES ASSUME ExtractionInv, LoopsRecorded, NEW f \in scopList,
                      Len(ScopOf(f).names) = 1 \/ Len(ScopOf(f).names) >= scopDS[f].depth
               PROVE  Unnamed \notin ToSet(scopDS[f].loops)
    BY DEF LevelsNamed
  <2>1. /\ HasScop(f) /\ scopDS[f].depth \in Int
        /\ scopDS[f].loops = LoopNames(ScopOf(f).names, scopDS[f].depth)
    BY DEF ExtractionInv, ParentsRecorded, LoopsRecorded
  <2>2. /\ ScopOf(f).names \in Seq(ToSet(ScopOf(f).names))
        /\ Unnamed \notin ToSet(ScopOf(f).names)
    BY <2>1, ScopsAssumption
       DEF ExtractionInv, ExtractionTypeOK, HasScop, ScopOf, Unnamed
  <2> QED BY <2>1, <2>2, NamesReachAllLevels
<1> QED
  BY ExtractionInitInv, ExtractionNextInv, ExtractionInitLoops, ExtractionNextLoops, <1>1, PTL
     DEF ExtractionSpec
=============================================================================
