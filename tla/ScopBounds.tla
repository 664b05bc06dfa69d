----------------------------- MODULE ScopBounds -----------------------------
(***************************************************************************)
(* ScopDetect::runOnScop: the bounds of the arguments, which it reads from *)
(* the text isl prints for the domain of a statement and for the index of  *)
(* an access, and the size the rewritten application makes of them.        *)
(*                                                                         *)
(* A statement has iterators, constraints (none if its domain is printed   *)
(* without " : ") and accesses.  Of an array with several dimensions only  *)
(* the first is kept: nothing reads the bounds of the others.              *)
(***************************************************************************)
EXTENDS AccessTyping, SizeExpressions

VARIABLE
  bounds       (* by argument: the bounds in ScopFnArg                     *)

(* An affine form as isl prints it: the constant first, a coefficient 1    *)
(* left out.                                                               *)
PrintedTerm(t, first) ==
  (CASE t.coef < 0          -> <<Minus>>
     [] t.coef > 0 /\ first -> << >>
     [] OTHER               -> <<Op("+")>>)
    \o (CASE t.coef \in {1, -1} -> << >>
          [] t.coef > 1         -> <<Num(t.coef)>>
          [] OTHER              -> <<Num(-t.coef)>>)
    \o t.name

Printed(affine) ==
  LET number == IF affine.const = 0 /\ affine.terms # << >>
                THEN << >> ELSE Decimal(affine.const)
  IN  FoldLeft(LAMBDA s, t : s \o PrintedTerm(t, s = << >>), number, affine.terms)

-----------------------------------------------------------------------------
(* resolveDomainString: of the constraints that bound an iterator by       *)
(* itself the last one of each kind counts; without one it is "0".         *)
Bound(constraints, name, rel) ==
  LET isBound(c) == c.rel = rel /\ Printed(c.left) = name
      found == SelectSeq(constraints, isBound)
  IN  IF found = << >> THEN Decimal(0) ELSE Printed(Last(found).right)

minValueStr(constraints, name) == Bound(constraints, name, ">=")
maxValueStr(constraints, name) == Bound(constraints, name, "<=")

(* A domain printed without " : " gives the single dimension "NULL", and   *)
(* runOnScop goes on with the next statement.                              *)
Resolved(stmt) == stmt.constraints # << >>

(* The index with every iterator replaced by a text, in their order.       *)
Expanded(index, iters, text) ==
  FoldLeft(LAMBDA s, name : ReplaceName(s, name, InBrackets(text[name])),
           index, iters)

NoVars(index, stmt) ==
  Expanded(index, stmt.iters, [name \in ToSet(stmt.iters) |-> Decimal(0)])
AtMin(index, stmt) ==
  Expanded(index, stmt.iters,
           [name \in ToSet(stmt.iters) |-> minValueStr(stmt.constraints, name)])
AtMax(index, stmt) ==
  Expanded(index, stmt.iters,
           [name \in ToSet(stmt.iters) |-> maxValueStr(stmt.constraints, name)])
-----------------------------------------------------------------------------
(* An offset is {} as long as it has its default, LONG_MAX or LONG_MIN.    *)
NoBounds == [dimension |-> 0, offset_min |-> {}, offset_max |-> {},
             min |-> 0, maxStr |-> NULLString]

(* ScopFnArg::resize *)
resize(b, new_dimension) ==
  CASE new_dimension = b.dimension -> b
    [] new_dimension = 0           -> NoBounds
    [] OTHER -> [b EXCEPT !.dimension = new_dimension,
                          !.offset_min = {}, !.offset_max = {}]

(* Mutant: the default of the largest offset is 0, and it is to be exceeded. *)
UpdateMaxFromZero(b, index, stmt) ==
  LET tree_val == Eval(NoVars(index, stmt))
  IN  IF \A max \in b.offset_max \cup {0} : tree_val > max
      THEN [b EXCEPT !.offset_max = {tree_val}, !.maxStr = AtMax(index, stmt)]
      ELSE b

(* The two comparisons for an index: its value with all iterators 0        *)
(* decides whether it replaces the smallest and the largest so far.        *)
UpdateMin(b, index, stmt) ==
  LET tree_val == Eval(NoVars(index, stmt))
  IN  IF \A min \in b.offset_min : tree_val <= min
      THEN [b EXCEPT !.offset_min = {tree_val}, !.min = Eval(AtMin(index, stmt))]
      ELSE b

UpdateMax(b, index, stmt) ==
  LET tree_val == Eval(NoVars(index, stmt))
  IN  IF \A max \in b.offset_max : tree_val >= max
      THEN [b EXCEPT !.offset_max = {tree_val}, !.maxStr = AtMax(index, stmt)]
      ELSE b

UpdateBounds(b, stmt, access) ==
  IF access.scalar THEN resize(b, 0)
  ELSE LET index == Printed(access.index)
       IN  UpdateMax(UpdateMin(resize(b, access.dimensions), index, stmt), index, stmt)

BoundsInit == bounds = [a \in Args |-> NoBounds]

(* One memory access of a statement: its type and its bounds. *)
AnalyseAccess(a, stmt, access) ==
  /\ Access(a, access.kind, access.scalar)
  /\ bounds' = [b \in Args |-> IF b = a THEN UpdateBounds(bounds[b], stmt, access)
                                        ELSE bounds[b]]

PlusOne(text) == text \o <<Op("+"), Num(1)>>

(* Mutant: the list of arguments still has those of the passes before.     *)
PlusOneFixOfAll(args) ==
  bounds' = [a \in Args |->
    IF isPointer[a] /\ bounds[a].min = 0
    THEN [bounds[a] EXCEPT !.maxStr = PlusOne(@)]
    ELSE bounds[a]]

(* The "+1 fix": if the smallest index is 0, the size is the largest + 1.  *)
PlusOneFix(args) ==
  bounds' = [a \in Args |->
    IF a \in args /\ isPointer[a] /\ bounds[a].min = 0
    THEN [bounds[a] EXCEPT !.maxStr = PlusOne(@)]
    ELSE bounds[a]]
-----------------------------------------------------------------------------
(* resolveScopValue in the rewritten application: the integer arguments of *)
(* the call replace their names in the text, in the order of the argument  *)
(* list, and the text is evaluated.                                        *)
ValueOfText(text, names, value) ==
  evaluateExpression(FoldLeft(LAMBDA s, name : replaceWithValue(s, name, value[name]),
                              text, names))

resolveScopValue(a, names, value) == ValueOfText(bounds[a].maxStr, names, value)
=============================================================================
