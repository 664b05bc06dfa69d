--------------------------- MODULE MCScopDetection ---------------------------
(***************************************************************************)
(* Modules with two SCoP functions f and g, called up to three times by    *)
(* main and once by another function and by one that checks results.  The  *)
(* SCoPs are loops over one or two arrays as in the comments of            *)
(* scopdetect.cpp, regular ones and ones the client misreads.              *)
(***************************************************************************)
EXTENDS ScopDetection

(* Names, two of them contained in nn. *)
n  == <<Letter("n")>>
nn == <<Letter("n"), Letter("n")>>
m  == <<Letter("m")>>
i0 == <<Letter("i0")>>
i1 == <<Letter("i1")>>
i2 == <<Letter("i2")>>
A  == <<Letter("A")>>
B  == <<Letter("B")>>

Const(c)     == [const |-> c, terms |-> << >>]
Plus(c, k, name) == [const |-> c, terms |-> <<[coef |-> k, name |-> name]>>]
Flat(c, k)   == [const |-> c, terms |-> <<[coef |-> k, name |-> i0], [coef |-> 1, name |-> i1]>>]

From0To(iter, upper) ==
  << [left |-> Plus(0, 1, iter), rel |-> ">=", right |-> Const(0)],
     [left |-> Plus(0, 1, iter), rel |-> "<=", right |-> upper] >>
Below(iter, name) == From0To(iter, Plus(-1, 1, name))

Array(kind, base, index) ==
  [base |-> base, kind |-> kind, scalar |-> FALSE, dimensions |-> 1, index |-> index]
Scalar(kind, base) ==
  [base |-> base, kind |-> kind, scalar |-> TRUE, dimensions |-> 0, index |-> Const(0)]
Statement(iters, constraints, accesses) ==
  [iters |-> iters, constraints |-> constraints, accesses |-> accesses]

(* The loops around a statement: the limit is n if the constraint is       *)
(* iter <= n - 1.                                                          *)
LoopsOf(stmt) ==
  [j \in DOMAIN stmt.iters |->
     LET upper == stmt.constraints[2 * j].right
     IN  [iter  |-> stmt.iters[j],
          limit |-> IF upper.terms = << >> THEN NoArgument ELSE upper.terms[1].name]]

(* The loads and stores DepDetect sees: those through an argument. *)
InstructionsOf(stmt) ==
  LET arrays == SelectSeq(stmt.accesses, LAMBDA x : ~x.scalar /\ x.base # PhiHelper)
  IN  [j \in DOMAIN arrays |->
         [kind     |-> IF arrays[j].kind = "READ" THEN "load" ELSE "store",
          loops    |-> LoopsOf(stmt),
          constant |-> arrays[j].index.terms = << >>]]

(* The nest is that of the last statement. *)
Scop(names, params, stmts) ==
  [names |-> names, params |-> params, stmts |-> stmts, nest |-> LoopsOf(Last(stmts)),
   instructions |-> FlattenSeq([i \in DOMAIN stmts |-> InstructionsOf(stmts[i])])]

(* for (i < n) B[i] = A[i] + A[i + 1] *)
Stencil ==
  Scop(<<n>>, <<n>>,
       <<Statement(<<i0>>, Below(i0, n),
                   <<Array("READ", A, Plus(0, 1, i0)), Array("READ", A, Plus(1, 1, i0)),
                     Scalar("READ", PhiHelper), Array("MUST_WRITE", B, Plus(0, 1, i0))>>)>>)

(* for (i < m) for (j < n) A[3 * i + j + 1] = A[3 * i + j], in two statements *)
FlatArray ==
  LET domain == Below(i0, m) \o Below(i1, n)
  IN  Scop(<<n, m>>, <<m, n>>,
           <<Statement(<<i0, i1>>, domain, <<Array("READ", A, Flat(0, 3))>>),
             Statement(<<i0, i1>>, domain,
                       <<Array("MAY_WRITE", A, Flat(1, 3)),
                         Array("MUST_WRITE", A, Flat(0, 3))>>)>>)

(* if (...) A[n] = ..., then for (i < n) for (j < 2) for (k < 2) A[i] = A[i]:    *)
(* a statement outside the loops, and two names for three levels.                *)
Guarded ==
  Scop(<<n, m>>, <<n, m>>,
       <<Statement(<< >>, << >>, <<Array("MUST_WRITE", A, Plus(0, 1, n))>>),
         Statement(<<i0, i1, i2>>,
                   Below(i0, n) \o From0To(i1, Const(1)) \o From0To(i2, Const(1)),
                   <<Array("READ", A, Plus(0, 1, i0)), Array("MUST_WRITE", A, Plus(0, 1, i0))>>)>>)

(* for (i < nn) A[n - i] = B[i + 1], B being used as a scalar, too *)
Misread ==
  Scop(<<n, nn>>, <<n, nn>>,
       <<Statement(<<i0>>, Below(i0, nn),
                   <<Scalar("READ", B), Array("READ", B, Plus(1, 1, i0)),
                     Array("MUST_WRITE", A,
                           [const |-> 0, terms |-> <<[coef |-> 1, name |-> n],
                                                     [coef |-> -1, name |-> i0]>>])>>)>>)

(* x = A[n] outside the loop, which DepDetect takes for one within *)
LoadOutside ==
  Scop(<<n>>, <<n>>,
       <<Statement(<<i0>>, Below(i0, n), <<Array("MUST_WRITE", B, Plus(0, 1, i0))>>),
         Statement(<< >>, << >>, <<Array("READ", A, Plus(0, 1, n))>>)>>)

(* for (i < n) A[0] = B[i], which DepDetect does not implement *)
Fixed ==
  Scop(<<n>>, <<n>>,
       <<Statement(<<i0>>, Below(i0, n),
                   <<Array("READ", B, Plus(0, 1, i0)), Array("MUST_WRITE", A, Const(0))>>)>>)

(* for (i < m) { B[i] = B[i]; for (j < n) A[j] = A[j] } *)
Imperfect ==
  Scop(<<n, m>>, <<n, m>>,
       <<Statement(<<i0>>, Below(i0, m),
                   <<Array("READ", B, Plus(0, 1, i0)), Array("MUST_WRITE", B, Plus(0, 1, i0))>>),
         Statement(<<i0, i1>>, Below(i0, m) \o Below(i1, n),
                   <<Array("MUST_WRITE", A, Plus(0, 1, i1))>>)>>)

Module(main, other, check, F, G) ==
  [functions |-> <<"f", "g", "h", "other", "check", "main">>,
   scop      |-> [name \in {"f", "g"} |-> IF name = "f" THEN F ELSE G],
   check     |-> {"check"},
   calls     |-> [name \in {"f", "g", "h", "other", "check", "main"} |->
                    CASE name = "main"  -> main
                      [] name = "other" -> other
                      [] name = "check" -> check
                      [] OTHER          -> << >>]]

Mains == {<<"f", "g", "f">>, <<"g", "h", "g", "g">>, <<"f", "f">>, <<"f", "g">>}

MCModules ==
  {Module(main, other, check, F, Stencil) :
     main \in Mains, other \in {<< >>, <<"f">>, <<"g">>}, check \in {<< >>, <<"f">>},
     F \in {FlatArray, Guarded, Misread, LoadOutside, Fixed, Imperfect}}
    \cup {[Module(<<"h">>, << >>, << >>, Stencil, Stencil) EXCEPT !.scop = << >>]}

MCDepthOptions == {<< >>, <<1>>, <<2, 1>>, <<3>>}

MCCodegenOptions == {<< >>, <<1, 2>>}
MCNameOrder      == <<"check", "f", "g", "h", "main", "other">>

MCArgs == {[fn |-> [name |-> name, copy |-> k], arg |-> base] :
             name \in {"f", "g"}, k \in 0 .. 2, base \in {A, B, n, m}}

(* What is proved of the sizes of any modules whose texts are read rightly *)
(* holds of these.                                                         *)
ASSUME MCTextsAreRead == TextsAreRead
=============================================================================
