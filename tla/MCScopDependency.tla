--------------------------- MODULE MCScopDependency ---------------------------
(***************************************************************************)
(* All programs of up to MaxLength statements over two buffers: SCoPs that *)
(* use x alone, with any type or with one of four sizes, or together with  *)
(* y, host calls and other host code.  Four statements are the fewest that *)
(* close two chains and so raise the interrupt flag.                       *)
(*                                                                         *)
(* The sizes are those of loops that access element i for all i up to a    *)
(* bound: n, n - 1 and n + 1, which differ in their constants, and 2m,     *)
(* which differs in everything and is read as 0 or 2 by different SCoPs.   *)
(* The calls are executed with n = 2 and m = 3.                            *)
(***************************************************************************)
EXTENDS ScopDependency

CONSTANTS x, y, MaxLength

n == <<Letter("n")>>
m == <<Letter("m")>>

(* The largest index, in brackets, and the +1 fix of ScopDetect. *)
SizeText(largest) == InBrackets(largest) \o <<Op("+"), Num(1)>>

LessThanN       == SizeText(<<Minus, Num(1), Op("+")>> \o n)
LessThan2M      == SizeText(<<Minus, Num(1), Op("+"), Num(2)>> \o m)
UpToN           == SizeText(n)
LessThanNMinus1 == SizeText(<<Minus, Num(2), Op("+")>> \o n)

Elements(text) == Eval(replaceWithValue(replaceWithValue(text, n, 2), m, 3))

Arg(v, type, text) ==
  [value |-> v, type |-> type, size |-> Elements(text), maxStr |-> text, covers |-> TRUE]
Scop(args, name) == [kind |-> "scop", args |-> args, loops |-> <<name>>]
Host(kind)       == [kind |-> kind, args |-> << >>, loops |-> << >>]

UsesOfX == {Arg(x, t, LessThanN) : t \in {"IN", "OUT", "IN_OUT"}}
             \cup {Arg(x, "IN", LessThanNMinus1), Arg(x, "IN", UpToN)}

(* Both buffers: what is read from one is written to the other, or updates *)
(* it.                                                                     *)
UsesOfBoth ==
  {<<Arg(y, t[1], LessThanN), Arg(x, t[2], LessThanN)>> :
     t \in {<<"IN", "OUT">>, <<"OUT", "IN">>, <<"IN", "IN_OUT">>}}

MCStatements ==
  {Host("call"), Host("inline"), Scop(<<Arg(x, "IN", LessThan2M)>>, m)}
    \cup {Scop(<<u>>, n) : u \in UsesOfX} \cup {Scop(us, n) : us \in UsesOfBoth}

MCValues    == {x, y}
MCTexts     == {LessThanN, LessThan2M, UpToN, LessThanNMinus1}
MCLoopNames == {<< >>, <<n>>, <<m>>}
MCPrograms  == UNION {[1 .. l -> MCStatements] : l \in 1 .. MaxLength}
=============================================================================
