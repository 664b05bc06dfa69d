--------------------------- MODULE MCOffloadRuntime ---------------------------
(***************************************************************************)
(* Programs over two buffers x and y of up to MaxSize = 2 elements: SCoPs  *)
(* that read, write or update x, entirely or not, or compute one of the    *)
(* two from the other, and host code, a call or not, that reads or writes  *)
(* x.                                                                      *)
(***************************************************************************)
EXTENDS OffloadRuntime

CONSTANTS x, y, MaxLength

(* Texts are numbers: the running application never reads those the pass  *)
(* leaves, only those of ScopDetect, of which size is the value.           *)
Arg(v, t, n) ==
  [value |-> v, type |-> t, size |-> n, maxStr |-> Decimal(n), covers |-> TRUE]
Partly(u)    == [u EXCEPT !.covers = FALSE]
Scop(args)   == [kind |-> "scop", args |-> args, loops |-> << >>]
Host(k, t)   == [kind |-> k, args |-> <<Arg(x, t, 2)>>, loops |-> << >>]

UsesOfX == {Arg(x, "IN", 1), Arg(x, "IN", 2), Arg(x, "OUT", 1), Arg(x, "OUT", 2),
             Arg(x, "IN_OUT", 1), Arg(x, "IN_OUT", 2), Partly(Arg(x, "IN_OUT", 2))}

Scops == {Scop(<<u>>) : u \in UsesOfX}
           \cup {Scop(<<Arg(x, "IN", 2), Arg(y, "OUT", 1)>>),
                 Scop(<<Arg(y, "IN", 1), Arg(x, "OUT", 2)>>)}
HostCode == {Host(k, t) : k \in {"call", "inline"}, t \in {"IN", "OUT"}}

MCValues == {x, y}
MCTexts  == {Decimal(n) : n \in 1 .. MaxSize}
MCLoopNames == {<< >>}

Sequence(S) == UNION {[1 .. n -> S] : n \in 1 .. MaxLength}
AllPrograms == Sequence(Scops \cup HostCode)
HasScop(p)  == \E i \in DOMAIN p : p[i].kind = "scop"

(* HTrOP asserts that there is a SCoP (htropclient.cpp:500). *)
MCPrograms == {p \in AllPrograms : HasScop(p) /\ Offloadable(p)}

(* SCoPs that, like kernel_gauss (motion.cpp:71), write x but its border.  *)
BorderPrograms == {<<Scop(<<Partly(Arg(x, "OUT", 2))>>)>>}

(* Calls that use either buffer, or both in either direction, like those   *)
(* of kernel_gauss and kernel_rgb2grey with different images               *)
(* (motion.cpp:333).                                                       *)
FunctionCalls ==
  UNION {{Scop(<<Arg(v, "IN", 2)>>), Scop(<<Arg(v, "OUT", 2)>>),
          Scop(<<Arg(v, "IN_OUT", 2)>>)} : v \in {x, y}}
    \cup {Scop(<<Arg(x, "IN", 2), Arg(y, "OUT", 2)>>),
          Scop(<<Arg(y, "IN", 2), Arg(x, "OUT", 2)>>)}
SharedPrograms == {p \in Sequence(FunctionCalls) : Offloadable(p)}
=============================================================================
