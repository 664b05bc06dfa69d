----------------------------- MODULE AccessTyping -----------------------------
(***************************************************************************)
(* ScopDetect::runOnScop over the memory accesses of a SCoP: Polly yields  *)
(* the accesses statement by statement in an order the pass does not       *)
(* control, and every access updates the type of its argument.             *)
(***************************************************************************)
EXTENDS TransferTypes

CONSTANTS
  Args,        (* the arguments of the SCoP function                       *)
  PhiHelper    (* an accessed base pointer that is not an argument         *)

ASSUME PhiHelperAssumption == PhiHelper \notin Args

VARIABLES
  type,        (* ScopFnArg::type                                          *)
  isPointer,   (* ScopFnArg::isPointer                                     *)
  seen         (* history: the kinds of access to the argument's memory    *)

vars == <<type, isPointer, seen>>

Init ==
  /\ type = [a \in Args |-> "UNKNOWN"]
  /\ isPointer = [a \in Args |-> FALSE]
  /\ seen = [a \in Args |-> {}]

(* Mutant: Polly's kind of access is stored where the type belongs. *)
ArrayAccessKeepsKind(a, access) ==
  /\ isPointer' = [isPointer EXCEPT ![a] = TRUE]
  /\ type' = [type EXCEPT ![a] = IF @ = "UNKNOWN" THEN access ELSE setDataTransferType(@, access)]
  /\ seen' = [seen EXCEPT ![a] = @ \cup {access}]

(* The access is to memory a pointer argument addresses. *)
ArrayAccess(a, access) ==
  /\ isPointer' = [isPointer EXCEPT ![a] = TRUE]
  /\ type' = [type EXCEPT ![a] = setDataTransferType(@, access)]
  /\ seen' = [seen EXCEPT ![a] = @ \cup {access}]

(* A scalar access marks the argument as no pointer and is then skipped. *)
ScalarAccess(a) ==
  /\ isPointer' = [isPointer EXCEPT ![a] = FALSE]
  /\ UNCHANGED <<type, seen>>

(* An access whose base is no argument is skipped. *)
HelperAccess(base) ==
  /\ base \notin Args
  /\ UNCHANGED vars

Access(base, kind, scalar) ==
  \/ HelperAccess(base)
  \/ base \in Args /\ ~scalar /\ ArrayAccess(base, kind)
  \/ base \in Args /\ scalar /\ ScalarAccess(base)

Next ==
  \E base \in Args \cup {PhiHelper}, kind \in AccessType, scalar \in BOOLEAN :
    Access(base, kind, scalar)

Spec == Init /\ [][Next]_vars
-----------------------------------------------------------------------------
TypeOK ==
  /\ type \in [Args -> DataTransferType]
  /\ isPointer \in [Args -> BOOLEAN]
  /\ seen \in [Args -> SUBSET AccessType]

(* The type that the accesses of an argument call for, whatever order they *)
(* came in.                                                                *)
RequiredType(accesses) ==
  CASE accesses = {}                            -> "UNKNOWN"
    [] accesses = {"READ"}                      -> "IN"
    [] accesses # {} /\ "READ" \notin accesses  -> "OUT"
    [] OTHER                                    -> "IN_OUT"

(* The type of an argument depends only on which kinds of access there     *)
(* were: Polly's order of statements and accesses does not decide whether  *)
(* a buffer is uploaded or written back (scopdetect.cpp:704).              *)
TypeIsOrderIndependent ==
  \A a \in Args : type[a] = RequiredType(seen[a])

(* An access leaves an argument the transfers it had. *)
KeepsTransfers ==
  \A a \in Args : /\ Reads(type[a]) => Reads(type'[a])
                  /\ Writes(type[a]) => Writes(type'[a])

(* Once an argument is read it stays uploaded, once it is written it stays *)
(* written back: no later access takes a transfer away.                    *)
TransfersOnlyAdded == [][KeepsTransfers]_vars
=============================================================================
