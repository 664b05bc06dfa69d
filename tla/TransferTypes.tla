---------------------------- MODULE TransferTypes ----------------------------
(***************************************************************************)
(* The DataTransferType of a buffer and the three tables the client and    *)
(* the runtime decide with: how a memory access changes the type of a SCoP *)
(* argument, how a later call changes the type of an earlier one, and      *)
(* which transfers a type stands for.                                      *)
(***************************************************************************)

DataTransferType == {"UNKNOWN", "IN", "OUT", "IN_OUT", "TMP"}

(* polly::MemoryAccess::AccessType *)
AccessType == {"READ", "MUST_WRITE", "MAY_WRITE"}

(* Mutant: reading an argument that is already written leaves it OUT. *)
AfterReadKeepsOut(type) ==
  CASE type \in {"UNKNOWN", "IN", "TMP"} -> "IN"
    [] type \in {"OUT", "IN_OUT"}        -> type

(* Mutant: a write to an argument that is already read makes it OUT. *)
AfterWriteDropsIn(type) ==
  "OUT"

(* ScopDetect::setDataTransferType: READ and the two kinds of write.       *)
AfterRead(type) ==
  CASE type \in {"UNKNOWN", "IN", "TMP"} -> "IN"
    [] type \in {"OUT", "IN_OUT"}        -> "IN_OUT"

AfterWrite(type) ==
  CASE type \in {"UNKNOWN", "OUT", "TMP"} -> "OUT"
    [] type \in {"IN", "IN_OUT"}          -> "IN_OUT"

setDataTransferType(type, access) ==
  IF access = "READ" THEN AfterRead(type) ELSE AfterWrite(type)

(* What a kernel does with an argument of this type. *)
Reads(type)  == type \in {"IN", "IN_OUT"}
Writes(type) == type \in {"OUT", "IN_OUT"}

(* Mutant: only an IN_OUT child makes a read-only root written back. *)
RootTypeIgnoresOut(root, child) ==
  IF root = "IN" /\ child = "IN_OUT" THEN "IN_OUT" ELSE root

(* Mutant: off the diagonal the two types are joined. *)
RootTypeJoined(root, child) ==
  IF root # child /\ Writes(root) # Writes(child) THEN "IN_OUT" ELSE root

(* ScopDependency::updateRootBufferWithChildren, the switch on types: a    *)
(* buffer the root only reads but its child writes has to come back.       *)
RootType(root, child) ==
  IF root = "IN" /\ Writes(child) THEN "IN_OUT" ELSE root

(* OpenCLDevice::createAndPopulateBuffer fills the new buffer from the     *)
(* host; OpenCLDevice::cleanUpBuffers copies it back before releasing it.  *)
Uploaded(type)    == type # "OUT"
WrittenBack(type) == type # "IN"
=============================================================================
