--------------------------- MODULE MCMessageFraming ---------------------------
(***************************************************************************)
(* Three messages of up to three bytes.                                    *)
(***************************************************************************)
EXTENDS MessageFraming

MCTypes == {"REQ_LLVM_IR", "RSP_LLVM_IR"}
MCSizes == {0, 1, 3}
=============================================================================
