------------------------- MODULE MCKernelCompilation -------------------------
(***************************************************************************)
(* The full build of CMakeLists.txt:120 with three devices, and two        *)
(* kernels, so that a kernel list can be half filled.                      *)
(***************************************************************************)
EXTENDS KernelCompilation

MCDeviceList  == <<"MCPU", "GPU", "MIC">>
MCKernelNames == <<"k1", "k2">>
=============================================================================
