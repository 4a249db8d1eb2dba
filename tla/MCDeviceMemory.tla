--------------------------- MODULE MCDeviceMemory ---------------------------
(* A small memory for TLC.                                                  *)
EXTENDS DeviceMemory

Symmetry == Permutations(Iovas)
=============================================================================
