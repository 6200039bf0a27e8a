------------------------------ MODULE MCVmTest ------------------------------
(* Up to MAX_CLIENT_FRAMES frames for arbitrary kernel code, as many as the *)
(* self-test needs to get to its end for the script.                        *)
EXTENDS MCVm, VmTest

=============================================================================
