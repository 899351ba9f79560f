--------------------------- MODULE MCKernelUpload ---------------------------
(***************************************************************************)
(* Kernels of two blocks for the runs of KernelUpload: one that reaches    *)
(* PASS and one that hangs.                                                *)
(***************************************************************************)
EXTENDS KernelUpload

McHealthy == {<<"k1", "k2">>}

McImage == McHealthy \cup {<<"h1">>}
=============================================================================
