---------------------------- MODULE MCImageBuild ----------------------------
(***************************************************************************)
(* ImageBuild for TLC.  The builders are interchangeable: no definition    *)
(* names one, and ImplementsPublication, an initial condition with an      *)
(* action, is as symmetric as the invariants.  The run that checks liveness *)
(* does without the symmetry.                                              *)
(***************************************************************************)
EXTENDS ImageBuild, TLC

Interchangeable == Permutations(Builders)
=============================================================================
