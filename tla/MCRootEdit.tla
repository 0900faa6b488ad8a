----------------------------- MODULE MCRootEdit -----------------------------
(***************************************************************************)
(* RootEdit with two payload files and two patch targets.                  *)
(***************************************************************************)
EXTENDS RootEdit

CONSTANTS f1, f2, t1, t2

MCFileSeq == <<f1, f2>>
MCTargetSeq == <<t1, t2>>
=============================================================================
