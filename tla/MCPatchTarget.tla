---------------------------- MODULE MCPatchTarget ----------------------------
(***************************************************************************)
(* PatchTarget on files of three bytes: every file, every source and every *)
(* sorted list of up to two valid hunks.                                   *)
(***************************************************************************)
EXTENDS PatchTarget
=============================================================================
