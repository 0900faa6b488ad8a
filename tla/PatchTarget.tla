----------------------------- MODULE PatchTarget -----------------------------
(***************************************************************************)
(* One patch target through patches.py: the hunks of all selected recipes, *)
(* sorted by offset, are scanned for overlaps (_build_target_plans); the   *)
(* bytes under each hunk are classified as stock or replacement while the  *)
(* replacements are reverted in a copy; the copy must be the source file;  *)
(* then every hunk's replacement is written into it (_transform_target).   *)
(* Each loop is an action per iteration.  SHA-256 equality is equality of  *)
(* the contents.                                                           *)
(***************************************************************************)
EXTENDS PatchBytes

CONSTANTS
  FileSize,   \* bytes of the target, the recipe's source_bytes
  Byte,       \* the values a byte takes
  MaxHunks    \* bound on the hunks of one target, MAX_SELECTED_HUNKS

ASSUME FileSizeAssumption == FileSize \in Nat \ {0}
ASSUME MaxHunksAssumption == MaxHunks \in Nat \ {0}

VARIABLES
  data,       \* the file as debugfs_cat returned it
  source,     \* the file the recipes were made for
  hunks,      \* plan.hunks, sorted by offset
  pc, k,      \* the loop and its next hunk
  previousEnd,
  desired,    \* the copy under construction
  states      \* _HunkState.state of the hunks inspected so far

vars == <<data, source, hunks, pc, k, previousEnd, desired, states>>
inputs == <<data, source, hunks>>

File == [0 .. FileSize - 1 -> Byte]

\* What _read_patch accepts: nonempty byte strings of one length, different,
\* within the file.
Hunk ==
  UNION {[offset : 0 .. FileSize - n,
          before : [1..n -> Byte], after : [1..n -> Byte]] : n \in 1..FileSize}

ValidHunk(h) == h.before # h.after

SortedHunks ==
  {hs \in UNION {[1..n -> Hunk] : n \in 1..MaxHunks} :
     /\ \A i \in DOMAIN hs : ValidHunk(hs[i])
     /\ \A i, j \in DOMAIN hs : i < j => hs[i].offset <= hs[j].offset}

Init ==
  /\ data \in File /\ source \in File /\ hunks \in SortedHunks
  /\ pc = "scan" /\ k = 1
  /\ previousEnd = 0
  /\ desired = data
  /\ states = <<>>
-----------------------------------------------------------------------------
Refuse ==
  /\ pc' = "refused"
  /\ UNCHANGED <<inputs, k, previousEnd, desired, states>>

\* for hunk in hunks: if hunk.offset < previous_end: raise
OverlapsByTwo == hunks[k].offset < previousEnd - 1
Overlaps == hunks[k].offset < previousEnd

RefuseOverlap ==
  /\ pc = "scan" /\ k <= Len(hunks)
  /\ Overlaps
  /\ Refuse

ScanHunkInclusive ==
  /\ pc = "scan" /\ k <= Len(hunks)
  /\ ~Overlaps
  /\ previousEnd' = HunkEnd(hunks[k]) + 1
  /\ k' = k + 1
  /\ UNCHANGED <<inputs, pc, desired, states>>

ScanHunk ==
  /\ pc = "scan" /\ k <= Len(hunks)
  /\ ~Overlaps
  /\ previousEnd' = HunkEnd(hunks[k])
  /\ k' = k + 1
  /\ UNCHANGED <<inputs, pc, desired, states>>

EndScan ==
  /\ pc = "scan" /\ k > Len(hunks)
  /\ pc' = "inspect" /\ k' = 1
  /\ UNCHANGED <<inputs, previousEnd, desired, states>>

\* actual == hunk.before comes first, so a hunk whose two strings both match
\* would be stock; ValidHunk excludes it.
InspectStock ==
  /\ pc = "inspect" /\ k <= Len(hunks)
  /\ Reads(data, hunks[k], hunks[k].before)
  /\ states' = Append(states, "stock")
  /\ k' = k + 1
  /\ UNCHANGED <<inputs, pc, previousEnd, desired>>

InspectReplacement ==
  /\ pc = "inspect" /\ k <= Len(hunks)
  /\ ~Reads(data, hunks[k], hunks[k].before)
  /\ Reads(data, hunks[k], hunks[k].after)
  /\ desired' = Overwrite(desired, hunks[k], hunks[k].before)
  /\ states' = Append(states, "replacement")
  /\ k' = k + 1
  /\ UNCHANGED <<inputs, pc, previousEnd>>

RefuseUnrecognized ==
  /\ pc = "inspect" /\ k <= Len(hunks)
  /\ ~Reads(data, hunks[k], hunks[k].before)
  /\ ~Reads(data, hunks[k], hunks[k].after)
  /\ Refuse

EndInspect ==
  /\ pc = "inspect" /\ k > Len(hunks)
  /\ pc' = "reconstruct"
  /\ UNCHANGED <<inputs, k, previousEnd, desired, states>>

\* reconstructed_sha256 != plan.source_sha256
RefuseSource ==
  /\ pc = "reconstruct"
  /\ desired # source
  /\ Refuse

AnySource ==
  /\ pc = "reconstruct"
  /\ pc' = "write" /\ k' = 1
  /\ UNCHANGED <<inputs, previousEnd, desired, states>>

AcceptSource ==
  /\ pc = "reconstruct"
  /\ desired = source
  /\ pc' = "write" /\ k' = 1
  /\ UNCHANGED <<inputs, previousEnd, desired, states>>

WriteHunk ==
  /\ pc = "write" /\ k <= Len(hunks)
  /\ desired' = Overwrite(desired, hunks[k], hunks[k].after)
  /\ k' = k + 1
  /\ UNCHANGED <<inputs, pc, previousEnd, states>>

EndWrite ==
  /\ pc = "write" /\ k > Len(hunks)
  /\ pc' = "done"
  /\ UNCHANGED <<inputs, k, previousEnd, desired, states>>

Next ==
  \/ RefuseOverlap \/ ScanHunk \/ EndScan
  \/ InspectStock \/ InspectReplacement \/ RefuseUnrecognized \/ EndInspect
  \/ RefuseSource \/ AcceptSource \/ WriteHunk \/ EndWrite

Spec == Init /\ [][Next]_vars
-----------------------------------------------------------------------------
(***************************************************************************)
(* Properties.                                                             *)
(***************************************************************************)
TypeOK ==
  /\ data \in File /\ source \in File /\ hunks \in SortedHunks
  /\ pc \in {"scan", "inspect", "reconstruct", "write", "done", "refused"}
  /\ k \in 1 .. Len(hunks) + 1
  /\ previousEnd \in 0..FileSize
  /\ desired \in File
  /\ states \in Seq({"stock", "replacement"})

\* Whatever mixture of stock and replacement bytes the file held, the result is
\* the source file with every hunk replaced and no other byte changed.
ResultIsPatched == pc = "done" => Patched(desired, source, hunks)

\* Only a mixture of disjoint hunks is accepted: a file with one foreign byte
\* anywhere, under a hunk or outside all of them, is never patched.
AcceptsOnlyMixtures ==
  pc = "done" => Disjoint(hunks) /\ Mixture(data, source, hunks)

\* No legitimate file is refused: the scan that compares a hunk with its
\* predecessor only, and the byte-wise checks, have no false alarm.
RefusesNoMixture ==
  pc = "refused" => ~(Disjoint(hunks) /\ Mixture(data, source, hunks))
=============================================================================
