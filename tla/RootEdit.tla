------------------------------ MODULE RootEdit ------------------------------
(***************************************************************************)
(* The customization of the staged root filesystem: apply_feature_install  *)
(* with apply_external_patches, and under them debugfs_create_regular and  *)
(* debugfs_replace_regular, which hand a list of commands to a debugfs     *)
(* process.                                                                *)
(*                                                                         *)
(* debugfs is the other actor.  It executes the commands one by one, and   *)
(* exits with 0 even when one of them did nothing; it may also stop at any *)
(* command.  Whatever the code knows of the outcome it has to read back.   *)
(*                                                                         *)
(* The contents of a file are "desired", what the plan wants there;        *)
(* "stock", for a patch target any other mixture PatchTarget accepts; or   *)
(* "garbage".  Metadata is the set of fields with the wanted value, for a  *)
(* patch target the value it had at the start.                             *)
(***************************************************************************)
EXTENDS Integers, Sequences

CONSTANTS
  FileSeq,    \* paths of the plan's payload files, in installation order
  TargetSeq   \* paths of the plan's patch targets, sorted

Elements(s) == {s[i] : i \in 1 .. Len(s)}
Files == Elements(FileSeq)
Targets == Elements(TargetSeq)
Paths == Files \union Targets

\* _validate_payload_patch_disjoint, and the uniqueness both plans are checked for.
ASSUME PlanAssumption ==
  /\ FileSeq \in Seq(Files) /\ TargetSeq \in Seq(Targets)
  /\ Files \intersect Targets = {}
  /\ \A i, j \in 1 .. Len(FileSeq) : FileSeq[i] = FileSeq[j] => i = j
  /\ \A i, j \in 1 .. Len(TargetSeq) : TargetSeq[i] = TargetSeq[j] => i = j

VARIABLES
  fs0,     \* the filesystem before the first command
  fs,      \* the filesystem
  pc, k,   \* the statement and the index of its loop
  batch,   \* commands debugfs still has to execute
  told     \* the output of the write: debugfs named the inode it allocated

vars == <<fs0, fs, pc, k, batch, told>>

Fields == {"mode", "uid", "gid"}
Data == {"desired", "stock", "garbage"}
Absent == [data |-> "absent", meta |-> {}]
Entry == [data : Data, meta : SUBSET Fields] \union {Absent}
Installed == [data |-> "desired", meta |-> Fields]

\* What the customization may start from.
AcceptableTarget(e) == e.data \in {"desired", "stock"}
Acceptable(p, e) == IF p \in Files THEN e = Absent ELSE AcceptableTarget(e)

Initial(p) ==
  IF p \in Files
    THEN {Absent, [data |-> "garbage", meta |-> {}]}
    ELSE {Absent} \union {[data |-> d, meta |-> Fields] : d \in Data}

Commands ==
  [op : {"rm", "write"}, path : Paths]
  \union [op : {"set"}, path : Paths, field : Fields]

SetField(p, f) == [op |-> "set", path |-> p, field |-> f]

Set(p) == <<SetField(p, "mode"), SetField(p, "uid"), SetField(p, "gid")>>

Replacement(p) ==
  <<[op |-> "rm", path |-> p], [op |-> "write", path |-> p],
    SetField(p, "mode"), SetField(p, "uid"), SetField(p, "gid")>>

Pcs == {"checkFiles", "checkTargets",
        "requireAbsent", "writing", "verifyData", "setting", "verifyFile",
        "snapshot", "reread", "replacing", "verifyTarget",
        "fsck", "finalTargets", "finalFiles", "done", "failed"}

Init ==
  /\ fs \in [Paths -> Entry] /\ \A p \in Paths : fs[p] \in Initial(p)
  /\ fs0 = fs
  /\ pc = "checkFiles" /\ k = 1
  /\ batch = <<>> /\ told = FALSE
-----------------------------------------------------------------------------
Enter(to) == pc' = to /\ k' = 1

Unread == UNCHANGED <<fs0, fs, batch, told>>

\* One iteration of a loop over s that requires ok of its element.
CheckNext(at, s, ok(_), to) ==
  /\ pc = at
  /\ \/ /\ k <= Len(s) /\ ok(s[k])
        /\ k' = k + 1 /\ UNCHANGED pc
     \/ k > Len(s) /\ Enter(to)
  /\ Unread

IsAbsent(p) == fs[p] = Absent
IsAcceptable(p) == AcceptableTarget(fs[p])
IsPatched(p) == fs[p].data = "desired"
IsInstalledButForMetadata(p) == fs[p].data = Installed.data
IsInstalled(p) == fs[p] = Installed

\* _preflight_feature_files and _preflight_patch_plans.
CheckFiles == CheckNext("checkFiles", FileSeq, IsAbsent, "checkTargets")

SkipCheckTargets == pc = "checkTargets" /\ Enter("requireAbsent") /\ Unread

CheckTargets == CheckNext("checkTargets", TargetSeq, IsAcceptable, "requireAbsent")
-----------------------------------------------------------------------------
(***************************************************************************)
(* debugfs_create_regular and _verify_feature_file, file after file.       *)
(***************************************************************************)
RequireAbsent ==
  /\ pc = "requireAbsent" /\ k <= Len(FileSeq)
  /\ IsAbsent(FileSeq[k])
  /\ batch' = <<[op |-> "write", path |-> FileSeq[k]]>>
  /\ pc' = "writing" /\ told' = FALSE
  /\ UNCHANGED <<fs0, fs, k>>

\* "Allocated inode" in the output, then the contents are read back.
Confirm ==
  /\ pc = "writing" /\ batch = <<>>
  /\ told
  /\ pc' = "verifyData"
  /\ UNCHANGED <<fs0, fs, k, batch, told>>

VerifyData ==
  /\ pc = "verifyData"
  /\ IsPatched(FileSeq[k])
  /\ batch' = Set(FileSeq[k])
  /\ pc' = "setting"
  /\ UNCHANGED <<fs0, fs, k, told>>

EndSetting ==
  /\ pc = "setting" /\ batch = <<>>
  /\ pc' = "verifyFile"
  /\ UNCHANGED <<fs0, fs, k, batch, told>>

VerifyFileAtTheEnd ==
  /\ pc = "verifyFile"
  /\ pc' = "requireAbsent" /\ k' = k + 1
  /\ Unread

VerifyFile ==
  /\ pc = "verifyFile"
  /\ IsInstalled(FileSeq[k])
  /\ pc' = "requireAbsent" /\ k' = k + 1
  /\ Unread

EndFiles ==
  /\ pc = "requireAbsent" /\ k > Len(FileSeq)
  /\ Enter("snapshot")
  /\ Unread
-----------------------------------------------------------------------------
(***************************************************************************)
(* apply_external_patches.                                                 *)
(***************************************************************************)
Snapshot == CheckNext("snapshot", TargetSeq, IsAcceptable, "reread")

\* The target is read again; it must be as it was at the snapshot, and it is
\* replaced only if it is not yet what is desired.
Unchanged(p) == fs[p] = fs0[p] /\ IsAcceptable(p)

KeepPatched ==
  /\ pc = "reread" /\ k <= Len(TargetSeq)
  /\ Unchanged(TargetSeq[k]) /\ IsPatched(TargetSeq[k])
  /\ pc' = "verifyTarget"
  /\ UNCHANGED <<fs0, fs, k, batch, told>>

ReplaceAlways ==
  /\ pc = "reread" /\ k <= Len(TargetSeq)
  /\ Unchanged(TargetSeq[k])
  /\ batch' = Replacement(TargetSeq[k])
  /\ pc' = "replacing"
  /\ UNCHANGED <<fs0, fs, k, told>>

Replace ==
  /\ pc = "reread" /\ k <= Len(TargetSeq)
  /\ Unchanged(TargetSeq[k]) /\ ~IsPatched(TargetSeq[k])
  /\ batch' = Replacement(TargetSeq[k])
  /\ pc' = "replacing"
  /\ UNCHANGED <<fs0, fs, k, told>>

EndReplacing ==
  /\ pc = "replacing" /\ batch = <<>>
  /\ pc' = "verifyTarget"
  /\ UNCHANGED <<fs0, fs, k, batch, told>>

\* _verify_target_after: contents and metadata.
VerifyTarget ==
  /\ pc = "verifyTarget"
  /\ IsInstalled(TargetSeq[k])
  /\ pc' = "reread" /\ k' = k + 1
  /\ Unread

EndTargets ==
  /\ pc = "reread" /\ k > Len(TargetSeq)
  /\ Enter("fsck")
  /\ Unread

\* e2fsck -fn does not write.
Fsck ==
  /\ pc = "fsck"
  /\ Enter("finalTargets")
  /\ Unread

FinalTargets == CheckNext("finalTargets", TargetSeq, IsInstalled, "finalFiles")

FinalFiles == CheckNext("finalFiles", FileSeq, IsInstalled, "done")
-----------------------------------------------------------------------------
(***************************************************************************)
(* debugfs and failures.                                                   *)
(***************************************************************************)
\* The entries a command may leave at its path; doing nothing is one of them.
Results(c) ==
  LET e == fs[c.path] IN
  {e} \union
  CASE c.op = "rm" -> {Absent}
    [] c.op = "write" /\ e = Absent ->
         [data : {"desired", "garbage"}, meta : SUBSET Fields]
    [] c.op = "set" /\ e # Absent ->
         {[e EXCEPT !.meta = e.meta \union {c.field}]}
    [] OTHER -> {}

DebugfsCommand ==
  /\ pc \in {"writing", "setting", "replacing"} /\ batch # <<>>
  /\ \E e \in Results(Head(batch)) :
       /\ fs' = [fs EXCEPT ![Head(batch).path] = e]
       /\ told' = (Head(batch).op = "write" /\ e # fs[Head(batch).path])
  /\ batch' = Tail(batch)
  /\ UNCHANGED <<fs0, pc, k>>

\* A check does not hold, a tool exits with an error or times out: BuilderError
\* or subprocess.TimeoutExpired, and the build is over.
Fail ==
  /\ pc \notin {"done", "failed"}
  /\ pc' = "failed"
  /\ UNCHANGED <<fs0, fs, k, batch, told>>

Next ==
  \/ CheckFiles \/ CheckTargets
  \/ RequireAbsent \/ Confirm \/ VerifyData \/ EndSetting \/ VerifyFile \/ EndFiles
  \/ Snapshot \/ KeepPatched \/ Replace \/ EndReplacing \/ VerifyTarget
  \/ EndTargets \/ Fsck \/ FinalTargets \/ FinalFiles
  \/ DebugfsCommand \/ Fail

Spec == Init /\ [][Next]_vars
-----------------------------------------------------------------------------
(***************************************************************************)
(* Properties.                                                             *)
(***************************************************************************)
TypeOK ==
  /\ fs0 \in [Paths -> Entry] /\ fs \in [Paths -> Entry]
  /\ pc \in Pcs /\ k \in Nat \ {0}
  /\ batch \in Seq(Commands) /\ told \in BOOLEAN

\* Whichever commands debugfs skipped or cut short, a customization that
\* succeeds has every payload and every patch in place with its metadata.
DoneIsInstalled == pc = "done" => \A p \in Paths : fs[p] = Installed

\* If any payload already exists or any target is not supported, nothing at all
\* has been written: the refusal comes before the first command.
RefusedIsUntouched ==
  (\E p \in Paths : ~Acceptable(p, fs0[p])) => fs = fs0

\* No target is touched while a payload it will load is missing or unverified.
PayloadBeforeHooks ==
  (\E p \in Targets : fs[p] # fs0[p])
    => \A p \in Files : fs[p] = Installed

\* A target that is already what the plan wants is never removed and rewritten.
PatchedIsLeftAlone ==
  \A p \in Targets : fs0[p].data = "desired" => fs[p] = fs0[p]
=============================================================================
