---------------------------- MODULE ImageAssembly ----------------------------
(***************************************************************************)
(* builder.py and verifier.py: what gets into the partitions of the image. *)
(* The three restored file systems are opened and validated, the root is   *)
(* copied into a stage and customized there, everything is copied into the *)
(* image, and the image is read back before it is published.               *)
(*                                                                         *)
(* Some other program may write to the files between any two steps, and    *)
(* the image may be damaged until it is read back.  Each write gives the   *)
(* file a new version, which is what assert_unchanged compares; two        *)
(* contents have the same hash when they are equal.                        *)
(***************************************************************************)
EXTENDS Integers, Sequences

CONSTANTS
  Fresh,       \* the file systems the program makes itself, by partition
  Bodies,      \* data a file system may hold
  Sound,       \* data that matches its specification and e2fsck accepts
  Plans,       \* what the feature plan writes to: sets of {"jukebox", "other"}
  MaxMeddling  \* bound on writes by others, and on damage to the image

ASSUME SoundAssumption ==
  /\ Sound \subseteq Bodies
  /\ Fresh \intersect {"boot", "root", "vr", "stage",
                       "p1", "p2", "p3", "p5", "p6", "p11"} = {}

VARIABLES
  plan,
  file,     \* the files: three restored, the stage, the swap space, the fresh
  opened,   \* version of a file when it was opened
  hash,     \* content of a file when it was hashed
  image,    \* what the partitions hold
  seen,     \* what was read back from the partitions so far
  pc, index,  \* the statement, and the index its loop has reached
  accepted, \* history: content that validate_superblock and e2fsck accepted
  exposed,  \* history: the stage was written to before it was opened again
  meddling

vars == <<plan, file, opened, hash, image, seen, pc, index, accepted, exposed, meddling>>
history == <<accepted, exposed>>

Roles == <<"boot", "root", "vr">>
Source == {"boot", "root", "vr"}
FreshOrSwap == {"p3"} \union Fresh
Files == Source \union {"stage"} \union FreshOrSwap

\* payload_plan, then the swap space and the fresh file systems.
Targets == [f \in (Files \ {"root"}) |->
              CASE f = "boot"  -> {"p1", "p5"}
                [] f = "stage" -> {"p2", "p6"}
                [] f = "vr"    -> {"p11"}
                [] OTHER       -> {f}]
Immutable == {"p1", "p2", "p5", "p6", "p11"}
ImagePartitions == Immutable \union FreshOrSwap
Payload(p) == CHOOSE f \in DOMAIN Targets : p \in Targets[f]

Content(body, marks, header) == [body |-> body, marks |-> marks, header |-> header]
Nothing == Content("nothing", {}, FALSE)
Made == Content("made", {}, TRUE)

Absent == [content |-> Nothing, version |-> 0]
Restored(body) == [content |-> Content(body, {}, TRUE), version |-> 0]

Init ==
  /\ plan \in Plans
  /\ \E body \in [Source -> Bodies] :
       file = [f \in Files |-> IF f \in Source THEN Restored(body[f]) ELSE Absent]
  /\ opened = [f \in Files |-> -1]
  /\ hash = [f \in Source \union {"stage"} |-> Nothing]
  /\ image = [p \in ImagePartitions |-> Nothing] /\ seen = <<>>
  /\ pc = "open" /\ index = 1
  /\ accepted = [f \in Source |-> Nothing] /\ exposed = FALSE
  /\ meddling = 0
-----------------------------------------------------------------------------
Goto(p, m) == pc' = p /\ index' = m
Check(ok, p, m) == IF ok THEN Goto(p, m) ELSE Goto("failed", index)

Open(f) == opened' = [opened EXCEPT ![f] = file[f].version]
Unchanged(f) == opened[f] = file[f].version
Write(f, content) ==
  file' = [file EXCEPT ![f] = [content |-> content, version |-> @.version + 1]]

(***************************************************************************)
(* _validate_prepared_filesystems: all are opened, then each is hashed,    *)
(* its superblock compared and e2fsck run on it.                           *)
(***************************************************************************)
OpenSource ==
  /\ pc = "open"
  /\ Open(Roles[index])
  /\ IF index < Len(Roles) THEN Goto("open", index + 1) ELSE Goto("hash", 1)
  /\ UNCHANGED <<plan, file, hash, image, seen, history, meddling>>

HashSource ==
  /\ pc = "hash"
  /\ hash' = [hash EXCEPT ![Roles[index]] = file[Roles[index]].content]
  /\ Goto("fsck", index)
  /\ UNCHANGED <<plan, file, opened, image, seen, history, meddling>>

FsckSource ==
  /\ pc = "fsck"
  /\ LET content == file[Roles[index]].content IN
       /\ Check(content.body \in Sound /\ content.header, "unchanged", index)
       /\ accepted' = [accepted EXCEPT ![Roles[index]] = content]
  /\ UNCHANGED <<plan, file, opened, hash, image, seen, exposed, meddling>>

SourceUnchanged ==
  /\ pc = "unchanged"
  /\ Check(Unchanged(Roles[index]), IF index < Len(Roles) THEN "hash" ELSE "plan",
           IF index < Len(Roles) THEN index + 1 ELSE 1)
  /\ UNCHANGED <<plan, file, opened, hash, image, seen, history, meddling>>
-----------------------------------------------------------------------------
\* No feature may write to the file that the Jukebox fix has corrected.
PlanAnything ==
  /\ pc = "plan" /\ Goto("make", 1)
  /\ UNCHANGED <<plan, file, opened, hash, image, seen, history, meddling>>
CheckPlan ==
  /\ pc = "plan" /\ Check("jukebox" \notin plan, "make", 1)
  /\ UNCHANGED <<plan, file, opened, hash, image, seen, history, meddling>>

\* create_swap, create_legacy_ext, populate_p7 and e2fsck by path.
MakeFresh ==
  /\ pc = "make" /\ Goto("stage", 1)
  /\ file' = [f \in Files |->
                IF f \in FreshOrSwap THEN [content |-> Made, version |-> 0] ELSE file[f]]
  /\ UNCHANGED <<plan, opened, hash, image, seen, history, meddling>>

\* stage_jukebox_fix copies the root through its descriptor ...
Stage ==
  /\ pc = "stage" /\ Check(Unchanged("root"), "fix", 1)
  /\ Write("stage", file["root"].content)
  /\ UNCHANGED <<plan, opened, hash, image, seen, history, meddling>>

\* ... corrects the copy, runs e2fsck on it, and compares the root again.
Fix ==
  /\ pc = "fix"
  /\ LET content == file["stage"].content
         fixed == [content EXCEPT !.marks = @ \union {"fix"}]
     IN /\ Write("stage", fixed)
        /\ Check(content.body \in Sound /\ Unchanged("root"), "install", 1)
  /\ UNCHANGED <<plan, opened, hash, image, seen, history, meddling>>

\* staged_root is closed, and apply_feature_install opens the stage by path.
Install ==
  /\ pc = "install" /\ Goto("reopen", 1)
  /\ LET marks == file["stage"].content.marks IN
       IF plan = {} THEN UNCHANGED file
       ELSE Write("stage", [file["stage"].content EXCEPT !.marks =
                              (marks \union {"features"})
                              \ (IF "jukebox" \in plan THEN {"fix"} ELSE {})])
  /\ UNCHANGED <<plan, opened, hash, image, seen, history, meddling>>

Reopen ==
  /\ pc = "reopen" /\ Goto("hashRoot", 1)
  /\ Open("stage")
  /\ UNCHANGED <<plan, file, hash, image, seen, history, meddling>>

HashRoot ==
  /\ pc = "hashRoot" /\ Goto("begin", 1)
  /\ hash' = [hash EXCEPT !["stage"] = file["stage"].content]
  /\ UNCHANGED <<plan, file, opened, image, seen, history, meddling>>
-----------------------------------------------------------------------------
(***************************************************************************)
(* The copies.  The payloads have been open for long; the swap space and   *)
(* the fresh file systems are opened now, and the swap space is not looked *)
(* at again.  A file that changes while it is copied gives a mixture.      *)
(***************************************************************************)
\* The order in which they are copied; that of the fresh ones is immaterial.
Copied(k) == CASE k = 1 -> {"boot"} [] k = 2 -> {"stage"} [] k = 3 -> {"vr"}
               [] k = 4 -> {"p3"} [] k = 5 -> Fresh

BeginCopy ==
  /\ pc = "begin"
  /\ opened' = [f \in Files |->
                  IF f \in Copied(index) \intersect FreshOrSwap THEN file[f].version
                  ELSE opened[f]]
  /\ Goto("copy", index)
  /\ UNCHANGED <<plan, file, hash, image, seen, history, meddling>>

Mixture == Content("mixture", {}, TRUE)
Copy ==
  /\ pc = "copy"
  /\ image' = [p \in ImagePartitions |->
                 IF Payload(p) \notin Copied(index) THEN image[p]
                 ELSE IF Unchanged(Payload(p)) THEN file[Payload(p)].content ELSE Mixture]
  /\ Check(\A f \in Copied(index) \ {"p3"} : Unchanged(f),
           IF index < 5 THEN "begin" ELSE "headers", IF index < 5 THEN index + 1 ELSE 1)
  /\ UNCHANGED <<plan, file, opened, hash, seen, history, meddling>>
-----------------------------------------------------------------------------
(***************************************************************************)
(* _verify_assembled_image; the partition table is in Geometry.            *)
(***************************************************************************)
VerifyHeaders ==
  /\ pc = "headers"
  /\ Check(\A p \in Immutable : image[p].header, "hashes", 1)
  /\ UNCHANGED <<plan, file, opened, hash, image, seen, history, meddling>>

HashPartitions ==
  /\ pc = "hashes" /\ Goto("compare", 1)
  /\ seen' = [p \in Immutable |-> image[p]]
  /\ UNCHANGED <<plan, file, opened, hash, image, history, meddling>>

\* **source_hashes, "root": root_payload_sha256
ExpectedOfSources == [p \in {"p1", "p2", "p11"} |->
                        hash[IF p = "p2" THEN "root" ELSE Payload(p)]]
Expected == [p \in {"p1", "p2", "p11"} |-> hash[Payload(p)]]

ComparePairs ==
  /\ pc = "compare"
  /\ Check(seen["p1"] = seen["p5"] /\ seen["p2"] = seen["p6"], "fresh", 1)
  /\ UNCHANGED <<plan, file, opened, hash, image, seen, history, meddling>>
Compare ==
  /\ pc = "compare"
  /\ Check(/\ seen["p1"] = seen["p5"] /\ seen["p2"] = seen["p6"]
           /\ \A p \in DOMAIN Expected : seen[p] = Expected[p], "fresh", 1)
  /\ UNCHANGED <<plan, file, opened, hash, image, seen, history, meddling>>

VerifyNoSwap ==
  /\ pc = "fresh"
  /\ Check(\A p \in Fresh : image[p].header, "published", 1)
  /\ UNCHANGED <<plan, file, opened, hash, image, seen, history, meddling>>
\* The superblocks of the fresh file systems, and the swap header.
VerifyFresh ==
  /\ pc = "fresh"
  /\ Check(\A p \in FreshOrSwap : image[p].header, "published", 1)
  /\ UNCHANGED <<plan, file, opened, hash, image, seen, history, meddling>>
-----------------------------------------------------------------------------
(***************************************************************************)
(* What the program does not do.                                           *)
(***************************************************************************)
Running == pc \notin {"failed", "published"}

Meddle ==
  /\ Running /\ meddling < MaxMeddling /\ meddling' = meddling + 1
  /\ \E f \in {g \in Files : file[g] # Absent}, b \in Bodies, h \in BOOLEAN :
       /\ Content(b, {}, h) # file[f].content
       /\ Write(f, Content(b, {}, h))
       /\ exposed' = (exposed \/ (f = "stage" /\ pc \in {"fix", "install", "reopen"}))
  /\ UNCHANGED <<plan, opened, hash, image, seen, pc, index, accepted>>

\* A partition is damaged that has still to be read back.
Damage ==
  /\ meddling < MaxMeddling /\ meddling' = meddling + 1
  /\ \E p \in (CASE pc \in {"begin", "copy", "headers", "hashes"} -> ImagePartitions
                 [] pc \in {"compare", "fresh"}                  -> FreshOrSwap
                 [] OTHER                                         -> {}) :
       \/ image' = [image EXCEPT ![p].header = FALSE]
       \/ image' = [image EXCEPT ![p].body = "mixture"]
  /\ UNCHANGED <<plan, file, opened, hash, seen, pc, index, history>>

Next ==
  \/ OpenSource \/ HashSource \/ FsckSource \/ SourceUnchanged
  \/ CheckPlan \/ MakeFresh \/ Stage \/ Fix \/ Install \/ Reopen \/ HashRoot
  \/ BeginCopy \/ Copy
  \/ VerifyHeaders \/ HashPartitions \/ Compare \/ VerifyFresh
  \/ Meddle \/ Damage

Spec == Init /\ [][Next]_vars
-----------------------------------------------------------------------------
(***************************************************************************)
(* Both boot partitions and the one of the voice recognition hold what was *)
(* validated: what e2fsck has accepted, not only what was hashed before.   *)
(***************************************************************************)
PublishedIsAccepted ==
  pc = "published" =>
    image["p1"] = accepted["boot"] /\ image["p5"] = accepted["boot"]
    /\ image["p11"] = accepted["vr"]

(***************************************************************************)
(* Both root partitions hold the customized root: the one that was         *)
(* accepted, with the Jukebox fix and the features of the plan.  Until it  *)
(* is opened for the copies the stage is opened again and again by its     *)
(* path, so this takes for granted that nobody else writes to it in that   *)
(* time; what is written to it afterwards is never published.              *)
(***************************************************************************)
RootIsCustomized ==
  pc = "published" /\ ~exposed =>
    LET marks == {"fix"} \union (IF plan = {} THEN {} ELSE {"features"})
        wanted == [accepted["root"] EXCEPT !.marks = marks]
    IN image["p2"] = wanted /\ image["p6"] = wanted

(***************************************************************************)
(* Every file system and the swap space in a published image has the       *)
(* header it should have, whoever damaged it and when.                     *)
(***************************************************************************)
HeadersArePublished ==
  pc = "published" => \A p \in ImagePartitions : image[p].header

(***************************************************************************)
(* The two together: what is not customized is what was accepted, and      *)
(* nothing in the image has lost its header.                               *)
(***************************************************************************)
AssemblyIsAccepted == PublishedIsAccepted /\ HeadersArePublished

(***************************************************************************)
(* With sound file systems, a plan that keeps off the Jukebox file, and    *)
(* nobody else at work, the image is published: no check compares things   *)
(* that the customization makes different.                                 *)
(***************************************************************************)
HonestIsPublished ==
  pc = "failed" =>
    \/ meddling > 0 \/ "jukebox" \in plan
    \/ \E f \in Source : file[f].content.body \notin Sound
=============================================================================
