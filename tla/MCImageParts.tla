---------------------------- MODULE MCImageParts ----------------------------
(***************************************************************************)
(* What is between the restored file systems and a verified image, in one  *)
(* run; `part' says which component is at work.  The components share no   *)
(* state, and each is checked with all its behaviours.                     *)
(***************************************************************************)
EXTENDS ImageAssembly, SparseCopy, Geometry, FreshFilesystem, Skeleton

VARIABLE part
-----------------------------------------------------------------------------
AllPlans == SUBSET {"jukebox", "other"}

\* To two partitions, to one that is too small, and inner ranges up and down.
Copies ==
  {[range |-> FALSE, from |-> 0, length |-> 4, offsets |-> <<1, 6>>],
   [range |-> FALSE, from |-> 0, length |-> 4, offsets |-> <<8>>],
   [range |-> TRUE, from |-> 1, length |-> 2, offsets |-> <<3>>],
   [range |-> TRUE, from |-> 1, length |-> 3, offsets |-> <<-1>>],
   [range |-> TRUE, from |-> 2, length |-> 0, offsets |-> <<0>>]}
Contents == {0, 2}
-----------------------------------------------------------------------------
\* The layout that is built, and all layouts of a disk of ten sectors with two
\* small partitions beside an extended one that has two logical partitions.
Small(second, length, first, space, record, from, sectors) ==
  [disk |-> 10,
   primaries |-> <<Partition(1, 1, "linux", 0), Partition(second, length, "swap", 0),
                   Partition(4, 6, "extended", 0)>>,
   logicals |-> <<Partition(first, space, "linux", 4),
                  Partition(from, sectors, "linux", record)>>]
AllLayouts ==
  {Canonical} \union
  {Small(second, length, first, space, record, from, sectors) :
     second \in 1..3, length \in 1..2, first \in 5..7, space \in 1..4,
     record \in 4..8, from \in 5..9, sectors \in 1..3}
-----------------------------------------------------------------------------
\* Up to two directories and two links, whose paths may be nested, equal,
\* unsafe, those of the root or of /lost+found, and whose targets may be
\* relative, absolute, dangling, circular or too long; links whose paths lead
\* through other links to the same entry; and up to two of each kind among
\* which there are long names and large owners.
UnsafeNames == {".", ".."}
AllNames == UnsafeNames \union {"a", "b", "c", "d", "long", "lost+found"}

Listed(mode, uid) == [mode |-> mode, uid |-> uid, gid |-> "listed"]
Directory(path) == [path |-> path, meta |-> Listed("wanted", "listed")]
Symlink(path, target, uid) == [path |-> path, meta |-> Listed("new", uid), target |-> target]
To(absolute, names) == [absolute |-> absolute, names |-> names, slow |-> FALSE]
TooLong == [absolute |-> TRUE, names |-> <<"a">>, slow |-> TRUE]

Directories == {Directory(p) : p \in {<<"a">>, <<"a", "b">>, <<"lost+found">>, <<"..">>}}
Symlinks ==
  {Symlink(p, t, "listed") :
     p \in {<<"a", "c">>, <<"d">>, <<"d", "c">>, <<"lost+found", "c">>, <<>>},
     t \in {To(TRUE, <<"a">>), To(FALSE, <<"d">>), TooLong}}
  \union {Symlink(<<"a", "c">>, To(FALSE, <<"lost+found">>), "other"),
          Symlink(<<"d">>, To(FALSE, <<".">>), "listed"),
          Symlink(<<"d">>, To(TRUE, <<>>), "listed")}

UpTo2(S) == {<<>>} \union {<<x>> : x \in S} \union {<<x, y>> : x \in S, y \in S}
Aliased ==
  {[directories |-> <<Directory(<<"a">>)>>,
    symlinks |-> <<Symlink(<<"d">>, To(FALSE, <<"a">>), "listed"),
                   Symlink(<<"a", "c">>, To(TRUE, <<"a">>), "listed"),
                   Symlink(<<"d", "c">>, To(TRUE, <<"a">>), uid)>>] :
     uid \in {"listed", "other"}}
Oversized ==
  [directories : UpTo2({Directory(<<"a">>), Directory(<<"long">>),
                        [path |-> <<"a">>, meta |-> Listed("wanted", "large")]}),
   symlinks : UpTo2({Symlink(<<"d">>, To(FALSE, <<"a">>), "large"),
                     Symlink(<<"a", "long">>, To(TRUE, <<"a">>), "listed"),
                     Symlink(<<"long", "c">>, To(FALSE, <<"long">>), "listed")})]
SomeManifests ==
  [directories : UpTo2(Directories), symlinks : UpTo2(Symlinks)] \union Aliased \union Oversized
-----------------------------------------------------------------------------
NoAssembly ==
  /\ plan = {} /\ file = <<>> /\ opened = <<>> /\ hash = <<>> /\ image = <<>>
  /\ seen = <<>> /\ pc = "none" /\ index = 0
  /\ accepted = <<>> /\ exposed = FALSE /\ meddling = 0
NoCopy ==
  /\ call = [range |-> FALSE] /\ source = <<>> /\ dest = <<>> /\ dest0 = <<>>
  /\ sourceHoles = {} /\ destHoles = {} /\ at = "none" /\ phase = "none"
  /\ position = 0 /\ start = 0 /\ end = 0 /\ begun = FALSE /\ skip = FALSE
  /\ got = 0 /\ put = 0 /\ j = 0
NoGeometry == layout = <<>> /\ disk = <<>> /\ stage = "define" /\ row = 0 /\ damage = 0
NoFresh ==
  /\ number = 0 /\ size = 0 /\ super = <<>> /\ doing = "none" /\ todo = {} /\ deviations = 0
NoSkeleton ==
  /\ manifest = <<>> /\ tree = <<>> /\ activity = "none" /\ batch = "none"
  /\ passed = 0 /\ listing = FALSE /\ faults = 0

PartsInit ==
  \/ part = "assembly" /\ Init /\ NoCopy /\ NoGeometry /\ NoFresh /\ NoSkeleton
  \/ part = "copy" /\ CopyInit /\ NoAssembly /\ NoGeometry /\ NoFresh /\ NoSkeleton
  \/ part = "geometry" /\ GeometryInit /\ NoAssembly /\ NoCopy /\ NoFresh /\ NoSkeleton
  \/ part = "fresh" /\ FreshInit /\ NoAssembly /\ NoCopy /\ NoGeometry /\ NoSkeleton
  \/ part = "skeleton" /\ SkeletonInit /\ NoAssembly /\ NoCopy /\ NoGeometry /\ NoFresh

PartsNext ==
  \/ /\ part = "assembly" /\ Next
     /\ UNCHANGED <<part, copyVars, geometryVars, freshVars, skeletonVars>>
  \/ /\ part = "copy" /\ CopyNext
     /\ UNCHANGED <<part, vars, geometryVars, freshVars, skeletonVars>>
  \/ /\ part = "geometry" /\ GeometryNext
     /\ UNCHANGED <<part, vars, copyVars, freshVars, skeletonVars>>
  \/ /\ part = "fresh" /\ FreshNext
     /\ UNCHANGED <<part, vars, copyVars, geometryVars, skeletonVars>>
  \/ /\ part = "skeleton" /\ SkeletonNext
     /\ UNCHANGED <<part, vars, copyVars, geometryVars, freshVars>>

PartsSpec ==
  PartsInit /\ [][PartsNext]_<<part, vars, copyVars, geometryVars, freshVars, skeletonVars>>
=============================================================================
