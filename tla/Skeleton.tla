------------------------------ MODULE Skeleton ------------------------------
(***************************************************************************)
(* extfs.py: the directories and symbolic links of a fresh file system.    *)
(* _normalize_fresh_filesystem sets the owners and modes of the root and   *)
(* of /lost+found, populate_fresh_filesystem adds what a manifest lists.   *)
(* Both hand debugfs a list of commands and then look at the result.       *)
(*                                                                         *)
(* debugfs exits with 0 whether or not it executed a command, so a command *)
(* whose path does not suit it, or that it skips, changes nothing and says *)
(* nothing; one for which the file system has no room is among those it    *)
(* skips.  A path is the sequence of its names.                            *)
(***************************************************************************)
EXTENDS Integers, Sequences

CONSTANTS
  Names,      \* the names in paths
  Unsafe,     \* those that _SAFE_PATH_COMPONENT does not match, "." and ".."
  LongNames,  \* those of more than 255 bytes, which no directory can have
  Settings,   \* owners and modes, as which of them are told apart
  LargeIds,   \* owners from 2^31 on, which debugfs prints as negative numbers
  Manifests,  \* the manifests to consider
  MaxFaults   \* bound on failures, and on commands that debugfs skips

Metas == [mode : Settings, uid : Settings, gid : Settings]
LinkTargets == [absolute : BOOLEAN, names : Seq(Names), slow : BOOLEAN]
ManifestType ==
  [directories : Seq([path : Seq(Names), meta : Metas]),
   symlinks : Seq([path : Seq(Names), meta : Metas, target : LinkTargets])]

ASSUME SkeletonAssumption ==
  /\ "." \in Unsafe /\ Unsafe \subseteq Names /\ "lost+found" \in Names
  /\ LongNames \subseteq Names \ {".", "lost+found"}
  /\ {"wanted", "new"} \subseteq Settings /\ LargeIds \subseteq Settings \ {"wanted", "new"}
  /\ Manifests \subseteq ManifestType /\ MaxFaults \in Nat

VARIABLES
  manifest,
  tree,     \* what each path holds
  activity,
  batch,    \* "normalize" or "populate"
  passed,   \* commands of the batch that debugfs has passed
  listing,  \* the file with the commands exists
  faults

skeletonVars == <<manifest, tree, activity, batch, passed, listing, faults>>

Root == <<>>
LostFound == <<"lost+found">>

Node(type, meta, target) == [type |-> type, meta |-> meta, target |-> target]
Meta(mode, uid, gid) == [mode |-> mode, uid |-> uid, gid |-> gid]
NoTarget == [absolute |-> FALSE, names |-> <<>>, slow |-> FALSE]

\* What _normalize_fresh_filesystem wants.
Normal == [p \in {Root, LostFound} |-> Meta("wanted", "wanted", "wanted")]
-----------------------------------------------------------------------------
(***************************************************************************)
(* _validate_skeleton_manifest: entries in the order in which they stand.  *)
(***************************************************************************)
Parent(path) == SubSeq(path, 1, Len(path) - 1)
Safe(names) == names # <<>> /\ \A k \in DOMAIN names : names[k] \notin Unsafe

Paths(entries) == {entries[k].path : k \in DOMAIN entries}

SeenRootOnly(entries, k) == {Root} \union {entries[j].path : j \in 1 .. k - 1}
Seen(entries, k) == {Root, LostFound} \union {entries[j].path : j \in 1 .. k - 1}

\* The entry is safe, new, and its parent stands before it.
FitsAnywhere(entries, k) == Safe(entries[k].path) /\ entries[k].path \notin Seen(entries, k)
Fits(entries, k) ==
  /\ Safe(entries[k].path) /\ entries[k].path \notin Seen(entries, k)
  /\ Parent(entries[k].path) \in Seen(entries, k)

Entries(m) == m.directories \o m.symlinks
Valid(m) ==
  /\ \A k \in DOMAIN Entries(m) : Fits(Entries(m), k)
  /\ \A k \in DOMAIN m.symlinks : Safe(m.symlinks[k].target.names)
-----------------------------------------------------------------------------
(***************************************************************************)
(* debugfs.  A path is resolved through links except in its last name; a   *)
(* new entry needs a parent that is itself a directory, not a link to one. *)
(* Whatever debugfs makes of a name that is too long, no path finds it.    *)
(***************************************************************************)
\* In the tree t.  A route has come to a place and has names to go.  It passes
\* directories, and stops where one of its names, but the last, is no directory.
Route(at, names) == [at |-> at, names |-> names]
Below(w, j) == w.at \o SubSeq(w.names, 1, j)
IsDirectory(t, p) == p \in DOMAIN t /\ t[p].type = "directory"
Stops(t, w) == {j \in 1 .. Len(w.names) - 1 : ~IsDirectory(t, Below(w, j))}

\* No node has this name.
NoPlace == <<".">>
FollowLink(t, w) ==
  LET j == CHOOSE j \in Stops(t, w) : \A i \in Stops(t, w) : j <= i
      link == Below(w, j)
      target == t[link].target
  IN IF Stops(t, w) = {} THEN w
     ELSE IF link \notin DOMAIN t THEN Route(NoPlace, <<>>)
     ELSE Route(IF target.absolute THEN Root ELSE Below(w, j - 1),
               target.names \o SubSeq(w.names, j + 1, Len(w.names)))

\* No more than eight links, EXT2FS_MAX_NESTED_LINKS.
FollowTwo(t, w) == FollowLink(t, FollowLink(t, w))
FollowFour(t, w) == FollowTwo(t, FollowTwo(t, w))
Locate(t, path) ==
  LET w == FollowFour(t, FollowFour(t, Route(Root, path)))
  IN IF Stops(t, w) = {} THEN w.at \o w.names ELSE NoPlace

Place(path) == Append(Locate(tree, Parent(path)), path[Len(path)])
CanCreate(path) ==
  /\ IsDirectory(tree, Locate(tree, Parent(path))) /\ Place(path) \notin DOMAIN tree
  /\ path[Len(path)] \notin LongNames

Make(type, path, target) ==
  [op |-> "make", path |-> path, node |-> Node(type, Meta("new", "new", "new"), target)]
Set(path, field, value) == [op |-> "set", path |-> path, field |-> field, value |-> value]
SetOwner(e) == <<Set(e.path, "uid", e.meta.uid), Set(e.path, "gid", e.meta.gid)>>

Effect(c) ==
  IF c.op = "make"
    THEN IF CanCreate(c.path)
           THEN [p \in DOMAIN tree \union {Place(c.path)} |->
                   IF p = Place(c.path) THEN c.node ELSE tree[p]]
           ELSE tree
    ELSE IF Locate(tree, c.path) \in DOMAIN tree
           THEN [tree EXCEPT ![Locate(tree, c.path)].meta[c.field] = c.value]
           ELSE tree

\* The commands of the two batches.  A symbolic link keeps its mode.
MakeDirectory(e) ==
  <<Make("directory", e.path, NoTarget), Set(e.path, "mode", e.meta.mode)>> \o SetOwner(e)
MakeSymlink(e) == <<Make("symlink", e.path, e.target)>> \o SetOwner(e)
SetNormal(p) ==
  <<Set(p, "mode", Normal[p].mode), Set(p, "uid", Normal[p].uid), Set(p, "gid", Normal[p].gid)>>
Normalize == SetNormal(Root) \o SetNormal(LostFound)
Populate ==
  LET d == manifest.directories
      s == manifest.symlinks
  IN [k \in 1 .. 4 * Len(d) |-> MakeDirectory(d[(k - 1) \div 4 + 1])[((k - 1) % 4) + 1]]
     \o [k \in 1 .. 3 * Len(s) |-> MakeSymlink(s[(k - 1) \div 3 + 1])[((k - 1) % 3) + 1]]
Commands == IF batch = "normalize" THEN Normalize ELSE Populate
-----------------------------------------------------------------------------
(***************************************************************************)
(* _audit_inode.  debugfs shows the target of a fast link only, and        *)
(* _DEBUGFS_STAT has no sign before the numbers of the owners.             *)
(***************************************************************************)
Readable(meta) == meta.uid \notin LargeIds /\ meta.gid \notin LargeIds
Shown(path, type, meta) ==
  LET at == Locate(tree, path)
  IN /\ at \in DOMAIN tree /\ Readable(tree[at].meta)
     /\ tree[at].type = type /\ tree[at].meta = meta
ShownTarget(e) ==
  LET t == tree[Locate(tree, e.path)].target IN ~t.slow /\ t = e.target
LinkMeta(e) == [e.meta EXCEPT !.mode = "new"]

AuditNormal == \A p \in {Root, LostFound} : Shown(p, "directory", Normal[p])
\* audit_fresh_filesystem.
AuditDirectories(m) ==
  \A k \in DOMAIN m.directories :
    Shown(m.directories[k].path, "directory", m.directories[k].meta)
AuditManifest(m) ==
  /\ \A k \in DOMAIN m.directories :
       Shown(m.directories[k].path, "directory", m.directories[k].meta)
  /\ \A k \in DOMAIN m.symlinks :
       Shown(m.symlinks[k].path, "symlink", LinkMeta(m.symlinks[k])) /\ ShownTarget(m.symlinks[k])
-----------------------------------------------------------------------------
NoManifest == [directories |-> <<>>, symlinks |-> <<>>]

\* After mkfs.ext4: it was told the owner of the root, not of /lost+found.
SkeletonInit ==
  /\ manifest = NoManifest
  /\ tree = [p \in {Root, LostFound} |->
               Node("directory",
                    IF p = Root THEN Normal[p] ELSE Meta("wanted", "new", "new"), NoTarget)]
  /\ activity = "open" /\ batch = "normalize" /\ passed = 0
  /\ listing = FALSE
  /\ faults = 0

\* _run_debugfs_batch: a private file, O_CREAT | O_EXCL, then all of it.
OpenListing ==
  /\ activity = "open" /\ activity' = IF listing THEN "failed" ELSE "write"
  /\ listing' = TRUE
  /\ UNCHANGED <<manifest, tree, batch, passed, faults>>

\* A write that fails leaves the file: it is outside the second try.
WriteListing ==
  /\ activity = "write"
  /\ \/ activity' = "run" /\ faults' = faults
     \/ activity' = "failed" /\ faults < MaxFaults /\ faults' = faults + 1
  /\ UNCHANGED <<manifest, tree, batch, passed, listing>>

DebugfsCommand ==
  /\ activity = "run" /\ passed < Len(Commands)
  /\ passed' = passed + 1
  /\ \/ tree' = Effect(Commands[passed + 1]) /\ faults' = faults
     \/ faults < MaxFaults /\ tree' = tree /\ faults' = faults + 1
  /\ UNCHANGED <<manifest, activity, batch, listing>>

\* finally: the file goes also when debugfs fails or takes too long.
DebugfsEnds ==
  /\ activity = "run"
  /\ \/ passed = Len(Commands) /\ activity' = "audit" /\ faults' = faults
     \/ activity' = "failed" /\ faults < MaxFaults /\ faults' = faults + 1
  /\ listing' = FALSE
  /\ UNCHANGED <<manifest, tree, batch, passed>>

Audit ==
  /\ activity = "audit"
  /\ activity' = IF batch = "normalize"
                    THEN IF AuditNormal THEN "validate" ELSE "failed"
                    ELSE IF AuditManifest(manifest) THEN "done" ELSE "failed"
  /\ UNCHANGED <<manifest, tree, batch, passed, listing, faults>>

\* populate_fresh_filesystem reads its manifest.
Validate ==
  /\ activity = "validate"
  /\ manifest' \in Manifests
  /\ activity' = IF Valid(manifest') THEN "open" ELSE "refused"
  /\ batch' = "populate" /\ passed' = 0
  /\ UNCHANGED <<tree, listing, faults>>

SkeletonNext ==
  \/ OpenListing \/ WriteListing \/ DebugfsCommand \/ DebugfsEnds
  \/ Audit \/ Validate

SkeletonSpec == SkeletonInit /\ [][SkeletonNext]_skeletonVars
-----------------------------------------------------------------------------
(***************************************************************************)
(* Whatever debugfs skipped, a file system that was populated has every    *)
(* entry of its manifest, of the kind, owner, mode and target listed.      *)
(***************************************************************************)
PopulatedAsListed ==
  activity = "done" =>
    \A k \in DOMAIN Entries(manifest) :
      LET e == Entries(manifest)[k]
          link == k > Len(manifest.directories)
          at == Locate(tree, e.path)
      IN /\ at \in DOMAIN tree
         /\ tree[at] = IF link THEN Node("symlink", LinkMeta(e), e.target)
                       ELSE Node("directory", e.meta, NoTarget)

(***************************************************************************)
(* Populating never undoes the normalisation, which is not looked at       *)
(* again: no manifest that is accepted can name the root or /lost+found,   *)
(* neither directly nor through the links that it has made.                *)
(***************************************************************************)
SystemNodesKept ==
  batch = "populate" => \A p \in {Root, LostFound} : tree[p].meta = Normal[p]

(***************************************************************************)
(* A populated file system has all of its manifest, though debugfs does    *)
(* not say what it skipped, and the nodes of the system as before.         *)
(***************************************************************************)
SkeletonIsListed == PopulatedAsListed /\ SystemNodesKept

(***************************************************************************)
(* A manifest that is accepted can be built: with a debugfs that skips     *)
(* nothing its commands succeed in their order, and the audit finds what   *)
(* it expects.  Four things are accepted that cannot be: an entry below a  *)
(* symbolic link, a target too long for a fast link, a name of more than   *)
(* 255 bytes, and an owner that debugfs prints as a negative number.       *)
(***************************************************************************)
Buildable(m) ==
  /\ \A k \in DOMAIN Entries(m) :
       LET e == Entries(m)[k]
       IN Readable(e.meta) /\ \A i \in DOMAIN e.path : e.path[i] \notin LongNames
  /\ \A k \in DOMAIN m.symlinks :
       Parent(m.symlinks[k].path) \notin Paths(m.symlinks) /\ ~m.symlinks[k].target.slow
SkeletonIsBuilt ==
  activity = "failed" /\ faults = 0 => ~Buildable(manifest)
=============================================================================
