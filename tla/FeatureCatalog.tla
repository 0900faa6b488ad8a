--------------------------- MODULE FeatureCatalog ---------------------------
(***************************************************************************)
(* load_feature_catalog with load_patch_catalog: the directory of patches  *)
(* and the directory of feature packages are read, one file an action, and *)
(* accepted or refused as a whole.                                         *)
(*                                                                         *)
(* A name is a sequence of characters, since the order of names matters.   *)
(* A recipe is its target, source, site and sizes; a file that is none, or *)
(* no manifest, or breaks a rule that concerns only itself, is Junk.       *)
(* A manifest names the files of its package and says what they contain.   *)
(***************************************************************************)
EXTENDS Catalog, SequencesExt

CONSTANTS
  Directories,  \* what the catalog root may hold
  Junk,
  MaxPatches    \* MAX_PATCH_FILES

\* A directory has patches, by name, and packages, by name: a manifest (the
\* relations of the feature and its components) and files, by path.  A
\* component has an id, a kind, a target if it is a file, and its members,
\* each a path and the content it should have; only variants have several.
HasSizes(content) == content.size \in [Sums -> Nat]
IsSequence(s) == Len(s) \in Nat /\ DOMAIN s = 1 .. Len(s)
ASSUME DirectoriesAssumption ==
  /\ MaxPatches \in Nat
  /\ \A d \in Directories :
       /\ IsFiniteSet(DOMAIN d.patches) /\ IsFiniteSet(DOMAIN d.packages)
       /\ \A p \in DOMAIN d.patches : d.patches[p] # Junk => HasSizes(d.patches[p])
       /\ \A f \in DOMAIN d.packages :
            LET manifest == d.packages[f].manifest IN
            manifest # Junk =>
              /\ IsSequence(manifest.components)
              /\ \A i \in DOMAIN manifest.components :
                   LET c == manifest.components[i] IN
                   /\ c.kind \in {"file", "patch", "variants"}
                   /\ IsSequence(c.members)
                   /\ c.kind = "patch" => Len(c.members) = 1
                   /\ c.kind # "file" => \A j \in DOMAIN c.members :
                        c.members[j].content # Junk => HasSizes(c.members[j].content)

VARIABLES
  directory,
  loading,    \* the statement
  names, next, \* a listing, and what a loop has reached of it
  public,     \* the recipes of the patch directory
  component,  \* the component the loop over a manifest has reached
  ids,        \* all_patch_ids
  targets     \* all_payload_targets

readVars == <<directory, loading, names, next, public, component, ids, targets>>

\* The characters between those of words: "-" sorts before ".".
Hyphen == 1
Dot == 2

Before(s, t) ==
  \E m \in 1 .. Len(t) :
    /\ m <= Len(s) + 1 /\ \A i \in 1 .. m - 1 : s[i] = t[i]
    /\ m = Len(s) + 1 \/ s[m] < t[m]

FileBefore(s, t) == Before(Append(s, Dot), Append(t, Dot))

\* sorted(os.listdir(...)): all of S, in an order.
Listings(S, Precedes(_, _)) ==
  {s \in SetToSeqs(S) : \A i, j \in DOMAIN s : i < j => Precedes(s[i], s[j])}

Recipe(id, content) ==
  [id |-> id, target |-> content.target, source |-> content.source,
   site |-> content.site, size |-> content.size]

ReadInit ==
  /\ directory \in Directories
  /\ loading = "patches" /\ names = <<>> /\ next = 1
  /\ public = <<>> /\ component = 1
  /\ ids = {} /\ targets = {}
-----------------------------------------------------------------------------
Reach(statement, m, i) == loading' = statement /\ next' = m /\ component' = i
ReachIf(ok, statement, m, i) ==
  IF ok THEN Reach(statement, m, i) ELSE Reach("rejected", next, component)

\* The names of the files, with their suffix.
ListPatches ==
  /\ loading = "patches"
  /\ names' \in Listings(DOMAIN directory.patches, FileBefore)
  /\ ReachIf(Cardinality(DOMAIN directory.patches) <= MaxPatches, "patch", 1, 1)
  /\ UNCHANGED <<directory, public, ids, targets>>

ReadPatch ==
  /\ loading = "patch" /\ next <= Len(names)
  /\ LET content == directory.patches[names[next]]
         read == Append(public, Recipe(names[next], content))
     IN /\ ReachIf(content # Junk /\ Bounded(Range(read)), "patch", next + 1, 1)
        /\ public' = IF content # Junk THEN read ELSE public
  /\ UNCHANGED <<directory, names, ids, targets>>

\* _build_target_plans wants the recipes in the order of their ids.
Ascending == \A i, j \in 1 .. Len(public) : i < j => Before(public[i].id, public[j].id)

CheckPatches ==
  /\ loading = "patch" /\ next > Len(names)
  /\ ReachIf(Ascending /\ Consistent(Range(public)), "packages", 1, 1)
  /\ ids' = {public[i].id : i \in 1 .. Len(public)}
  /\ UNCHANGED <<directory, names, public, targets>>

ListPackages ==
  /\ loading = "packages"
  /\ names' \in Listings(DOMAIN directory.packages, Before)
  /\ Reach("manifest", 1, 1)
  /\ UNCHANGED <<directory, public, ids, targets>>
-----------------------------------------------------------------------------
Package == directory.packages[names[next]]
Components(package) == package.manifest.components
Members(c) == Range(c.members)
PatchIds(c) == IF c.kind = "file" THEN {} ELSE {m.path.id : m \in Members(c)}

ReadManifest ==
  /\ loading = "manifest" /\ next <= Len(names)
  /\ ReachIf(Package.manifest # Junk, "component", next, 1)
  /\ UNCHANGED <<directory, names, public, ids, targets>>

\* The bytes and the SHA-256 of a member are those that the manifest lists.
Identified(package, m) ==
  m.path \in DOMAIN package.files /\ package.files[m.path] = m.content

\* _load_manifest_patch for all patches of a component.
LoadsButForIds(package, c) ==
  \A j \in DOMAIN c.members :
    LET m == c.members[j]
    IN /\ m.path.id \notin {c.members[i].path.id : i \in 1 .. j - 1}
       /\ Identified(package, m) /\ m.content # Junk
LoadsPatches(package, c) ==
  \A j \in DOMAIN c.members :
    LET m == c.members[j]
    IN /\ m.path.id \notin ids \union {c.members[i].path.id : i \in 1 .. j - 1}
       /\ Identified(package, m) /\ m.content # Junk

OfOneTarget(c) == \A m, o \in Members(c) : m.content.target = o.content.target

\* _parse_file_component, the case of byte-patch, and _parse_variant_component.
Parses(package, c) ==
  CASE c.kind = "file"     -> \A m \in Members(c) : Identified(package, m)
    [] c.kind = "patch"    -> LoadsPatches(package, c)
    [] c.kind = "variants" -> /\ Len(c.members) > 1
                              /\ LoadsPatches(package, c) /\ OfOneTarget(c)

\* One turn of the loop of _parse_feature.
ParseComponent ==
  /\ loading = "component" /\ component <= Len(Components(Package))
  /\ LET c == Components(Package)[component]
         earlier == {Components(Package)[i].id : i \in 1 .. component - 1}
     IN /\ ReachIf(Parses(Package, c) /\ c.id \notin earlier, "component", next, component + 1)
        /\ ids' = ids \union PatchIds(c)
  /\ UNCHANGED <<directory, names, public, targets>>

\* The targets of its payloads, by component.
Targets(package) ==
  LET components == Components(package)
  IN [i \in {k \in DOMAIN components : components[k].kind = "file"} |-> components[i].target]
Expected(package) ==
  UNION {{m.path : m \in Members(c)} : c \in Range(Components(package))}

\* _validate_package_contents: nothing is missing, nothing unreferenced.
UnexpectedFiles(package) ==
  (DOMAIN package.files \ Expected(package)) \union (Expected(package) \ DOMAIN package.files)

\* The end of the loop: the contents of the package, the targets of its payloads.
EndPackageOfItsOwn ==
  /\ loading = "component" /\ component > Len(Components(Package))
  /\ ReachIf(/\ Components(Package) # <<>> /\ UnexpectedFiles(Package) = {}
             /\ IsInjective(Targets(Package)), "manifest", next + 1, 1)
  /\ targets' = Range(Targets(Package))
  /\ UNCHANGED <<directory, names, public, ids>>
EndPackage ==
  /\ loading = "component" /\ component > Len(Components(Package))
  /\ ReachIf(/\ Components(Package) # <<>> /\ UnexpectedFiles(Package) = {}
             /\ IsInjective(Targets(Package))
             /\ Range(Targets(Package)) \intersect targets = {}, "manifest", next + 1, 1)
  /\ targets' = targets \union Range(Targets(Package))
  /\ UNCHANGED <<directory, names, public, ids>>
-----------------------------------------------------------------------------
(***************************************************************************)
(* The catalog that a directory describes.  A slot is a feature and the    *)
(* index of one of its components.                                         *)
(***************************************************************************)
ManifestOf(f) == directory.packages[f].manifest
ComponentsOf(f) == Components(directory.packages[f])
Slots == UNION {{f} \X DOMAIN ComponentsOf(f) : f \in DOMAIN directory.packages}
In(slot) == ComponentsOf(slot[1])[slot[2]]

PatchesOf(c) == {Recipe(m.path.id, m.content) : m \in Members(c)}
FixedBy(f) == UNION {PatchesOf(c) : c \in {d \in Range(ComponentsOf(f)) : d.kind = "patch"}}
Alternatives ==
  LET slots == SetToSeq({s \in Slots : In(s).kind = "variants"})
  IN [k \in DOMAIN slots |-> [feature |-> slots[k][1], variants |-> PatchesOf(In(slots[k]))]]

Described ==
  LET features == DOMAIN directory.packages IN
  [features   |-> features,
   public     |-> {Recipe(p, directory.patches[p]) : p \in DOMAIN directory.patches},
   requires   |-> [f \in features |-> ManifestOf(f).requires],
   conflicts  |-> [f \in features |-> ManifestOf(f).conflicts],
   patches    |-> [f \in features |-> ManifestOf(f).patches],
   payloads   |-> [f \in features |-> Range(Targets(directory.packages[f]))],
   fixed      |-> [f \in features |-> FixedBy(f)],
   components |-> Alternatives]

\* _validate_definition_limits: all fixed patches can be applied together,
\* with all public ones; the bytes of all definitions count, variants included.
DefinitionsFit == Total("bytes", Recipes(Described)) <= Limits["bytes"]

WithinLimitsOnTheirOwn ==
  /\ DefinitionsFit
  /\ \A f \in Described.features : Consistent(Described.public \union Described.fixed[f])
WithinLimits == DefinitionsFit /\ Consistent(Described.public \union Fixed(Described))

\* The patches are counted: they are as many as their ids, which differ.  Then
\* _validate_feature_graph, whose search for cycles is in FeatureGraph, and
\* _validate_payload_patch_disjoint.
Validate ==
  /\ loading = "manifest" /\ next > Len(names)
  /\ ReachIf(/\ Cardinality(ids) <= MaxPatches
             /\ Resolvable(Described) /\ ~Cyclic(Described)
             /\ targets \intersect {r.target : r \in Recipes(Described)} = {}
             /\ WithinLimits, "loaded", next, 1)
  /\ UNCHANGED <<directory, names, public, ids, targets>>

ReadNext ==
  \/ ListPatches \/ ReadPatch \/ CheckPatches \/ ListPackages
  \/ ReadManifest \/ ParseComponent \/ EndPackage \/ Validate

ReadSpec == ReadInit /\ [][ReadNext]_readVars
-----------------------------------------------------------------------------
(***************************************************************************)
(* Properties.                                                             *)
(***************************************************************************)
Readable ==
  /\ \A p \in DOMAIN directory.patches : directory.patches[p] # Junk
  /\ \A f \in DOMAIN directory.packages : ManifestOf(f) # Junk

PackageIsSound(f) ==
  LET package == directory.packages[f]
      components == ComponentsOf(f)
  IN /\ components # <<>>
     /\ IsInjective([i \in DOMAIN components |-> components[i].id])
     /\ IsInjective(Targets(package))
     /\ DOMAIN package.files = Expected(package)
     /\ \A c \in Range(components) : \A m \in Members(c) :
          /\ package.files[m.path] = m.content
          /\ c.kind # "file" => m.content # Junk

\* Every patch has an id of its own, wherever it is.
AllIds == DOMAIN directory.patches \union UNION {PatchIds(In(s)) : s \in Slots}
IdsApart ==
  /\ \A s \in Slots : In(s).kind # "file" =>
       /\ IsInjective([j \in DOMAIN In(s).members |-> In(s).members[j].path.id])
       /\ PatchIds(In(s)) \intersect DOMAIN directory.patches = {}
  /\ \A s, t \in Slots : s # t => PatchIds(In(s)) \intersect PatchIds(In(t)) = {}

SoundDirectory ==
  /\ Readable /\ \A f \in DOMAIN directory.packages : PackageIsSound(f)
  /\ IdsApart /\ Cardinality(AllIds) <= MaxPatches
  /\ SoundCatalog(Described)

\* A catalog that is accepted keeps the promises that planning and installing
\* rely on, across all of its packages and the patch directory, and its
\* packages hold exactly what their manifests list.
AcceptedIsSound == loading = "loaded" => SoundDirectory

\* Two names of which one is the other with "-" and more after it.
Misordered ==
  \E p, q \in DOMAIN directory.patches : FileBefore(p, q) /\ ~Before(p, q)

\* No catalog that keeps these promises is refused, unless the names of its
\* patch files are in another order than the ids.
SoundIsAccepted == loading = "rejected" => ~SoundDirectory \/ Misordered

(***************************************************************************)
(* load_feature_catalog accepts the catalogs that keep what planning       *)
(* relies on, and refuses no other one but for the order of names.         *)
(***************************************************************************)
CatalogIsAsPromised == AcceptedIsSound /\ SoundIsAccepted

(***************************************************************************)
(* "All populated recipes and packages are applied by default. Their       *)
(* filenames or directory names are the IDs" (README.md): whatever their   *)
(* names, sound recipes and packages are not refused.                      *)
(***************************************************************************)
PopulatedIsAccepted == loading = "rejected" => ~SoundDirectory
=============================================================================
