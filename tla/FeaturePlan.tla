---------------------------- MODULE FeaturePlan ----------------------------
(***************************************************************************)
(* plan_feature_install: from the packages and patches that were asked for *)
(* to the set of patches that is applied.  It pulls in what is required,   *)
(* refuses what is excluded or in conflict, decides for each component of  *)
(* kind byte-patch-one-of which variant fits the image, and checks the     *)
(* whole set against the image once more.                                  *)
(*                                                                         *)
(* Catalog says what a catalog is.  An image says which source each target *)
(* is, which patches it holds already, for which payloads it has the       *)
(* directory (housed), and which of them it has already (present).         *)
(***************************************************************************)
EXTENDS Catalog

CONSTANTS
  Features,
  Mounted,     \* targets that are not in the restored root file system
  Catalogs,    \* the catalogs load_feature_catalog may have accepted
  Images,      \* the root images
  Selections   \* what the caller selects and excludes

ASSUME CatalogsAssumption ==
  /\ IsFiniteSet(Features)
  /\ \A c \in Catalogs :
       /\ c.features \subseteq Features /\ Len(c.components) \in Nat
       /\ SoundCatalog(c) /\ Sized(Recipes(c))

VARIABLES
  catalog, image, selection,
  pc,
  ordered,   \* the features that are installed, requirements included
  resolved,  \* resolved_public_ids
  chosen,    \* for every component seen so far {its variant} or {}
  earlier,   \* the variants chosen so far
  recipes    \* the patches of the plan

inputs == <<catalog, image, selection>>
vars == <<inputs, pc, ordered, resolved, chosen, earlier, recipes>>

Init ==
  /\ catalog \in Catalogs /\ image \in Images /\ selection \in Selections
  /\ selection.features \union selection.without \subseteq catalog.features
  /\ selection.public \union selection.withoutPublic \subseteq {r.id : r \in catalog.public}
  /\ pc = "selection"
  /\ ordered = {} /\ resolved = {} /\ recipes = {}
  /\ chosen = <<>> /\ earlier = {}
-----------------------------------------------------------------------------
Check(from, ok, to) == pc = from /\ pc' = IF ok THEN to ELSE "refused"

Chosen == selection.features # {} \/ selection.public # {}

CheckSelection ==
  /\ Chosen
  /\ Check("selection",
           /\ selection.features \intersect selection.without = {}
           /\ selection.public \intersect selection.withoutPublic = {},
           "dependencies")
  /\ UNCHANGED <<inputs, ordered, resolved, chosen, earlier, recipes>>

\* Nothing is asked for: an error, unless there is nothing one could ask for.
SelectNothing ==
  /\ ~Chosen
  /\ Check("selection", catalog.features = {} /\ catalog.public = {}, "planned")
  /\ UNCHANGED <<inputs, ordered, resolved, chosen, earlier, recipes>>

\* _resolve_feature_dependencies: the smallest closed set; see FeatureGraph.
Needed(S) ==
  {f \in Features :
     \A T \in SUBSET Features :
       S \subseteq T /\ (\A g \in T \intersect catalog.features : catalog.requires[g] \subseteq T)
         => f \in T}

ResolveDependencies ==
  /\ pc = "dependencies" /\ pc' = "excluded"
  /\ ordered' = Needed(selection.features)
  /\ UNCHANGED <<inputs, resolved, chosen, earlier, recipes>>

CheckExcluded ==
  /\ Check("excluded", ordered \intersect selection.without = {}, "conflicts")
  /\ UNCHANGED <<inputs, ordered, resolved, chosen, earlier, recipes>>

InConflict(f, g) == f # g /\ (g \in catalog.conflicts[f] \/ f \in catalog.conflicts[g])

\* _check_selected_conflicts.
CheckConflicts ==
  /\ Check("conflicts", \A f, g \in ordered : ~InConflict(f, g), "public")
  /\ UNCHANGED <<inputs, ordered, resolved, chosen, earlier, recipes>>

ResolvePublic ==
  /\ pc = "public" /\ pc' = "patches"
  /\ resolved' = selection.public \union UNION {catalog.patches[f] : f \in ordered}
  /\ UNCHANGED <<inputs, ordered, chosen, earlier, recipes>>

CheckPublic ==
  /\ Check("patches", resolved \intersect selection.withoutPublic = {}, "offline")
  /\ UNCHANGED <<inputs, ordered, resolved, chosen, earlier, recipes>>

PayloadsOf(S) == UNION {catalog.payloads[f] : f \in S}

\* _require_offline_feature_targets.
CheckOffline ==
  /\ Check("offline", PayloadsOf(ordered) \intersect Mounted = {}, "variants")
  /\ UNCHANGED <<inputs, ordered, resolved, chosen, earlier, recipes>>

\* _inspect_target: a target of the image is the source the patches in S were
\* made for, with some of them applied and no other.
Reconstructs(target, S) ==
  LET here == {r \in S : r.target = target}
      held == {r \in image.applied : r.target = target}
  IN /\ \A r \in here : r.source = image.source[target]
     /\ held \subseteq here

Base == catalog.public \union Fixed(catalog)

FitsButForEarlier(v) ==
  LET trial == Base \union {v}
  IN Consistent(trial) /\ Reconstructs(v.target, trial)

Fits(v) ==
  LET trial == Base \union earlier \union {v}
  IN Consistent(trial) /\ Reconstructs(v.target, trial)

\* The only one of a component's variants that fits, or none.
Unique(component) ==
  {v \in component.variants : {w \in component.variants : Fits(w)} = {v}}

ResolveVariantKeepingTried ==
  /\ pc = "variants" /\ Len(chosen) < Len(catalog.components)
  /\ LET component == catalog.components[Len(chosen) + 1]
     IN /\ chosen' = Append(chosen, Unique(component))
        /\ earlier' = earlier \union component.variants
  /\ UNCHANGED <<inputs, pc, ordered, resolved, recipes>>

\* _resolve_all_variants, one component of the catalog, selected or not.
ResolveVariant ==
  /\ pc = "variants" /\ Len(chosen) < Len(catalog.components)
  /\ LET component == catalog.components[Len(chosen) + 1]
     IN /\ chosen' = Append(chosen, Unique(component))
        /\ earlier' = earlier \union Unique(component)
  /\ UNCHANGED <<inputs, pc, ordered, resolved, recipes>>

EndVariants ==
  /\ pc = "variants" /\ Len(chosen) = Len(catalog.components)
  /\ pc' = "assemble"
  /\ UNCHANGED <<inputs, ordered, resolved, chosen, earlier, recipes>>

Selected(i) == catalog.components[i].feature \in ordered

Hidden ==
  UNION ({catalog.fixed[f] : f \in ordered}
          \union {chosen[i] : i \in {j \in 1 .. Len(chosen) : Selected(j)}})

Resolved == {r \in catalog.public : r.id \in resolved}

AssembleEverything ==
  /\ Check("assemble", \A i \in 1 .. Len(chosen) : Selected(i) => chosen[i] # {}, "build")
  /\ recipes' = Resolved \union Fixed(catalog) \union earlier
  /\ UNCHANGED <<inputs, ordered, resolved, chosen, earlier>>

Assemble ==
  /\ Check("assemble", \A i \in 1 .. Len(chosen) : Selected(i) => chosen[i] # {}, "build")
  /\ recipes' = Resolved \union Hidden
  /\ UNCHANGED <<inputs, ordered, resolved, chosen, earlier>>

Build ==
  /\ Check("build", Consistent(recipes), "files")
  /\ UNCHANGED <<inputs, ordered, resolved, chosen, earlier, recipes>>

\* _preflight_feature_files: a directory to put it in, and nothing there yet.
Free(target) == target \in image.housed /\ target \notin image.present
PreflightAll ==
  /\ Check("files", \A t \in PayloadsOf(catalog.features) : Free(t), "inspect")
  /\ UNCHANGED <<inputs, ordered, resolved, chosen, earlier, recipes>>
PreflightFiles ==
  /\ Check("files", \A t \in PayloadsOf(ordered) : Free(t), "inspect")
  /\ UNCHANGED <<inputs, ordered, resolved, chosen, earlier, recipes>>

\* _preflight_patch_plans: the targets of the plan only.
Inspect ==
  /\ Check("inspect", \A r \in recipes : Reconstructs(r.target, recipes), "planned")
  /\ UNCHANGED <<inputs, ordered, resolved, chosen, earlier, recipes>>

Next ==
  \/ CheckSelection \/ SelectNothing \/ ResolveDependencies \/ CheckExcluded
  \/ CheckConflicts \/ ResolvePublic \/ CheckPublic \/ CheckOffline
  \/ ResolveVariant \/ EndVariants \/ Assemble \/ Build \/ PreflightFiles \/ Inspect

Spec == Init /\ [][Next]_vars
-----------------------------------------------------------------------------
(***************************************************************************)
(* The choices made on the way never contradict each other: when the plan  *)
(* is built from them, no check of _build_target_plans can fail, neither   *)
(* that for overlaps and disagreement nor the limits.                      *)
(***************************************************************************)
BuildCannotFail == pc = "build" => Consistent(recipes)

(***************************************************************************)
(* A plan has exactly what was asked for: the selected features with all   *)
(* they require, nothing that is excluded or in conflict with a part of it *)
(* or there already, and of each component one variant, made for the       *)
(* source the image has.                                                   *)
(***************************************************************************)
PlanIsWhatWasAsked ==
  pc = "planned" =>
    /\ selection.features \subseteq ordered
    /\ selection.public \subseteq {r.id : r \in recipes}
    /\ \A f \in ordered :
         /\ catalog.requires[f] \subseteq ordered \ selection.without
         /\ catalog.patches[f] \subseteq {r.id : r \in recipes}
         /\ catalog.conflicts[f] \intersect (ordered \ {f}) = {}
         /\ catalog.payloads[f] \intersect image.present = {}
    /\ {r.id : r \in recipes} \intersect selection.withoutPublic = {}
    /\ \A i \in 1 .. Len(catalog.components) :
         LET taken == catalog.components[i].variants \intersect recipes
         IN IF Selected(i)
              THEN \E v \in taken : taken = {v} /\ v.source = image.source[v.target]
              ELSE taken = {}

\* The patches that were made for the sources the image has.
Made == {r \in Recipes(catalog) : r.source = image.source[r.target]}

\* What the selection, the catalog or the image lacks.
Unsatisfiable ==
  LET all == Needed(selection.features)
  IN \/ all \intersect selection.without # {}
     \/ selection.public \intersect selection.withoutPublic # {}
     \/ \E f \in all : catalog.patches[f] \intersect selection.withoutPublic # {}
     \/ \E f, g \in all : InConflict(f, g)
     \/ \E t \in PayloadsOf(all) : t \in Mounted \/ ~Free(t)
     \/ ~Consistent(Made) \/ ~(Base \subseteq Made)
     \/ \E i \in 1 .. Len(catalog.components) :
          ~ \E v \in Made : catalog.components[i].variants \intersect Made = {v}

(***************************************************************************)
(* An unpatched image is not refused without a reason: if the selection    *)
(* can be satisfied, all patches made for this image's sources are         *)
(* disjoint and within the limits together, and every component has one    *)
(* variant for them, there is a plan.                                      *)
(***************************************************************************)
PristineIsPlanned ==
  pc = "refused" /\ Chosen /\ image.applied = {} => Unsatisfiable

(***************************************************************************)
(* "Regional byte-patch-one-of components are selected solely by exact     *)
(* target preimage compatibility" (the docstring of plan_feature_install): *)
(* a selected component one of whose variants fits the image, together     *)
(* with the public and fixed patches, is not left without one, unless the  *)
(* variant disagrees with that of another selected component.              *)
(***************************************************************************)
SelectedByPreimageOnly ==
  \A i \in 1 .. Len(chosen) :
    LET fitting == {v \in catalog.components[i].variants : FitsButForEarlier(v)}
        others == UNION {chosen[j] : j \in {k \in 1 .. Len(chosen) : Selected(k)}}
    IN Selected(i) /\ (\E v \in fitting : fitting = {v} /\ Consistent(Base \union others \union {v}))
         => chosen[i] = fitting
=============================================================================
