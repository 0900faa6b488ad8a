------------------------------- MODULE Catalog -------------------------------
(***************************************************************************)
(* The catalog of patches and features, as load_feature_catalog returns it *)
(* and plan_feature_install uses it.                                       *)
(*                                                                         *)
(* A patch is a record: the target, the source file it was made for, the   *)
(* site it changes there, an id, and its sizes, of which the sum over a    *)
(* set of patches is limited.  A catalog has the patches that can be asked *)
(* for (public), and for each feature the features and public patches it   *)
(* requires, those it conflicts with, the files it creates (payloads,      *)
(* named by their targets), the patches it brings along (fixed), and in    *)
(* components its patches of which one variant is applied.                 *)
(***************************************************************************)
EXTENDS Integers, Sequences, FiniteSets

CONSTANT Limits  \* MAX_SELECTED_PATCH_BYTES, MAX_CHANGED_BYTES, ...

\* What is added up: the bytes of the definitions and those they change, the
\* targets and the hunks.
Sums == {"bytes", "changed", "targets", "hunks"}

ASSUME LimitsAssumption == Limits \in [Sums -> Nat]

Total(sum, S) == Cardinality(UNION {{r} \X (1 .. r.size[sum]) : r \in S})

\* Without it there is no sum.
Sized(S) == IsFiniteSet(S) /\ \A r \in S : r.size \in [Sums -> Nat]

Bounded(S) == \A sum \in Sums : Total(sum, S) <= Limits[sum]

Pairwise(S, Agree(_, _)) == \A r, s \in S : r # s => Agree(r, s)

Agreement(r, s) == r.target = s.target => r.source = s.source /\ r.site # s.site

\* _build_target_plans: one source for a target, no overlap, and the limits.
Consistent(S) == Pairwise(S, Agreement) /\ Bounded(S)

Fixed(c) == UNION {c.fixed[f] : f \in c.features}
Recipes(c) ==
  c.public \union Fixed(c)
    \union UNION {c.components[i].variants : i \in 1 .. Len(c.components)}

Cyclic(c) ==
  \E S \in SUBSET c.features : S # {} /\ \A f \in S : c.requires[f] \intersect S # {}

\* The names a feature gives exist and are not its own.
Resolvable(c) ==
  \A f \in c.features :
    /\ c.requires[f] \subseteq c.features \ {f}
    /\ c.conflicts[f] \subseteq c.features \ {f}
    /\ c.patches[f] \subseteq {r.id : r \in c.public}

\* No payload has the place of another one or of a file that is patched.
PayloadsApart(c) ==
  \A f \in c.features :
    /\ c.payloads[f] \intersect {r.target : r \in Recipes(c)} = {}
    /\ \A g \in c.features \ {f} : c.payloads[f] \intersect c.payloads[g] = {}

\* Every patch is defined once, in one place of the catalog.
PatchesApart(c) ==
  /\ \A r, s \in Recipes(c) : r.id = s.id => r = s
  /\ c.public \intersect Fixed(c) = {}
  /\ \A f, g \in c.features : f # g => c.fixed[f] \intersect c.fixed[g] = {}
  /\ \A i \in 1 .. Len(c.components) :
       LET variants == c.components[i].variants
       IN /\ variants \intersect (c.public \union Fixed(c)) = {}
          /\ \A j \in 1 .. Len(c.components) :
               i # j => variants \intersect c.components[j].variants = {}

VariantsAlike(c) ==
  \A i \in 1 .. Len(c.components) :
    LET component == c.components[i]
    IN /\ component.feature \in c.features
       /\ Cardinality(component.variants) > 1
       /\ \A v, w \in component.variants : v.target = w.target

\* What loading promises and planning relies on.
SoundCatalog(c) ==
  /\ Resolvable(c) /\ ~Cyclic(c)
  /\ PayloadsApart(c) /\ PatchesApart(c) /\ VariantsAlike(c)
  /\ Consistent(c.public \union Fixed(c))
  /\ Total("bytes", Recipes(c)) <= Limits["bytes"]
=============================================================================
