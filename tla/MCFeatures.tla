----------------------------- MODULE MCFeatures -----------------------------
(***************************************************************************)
(* The three parts that handle features, in one run; `part' says which.    *)
(* FeatureGraph with every dependency graph on three packages.             *)
(* FeaturePlan with one target of three sites and two sources; two         *)
(* features that may require or exclude each other, each with two          *)
(* variants; public and fixed patches, and a payload, that may or may not  *)
(* be there; patches that change as many bytes as the limit allows or more.*)
(* FeatureCatalog with up to two packages and four patch files.            *)
(***************************************************************************)
EXTENDS FeaturePlan, FeatureGraph, FeatureCatalog

VARIABLE part

-----------------------------------------------------------------------------
Sizes(changed) == [bytes |-> 1, changed |-> changed, targets |-> 1, hunks |-> 1]
SomeLimits == [bytes |-> 7, changed |-> 4, targets |-> 4, hunks |-> 4]

Patch(id, source, site) ==
  [target |-> "lib", source |-> source, site |-> site, id |-> id, size |-> Sizes(1)]
Changing(patch, changed) == [patch EXCEPT !.size.changed = changed]
Public == Patch("q", "eu", 1)
FixedAt(i) == Patch("x", "eu", i)
TwoVariants(eu, us, i, j) == {Patch(eu, "eu", i), Patch(us, "us", j)}

TwoFeatures(patches, relation, payload, v1, v2) ==
  [features |-> {"f1", "f2"}, public |-> patches[1],
   requires |-> [f1 |-> {}, f2 |-> relation[1]],
   conflicts |-> [f1 |-> relation[2], f2 |-> {}],
   patches |-> [f1 |-> patches[2], f2 |-> {}], fixed |-> [f1 |-> {}, f2 |-> patches[3]],
   payloads |-> [f1 |-> payload, f2 |-> {}],
   components |-> <<[feature |-> "f1", variants |-> v1], [feature |-> "f2", variants |-> v2]>>]

NoFeature ==
  [features |-> {}, public |-> {}, requires |-> <<>>, conflicts |-> <<>>,
   patches |-> <<>>, fixed |-> <<>>, payloads |-> <<>>, components |-> <<>>]

MCCatalogs ==
  {NoFeature} \union
  {TwoFeatures(patches, relation, payload, TwoVariants("v1", "v2", i, 1),
               TwoVariants("w1", "w2", j, k)) :
     patches \in {<<{}, {}, {}>>, <<{}, {}, {FixedAt(1)}>>, <<{Public}, {}, {}>>,
                  <<{Public}, {"q"}, {}>>, <<{Public}, {"q"}, {FixedAt(2)}>>},
     relation \in {<<{}, {}>>, <<{"f1"}, {}>>, <<{}, {"f2"}>>},
     payload \in {{}, {"new"}}, i \in 1..2, j \in 1..2, k \in 1..2}
  \union {TwoFeatures(<<{}, {}, {}>>, <<{}, {}>>, {"elsewhere"}, TwoVariants("v1", "v2", 1, 1),
                      TwoVariants("w1", "w2", 2, 2))}
  \union {TwoFeatures(<<{}, {}, {FixedAt(1)}>>, relation, {},
                      {Changing(Patch("v1", "eu", 2), m), Patch("v2", "us", 1)},
                      {Changing(Patch("w1", "eu", 3), n), Patch("w2", "us", 2)}) :
            relation \in {<<{}, {}>>, <<{"f1"}, {}>>}, m \in 1 .. 4, n \in 1 .. 3}

Image(source, applied, housed, present) ==
  [source |-> [lib |-> source], applied |-> applied, housed |-> housed, present |-> present]
MCImages ==
  {Image("us", {}, {"new"}, {})} \union
  {Image("eu", a, {"new"}, {}) :
     a \in {{}, {Public}, {Patch("v1", "eu", 1)}, {Patch("v1", "eu", 2)}}} \union
  {Image("eu", {}, {}, {}), Image("eu", {}, {"new"}, {"new"})}

MCSelections ==
  {[features |-> f, public |-> p, without |-> w[1], withoutPublic |-> w[2]] :
     f \in SUBSET Features, p \in {{}, {"q"}},
     w \in {<<{}, {}>>, <<{"f1"}, {}>>, <<{}, {"q"}>>}}
-----------------------------------------------------------------------------
\* Names, one of which is another one with a hyphen and more.
a == <<3>>
ab == <<3, 1, 4>>
b == <<4>>
h == <<5>>
v == <<6>>
w == <<7>>
f == <<8>>
g == <<9>>

Site(target, source, site) ==
  [target |-> target, source |-> source, site |-> site, size |-> Sizes(1)]
Lib1 == Site("lib", "eu", 1)
Lib2 == Site("lib", "eu", 2)
Lib3 == Site("lib", "us", 1)
App == Site("app", "eu", 1)
Long == [App EXCEPT !.size.bytes = 7]
Data == Site("payload", "", 0)
Malformed == Site("junk", "", 0)

Member(kind, sub, id, content) ==
  [path |-> [kind |-> kind, sub |-> sub, id |-> id], content |-> content]
Component(id, kind, target, members) ==
  [id |-> id, kind |-> kind, target |-> target, members |-> members]
File(target, id) == Component(id, "file", target, <<Member("payload", "", h, Data)>>)
Hidden1(id, content) == Component("c2", "patch", "", <<Member("patches", "", id, content)>>)
OneOf(members) == Component("c2", "variants", "", members)

OfF ==
  {<<>>, <<File("new", "c1")>>, <<File("lib", "c1")>>,
   <<File("new", "c1"), File("new", "c2")>>, <<File("new", "c2"), Hidden1(h, Lib2)>>,
   <<File("new", "c1"), Hidden1(h, Lib2)>>,
   <<OneOf(<<Member("patches", "eu", v, Lib1)>>)>>}
  \union {<<Hidden1(id, content)>> : id \in {a, h}, content \in {Lib1, Lib2, Malformed}}
  \union {<<OneOf(<<Member("patches", "eu", v, Lib1), Member("patches", "us", id, content)>>)>> :
            id \in {v, w, a}, content \in {Lib3, App}}
OfG == {<<File("new", "c1")>>, <<Hidden1(h, Lib1)>>, <<Hidden1(w, Lib1)>>,
        <<File("other", "c1"), Hidden1(w, App)>>}

NoRelation == [requires |-> {}, conflicts |-> {}, patches |-> {}]
Relations ==
  {NoRelation, [NoRelation EXCEPT !.requires = {g}], [NoRelation EXCEPT !.requires = {f}],
   [NoRelation EXCEPT !.conflicts = {g}], [NoRelation EXCEPT !.patches = {a}]}

Whole(relation, components) ==
  LET members == UNION {Range(components[i].members) : i \in DOMAIN components}
  IN [manifest |-> [requires |-> relation.requires, conflicts |-> relation.conflicts,
                    patches |-> relation.patches, components |-> components],
      files |-> [p \in {m.path : m \in members} |->
                   (CHOOSE m \in members : m.path = p).content]]

\* A file that is missing, changed or of no use, or an unreadable manifest.
Stray == [kind |-> "patches", sub |-> "", id |-> b]
Damaged(package) ==
  {[package EXCEPT !.manifest = Malformed],
   [package EXCEPT !.files = [p \in DOMAIN @ \union {Stray} |-> IF p = Stray THEN Lib1 ELSE @[p]]]}
  \union {[package EXCEPT !.files[p] = App] : p \in DOMAIN package.files}
  \union {[package EXCEPT !.files = [q \in DOMAIN @ \ {p} |-> @[q]]] : p \in DOMAIN package.files}

SomePatches ==
  {<<>>} \union [{a} -> {Lib1, App, Malformed, Long} \union {Changing(App, m) : m \in 4 .. 5}] \union [{a, b} -> {Lib1, Lib2, Lib3}]
    \union [{a, ab} -> {Lib1, Lib2}] \union {[p \in {a, ab, b, v} |-> App]}

One == {Whole(r, c) : r \in Relations, c \in OfF}
         \union UNION {Damaged(Whole(NoRelation, c)) : c \in OfF}
Two == {[p \in {f, g} |-> IF p = f THEN Whole(rf, cf) ELSE Whole(rg, cg)] :
          rf \in Relations, rg \in {NoRelation, [NoRelation EXCEPT !.requires = {f}]},
          cf \in OfF, cg \in OfG}
SomeDirectories ==
  [patches : SomePatches, packages : {<<>>} \union [{f} -> One] \union Two]
-----------------------------------------------------------------------------
NoGraph ==
  /\ requires = <<>> /\ requested = {} /\ phase = "none" /\ stack = <<>>
  /\ todo = {} /\ visited = {} /\ order = <<>>
NoPlan ==
  /\ catalog = <<>> /\ image = <<>> /\ selection = <<>>
  /\ ordered = {} /\ resolved = {} /\ chosen = <<>> /\ earlier = {} /\ recipes = {}
NoReading ==
  /\ directory = <<>> /\ loading = "none" /\ names = <<>> /\ next = 0 /\ public = <<>>
  /\ component = 0 /\ ids = {} /\ targets = {}

FeaturesInit ==
  \/ part = "graph" /\ GraphInit /\ NoPlan /\ NoReading /\ pc = "none"
  \/ part = "plan" /\ Init /\ NoGraph /\ NoReading
  \/ part = "catalog" /\ ReadInit /\ NoGraph /\ NoPlan /\ pc = "none"

GraphStep == part = "graph" /\ GraphNext /\ UNCHANGED <<part, vars, readVars>>
PlanStep == part = "plan" /\ Next /\ UNCHANGED <<part, graphVars, readVars>>
CatalogStep == part = "catalog" /\ ReadNext /\ UNCHANGED <<part, graphVars, vars>>

FeaturesNext == GraphStep \/ PlanStep \/ CatalogStep

FeaturesSpec ==
  /\ FeaturesInit /\ [][FeaturesNext]_<<part, vars, graphVars, readVars>>
  /\ WF_<<part, vars, graphVars, readVars>>(FeaturesNext)
-----------------------------------------------------------------------------
(***************************************************************************)
(* Both searches come to an end, the second because the first was passed.  *)
(***************************************************************************)
GraphEnds == part = "graph" ~> phase \in {"rejected", "resolved"}
=============================================================================
