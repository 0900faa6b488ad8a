------------------------------ MODULE MCUpdate ------------------------------
(***************************************************************************)
(* The two parts of reading an update, in one run; `part' says which.      *)
(* UpdateInputs with two containers and a plain image, two updates, two    *)
(* reads per pass, two writes by another program and two ticks.            *)
(* UpdateCatalog with up to three lines: two spellings of a required path, *)
(* other paths, unsafe and foreign ones, two numbers, and 3-bit CRCs with  *)
(* the values where the sign changes and one that is too large.            *)
(***************************************************************************)
EXTENDS UpdateInputs, UpdateCatalog, TLC

VARIABLE part

Containers == {1, 2}
Symmetry == Permutations(Releases)
-----------------------------------------------------------------------------
Line(parts, separator, name, id, value) ==
  [parts |-> parts, separator |-> separator, name |-> name, id |-> id, crc |-> value]

SomeLines ==
  {Line(<<"pkg", "HU">>, s, "boot", id, c) :
     s \in {"slash", "backslash"}, id \in {1, 2}, c \in {-4, -1, 3}}
  \union {Line(<<"pkg">>, "slash", "vr", id, c) : id \in {1, 2, 3}, c \in {0, 4}}
  \union {Line(parts, "slash", "vr", 3, 0) :
            parts \in {<<"pkg", "..">>, <<"other">>, <<"">>, <<"pkg", "HU">>}}
  \union {Line(<<"pkg">>, "slash", name, 3, 0) : name \in {"..", "boot"}}

Dots == {"", ".", ".."}
NotNames == Dots \union {"a/b"}
SomePaths == {<<"HU", "boot">>, <<"vr">>}
-----------------------------------------------------------------------------
InitInputs ==
  /\ part = "inputs" /\ Init
  /\ catalog = <<>> /\ place = "none" /\ n = 0
  /\ records = <<>> /\ ids = {} /\ path = <<>> /\ crc = 0
InitCatalog ==
  /\ part = "catalog" /\ CatalogInit
  /\ block = <<>> /\ stamp = <<>> /\ clock = 0 /\ writes = 0
  /\ pc = "none" /\ i = 0 /\ k = 0
  /\ identity = <<>> /\ release = NoRelease /\ matches = TRUE /\ hasty = {}
  /\ streams = {} /\ stream = <<>> /\ restored = <<>>
  /\ prep = FALSE /\ refusal = "none"

UpdateInit == InitInputs \/ InitCatalog
UpdateNext ==
  \/ part = "inputs" /\ Next /\ UNCHANGED <<part, catalogVars>>
  \/ part = "catalog" /\ CatalogNext /\ UNCHANGED <<part, vars>>
UpdateSpec == UpdateInit /\ [][UpdateNext]_<<part, vars, catalogVars>>
=============================================================================
