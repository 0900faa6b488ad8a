---------------------------- MODULE Publication ----------------------------
(***************************************************************************)
(* What a build promises about the name of its output, without any of the  *)
(* steps that keep the promise.  One directory holds one output name.  The *)
(* name is taken only while it is free, is given back only by the build    *)
(* that holds it, and a build reports success only while it holds the name *)
(* on the disk as well as in the cache.  ImageBuild implements this.       *)
(***************************************************************************)
CONSTANTS Builders, Foreign, NoFile

VARIABLES
  holder,   \* who owns the name now: a builder, Foreign or NoFile
  stable,   \* who owns it if the machine stops now
  outcome   \* outcome[b] : "running", "succeeded" or "failed"

vars == <<holder, stable, outcome>>

Init ==
  /\ holder \in {NoFile, Foreign}
  /\ stable = holder
  /\ outcome = [b \in Builders |-> "running"]

Publish(b) ==
  /\ outcome[b] = "running"
  /\ holder = NoFile
  /\ holder' = b
  /\ UNCHANGED <<stable, outcome>>

Retract(b) ==
  /\ outcome[b] = "running"
  /\ holder = b
  /\ holder' = NoFile
  /\ UNCHANGED <<stable, outcome>>

Succeed(b) ==
  /\ outcome[b] = "running"
  /\ holder = b
  /\ stable = b
  /\ outcome' = [outcome EXCEPT ![b] = "succeeded"]
  /\ UNCHANGED <<holder, stable>>

Fail(b) ==
  /\ outcome[b] = "running"
  /\ outcome' = [outcome EXCEPT ![b] = "failed"]
  /\ UNCHANGED <<holder, stable>>

\* Another program takes the name; it never takes it from anyone.
Appear ==
  /\ holder = NoFile
  /\ holder' = Foreign
  /\ UNCHANGED <<stable, outcome>>

Persist ==
  /\ stable' = holder
  /\ UNCHANGED <<holder, outcome>>

\* The machine stops: what was not on the disk is gone, and so is every
\* build that was still running.
Crash ==
  /\ holder' = stable
  /\ \E S \in SUBSET {b \in Builders : outcome[b] = "running"} :
       outcome' = [b \in Builders |-> IF b \in S THEN "failed" ELSE outcome[b]]
  /\ UNCHANGED stable

Next ==
  \/ \E b \in Builders : Publish(b) \/ Retract(b) \/ Succeed(b) \/ Fail(b)
  \/ Appear \/ Persist \/ Crash

Spec == Init /\ [][Next]_vars
=============================================================================
