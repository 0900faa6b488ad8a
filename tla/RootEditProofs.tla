--------------------------- MODULE RootEditProofs ---------------------------
(***************************************************************************)
(* RootEdit for every number of payload files and patch targets.           *)
(***************************************************************************)
EXTENDS RootEdit, SequenceTheorems, TLAPS

Preflight == {"checkFiles", "checkTargets"}
Creating == {"requireAbsent", "writing", "verifyData", "setting", "verifyFile"}
InLoop == {"writing", "verifyData", "setting", "verifyFile", "replacing", "verifyTarget"}
Patching == {"snapshot", "reread", "replacing", "verifyTarget", "fsck",
             "finalTargets", "finalFiles", "done"}

\* While the plan is checked against the image nothing is written.
PreflightInv ==
  /\ pc \in Preflight => fs = fs0
  /\ pc = "checkFiles" => \A i \in 1 .. k - 1 : fs0[FileSeq[i]] = Absent
  /\ pc = "checkTargets" =>
       /\ \A p \in Files : fs0[p] = Absent
       /\ \A i \in 1 .. k - 1 : AcceptableTarget(fs0[TargetSeq[i]])

\* Beyond it the whole plan was acceptable.
Accepted ==
  pc \in Creating \union Patching => \A p \in Paths : Acceptable(p, fs0[p])

\* debugfs works on the path of the loop's present element.
BatchInv ==
  /\ pc \in {"writing", "verifyData", "setting", "verifyFile"} => k <= Len(FileSeq)
  /\ pc \in {"replacing", "verifyTarget"} => k <= Len(TargetSeq)
  /\ pc \in {"writing", "setting"} =>
       \A i \in 1 .. Len(batch) : batch[i].path = FileSeq[k]
  /\ pc = "replacing" =>
       /\ fs0[TargetSeq[k]].data # "desired"
       /\ \A i \in 1 .. Len(batch) : batch[i].path = TargetSeq[k]

CreateInv ==
  pc \in Creating =>
    /\ \A i \in 1 .. k - 1 : i <= Len(FileSeq) => fs[FileSeq[i]] = Installed
    /\ \A p \in Targets : fs[p] = fs0[p]

PatchInv == pc \in Patching => \A p \in Files : fs[p] = Installed

FinalInv ==
  /\ pc = "finalTargets" =>
       \A i \in 1 .. k - 1 : i <= Len(TargetSeq) => fs[TargetSeq[i]] = Installed
  /\ pc \in {"finalFiles", "done"} => \A p \in Targets : fs[p] = Installed

IInv ==
  /\ TypeOK /\ PreflightInv /\ Accepted /\ BatchInv /\ CreateInv /\ PatchInv
  /\ FinalInv /\ RefusedIsUntouched /\ PayloadBeforeHooks /\ PatchedIsLeftAlone

(***************************************************************************)
(* The paths and the commands.                                             *)
(***************************************************************************)
LEMMA PathFacts ==
  /\ Len(FileSeq) \in Nat /\ Len(TargetSeq) \in Nat
  /\ \A i \in 1 .. Len(FileSeq) : FileSeq[i] \in Files /\ FileSeq[i] \in Paths
  /\ \A i \in 1 .. Len(TargetSeq) : TargetSeq[i] \in Targets /\ TargetSeq[i] \in Paths
  /\ \A p \in Files : \E i \in 1 .. Len(FileSeq) : p = FileSeq[i]
  /\ \A p \in Targets : \E i \in 1 .. Len(TargetSeq) : p = TargetSeq[i]
  /\ \A p \in Files : p \notin Targets
<1>1. Len(FileSeq) \in Nat /\ Len(TargetSeq) \in Nat
  BY PlanAssumption
<1>2. Files = {FileSeq[i] : i \in 1 .. Len(FileSeq)}
  BY DEF Files, Elements
<1>3. Targets = {TargetSeq[i] : i \in 1 .. Len(TargetSeq)}
  BY DEF Targets, Elements
<1>4. \A p \in Files : p \notin Targets
  BY PlanAssumption
<1>5. QED
  BY <1>1, <1>2, <1>3, <1>4 DEF Paths

LEMMA SetFacts ==
  ASSUME NEW p \in Paths
  PROVE  /\ Set(p) \in Seq(Commands) /\ Len(Set(p)) = 3
         /\ \A i \in 1..3 : Set(p)[i].path = p
  BY DEF Set, SetField, Commands, Fields

LEMMA ReplacementFacts ==
  ASSUME NEW p \in Paths
  PROVE  /\ Replacement(p) \in Seq(Commands)
         /\ \A i \in 1 .. Len(Replacement(p)) : Replacement(p)[i].path = p
  BY DEF Replacement, SetField, Commands, Fields

LEMMA ResultsFacts ==
  ASSUME TypeOK, NEW c \in Commands, NEW e \in Results(c)
  PROVE  e \in Entry
<1>1. c.path \in Paths /\ fs[c.path] \in Entry
  BY DEF TypeOK, Commands
<1>2. CASE e = fs[c.path] \/ e = Absent
  BY <1>1, <1>2 DEF Entry
<1>3. CASE e \in [data : {"desired", "garbage"}, meta : SUBSET Fields]
  BY <1>3 DEF Entry, Data
<1>4. CASE /\ fs[c.path] # Absent /\ c.op = "set"
           /\ e = [fs[c.path] EXCEPT !.meta = fs[c.path].meta \union {c.field}]
  <2>1. c.field \in Fields
    BY <1>4 DEF Commands
  <2>2. fs[c.path] \in [data : Data, meta : SUBSET Fields]
    BY <1>1, <1>4 DEF Entry
  <2>3. QED
    BY <1>4, <2>1, <2>2 DEF Entry
<1>5. QED
  BY <1>2, <1>3, <1>4 DEF Results

LEMMA CommandFacts ==
  ASSUME TypeOK, DebugfsCommand
  PROVE  /\ batch # <<>> /\ Len(batch) \in Nat \ {0} /\ Head(batch) = batch[1]
         /\ Head(batch) \in Commands
         /\ batch' \in Seq(Commands)
         /\ \A i \in 1 .. Len(batch') : i + 1 \in 1 .. Len(batch) /\ batch'[i] = batch[i + 1]
  BY DEF TypeOK, DebugfsCommand

LEMMA TypeStep == TypeOK /\ BatchInv /\ [Next]_vars => TypeOK'
<1> SUFFICES ASSUME TypeOK, BatchInv, [Next]_vars PROVE TypeOK'
  OBVIOUS
<1>1. CASE CheckFiles
  BY <1>1 DEF CheckFiles, CheckNext, IsAbsent, Enter, Unread, TypeOK, Pcs
<1>2. CASE CheckTargets
  BY <1>2 DEF CheckTargets, CheckNext, IsAcceptable, Enter, Unread, TypeOK, Pcs
<1>3. CASE RequireAbsent
  <2>1. <<[op |-> "write", path |-> FileSeq[k]]>> \in Seq(Commands)
    BY <1>3, PathFacts DEF RequireAbsent, Commands, TypeOK
  <2>2. QED
    BY <1>3, <2>1 DEF RequireAbsent, IsAbsent, TypeOK, Pcs
<1>4. CASE Confirm
  BY <1>4 DEF Confirm, TypeOK, Pcs
<1>5. CASE VerifyData
  BY <1>5, PathFacts, SetFacts DEF VerifyData, IsPatched, TypeOK, Pcs, BatchInv
<1>6. CASE EndSetting
  BY <1>6 DEF EndSetting, TypeOK, Pcs
<1>7. CASE VerifyFile
  BY <1>7 DEF VerifyFile, IsInstalled, Unread, TypeOK, Pcs
<1>8. CASE EndFiles
  BY <1>8 DEF EndFiles, Enter, Unread, TypeOK, Pcs
<1>9. CASE Snapshot
  BY <1>9 DEF Snapshot, CheckNext, IsAcceptable, Enter, Unread, TypeOK, Pcs
<1>10. CASE KeepPatched
  BY <1>10 DEF KeepPatched, TypeOK, Pcs
<1>11. CASE Replace
  <2>1. TargetSeq[k] \in Paths
    BY <1>11, PathFacts DEF Replace, TypeOK
  <2>2. Replacement(TargetSeq[k]) \in Seq(Commands)
    BY <2>1, ReplacementFacts
  <2>3. QED
    BY <1>11, <2>2 DEF Replace, Unchanged, IsPatched, TypeOK, Pcs
<1>12. CASE EndReplacing
  BY <1>12 DEF EndReplacing, TypeOK, Pcs
<1>13. CASE VerifyTarget
  BY <1>13 DEF VerifyTarget, IsInstalled, Unread, TypeOK, Pcs
<1>14. CASE EndTargets
  BY <1>14 DEF EndTargets, Enter, Unread, TypeOK, Pcs
<1>15. CASE Fsck
  BY <1>15 DEF Fsck, Enter, Unread, TypeOK, Pcs
<1>16. CASE FinalTargets
  BY <1>16 DEF FinalTargets, CheckNext, IsInstalled, Enter, Unread, TypeOK, Pcs
<1>17. CASE FinalFiles
  BY <1>17 DEF FinalFiles, CheckNext, IsInstalled, Enter, Unread, TypeOK, Pcs
<1>18. CASE DebugfsCommand
  <2>1. PICK e \in Results(Head(batch)) :
          /\ fs' = [fs EXCEPT ![Head(batch).path] = e]
          /\ told' = (Head(batch).op = "write" /\ e # fs[Head(batch).path])
    BY <1>18 DEF DebugfsCommand
  <2>2. e \in Entry /\ batch' \in Seq(Commands)
    BY <1>18, <2>1, CommandFacts, ResultsFacts
  <2>3. fs' \in [Paths -> Entry]
    BY <2>1, <2>2 DEF TypeOK
  <2>4. told' \in BOOLEAN
    BY <2>1
  <2>5. QED
    BY <1>18, <2>2, <2>3, <2>4 DEF DebugfsCommand, TypeOK
<1>19. CASE Fail
  BY <1>19 DEF Fail, TypeOK, Pcs
<1>20. CASE UNCHANGED vars
  BY <1>20 DEF vars, TypeOK
<1>21. QED
  BY <1>1, <1>2, <1>3, <1>4, <1>5, <1>6, <1>7, <1>8, <1>9, <1>10, <1>11,
     <1>12, <1>13, <1>14, <1>15, <1>16, <1>17, <1>18, <1>19, <1>20 DEF Next

LEMMA BookStep ==
  IInv /\ [Next]_vars
    => /\ PreflightInv' /\ Accepted' /\ BatchInv' /\ CreateInv' /\ PatchInv'
       /\ FinalInv' /\ RefusedIsUntouched' /\ PayloadBeforeHooks' /\ PatchedIsLeftAlone'
<1> DEFINE Goal == /\ PreflightInv /\ Accepted /\ BatchInv /\ CreateInv /\ PatchInv
                   /\ FinalInv /\ RefusedIsUntouched /\ PayloadBeforeHooks
                   /\ PatchedIsLeftAlone
<1> SUFFICES ASSUME IInv, [Next]_vars PROVE Goal'
  OBVIOUS
<1> USE PathFacts
    DEF IInv, TypeOK, PreflightInv, Accepted, BatchInv, CreateInv, PatchInv, FinalInv,
        RefusedIsUntouched, PayloadBeforeHooks, PatchedIsLeftAlone, Preflight,
        Creating, Patching
<1>1. CASE CheckFiles
  BY <1>1 DEF CheckFiles, CheckNext, IsAbsent, Enter, Unread
<1>2. CASE CheckTargets
  <2>1. CASE k <= Len(TargetSeq) /\ IsAcceptable(TargetSeq[k]) /\ k' = k + 1 /\ pc' = pc
    BY <1>2, <2>1 DEF CheckTargets, CheckNext, IsAcceptable, Enter, Unread
  <2>2. CASE k > Len(TargetSeq) /\ Enter("requireAbsent")
    <3>1. /\ fs = fs0 /\ pc' = "requireAbsent" /\ k' = 1
          /\ UNCHANGED <<fs0, fs, batch, told>>
      BY <1>2, <2>2 DEF CheckTargets, CheckNext, Enter, Unread
    <3>2. \A p \in Targets : AcceptableTarget(fs0[p])
      BY <1>2, <2>2 DEF CheckTargets, CheckNext
    <3>3. \A p \in Paths : Acceptable(p, fs0[p])
      BY <1>2, <3>2 DEF CheckTargets, CheckNext, Acceptable, Paths
    <3>4. QED
      BY <3>1, <3>3
  <2>3. QED
    BY <1>2, <2>1, <2>2 DEF CheckTargets, CheckNext
<1>3. CASE RequireAbsent
  BY <1>3 DEF RequireAbsent, IsAbsent
<1>4. CASE Confirm
  BY <1>4 DEF Confirm
<1>5. CASE VerifyData
  <2>1. /\ pc = "verifyData" /\ pc' = "setting" /\ FileSeq[k] \in Paths
        /\ batch' = Set(FileSeq[k]) /\ UNCHANGED <<fs0, fs, k, told>>
    BY <1>5 DEF VerifyData
  <2>2. \A i \in 1 .. Len(batch') : batch'[i].path = FileSeq[k]
    BY <2>1, SetFacts
  <2>3. QED
    BY <2>1, <2>2
<1>6. CASE EndSetting
  BY <1>6 DEF EndSetting
<1>7. CASE VerifyFile
  BY <1>7 DEF VerifyFile, IsInstalled, Unread
<1>8. CASE EndFiles
  BY <1>8 DEF EndFiles, Enter, Unread
<1>9. CASE Snapshot
  BY <1>9 DEF Snapshot, CheckNext, IsAcceptable, Enter, Unread
<1>10. CASE KeepPatched
  BY <1>10 DEF KeepPatched
<1>11. CASE Replace
  BY <1>11, ReplacementFacts DEF Replace, Unchanged, IsPatched
<1>12. CASE EndReplacing
  BY <1>12 DEF EndReplacing
<1>13. CASE VerifyTarget
  BY <1>13 DEF VerifyTarget, IsInstalled, Unread
<1>14. CASE EndTargets
  BY <1>14 DEF EndTargets, Enter, Unread
<1>15. CASE Fsck
  BY <1>15 DEF Fsck, Enter, Unread
<1>16. CASE FinalTargets
  BY <1>16 DEF FinalTargets, CheckNext, IsInstalled, Enter, Unread
<1>17. CASE FinalFiles
  BY <1>17 DEF FinalFiles, CheckNext, IsInstalled, Enter, Unread
<1>18. CASE DebugfsCommand
  <2>1. /\ pc \in {"writing", "setting", "replacing"}
        /\ UNCHANGED <<fs0, pc, k>>
        /\ \A p \in Paths \ {Head(batch).path} : fs'[p] = fs[p]
    BY <1>18 DEF DebugfsCommand
  <2>2. ASSUME NEW q, \A i \in 1 .. Len(batch) : batch[i].path = q
        PROVE  Head(batch).path = q /\ \A i \in 1 .. Len(batch') : batch'[i].path = q
    BY <1>18, <2>2, CommandFacts
  <2>3. CASE pc \in {"writing", "setting"}
    <3>1. /\ Head(batch).path = FileSeq[k]
          /\ \A i \in 1 .. Len(batch') : batch'[i].path = FileSeq[k]
      BY <2>2, <2>3
    <3>2. \A i \in 1 .. k - 1 : fs'[FileSeq[i]] = fs[FileSeq[i]]
      <4>1. TAKE i \in 1 .. k - 1
      <4>2. i \in 1 .. Len(FileSeq) /\ k \in 1 .. Len(FileSeq) /\ i # k
        BY <2>3
      <4>3. FileSeq[i] # FileSeq[k] /\ FileSeq[i] \in Paths
        BY <4>2, PlanAssumption
      <4>4. QED
        BY <2>1, <3>1, <4>3
    <3>3. \A p \in Targets : fs'[p] = fs[p]
      <4>1. k \in 1 .. Len(FileSeq)
        BY <2>3
      <4>2. FileSeq[k] \in Files
        BY <4>1
      <4>3. \A p \in Targets : p \in Paths \ {FileSeq[k]}
        BY <4>2 DEF Paths
      <4>4. QED
        BY <2>1, <3>1, <4>3
    <3>4. \A p \in Paths : Acceptable(p, fs0[p])
      BY <2>3
    <3>5. QED
      BY <2>1, <2>3, <3>1, <3>2, <3>3, <3>4
  <2>4. CASE pc = "replacing"
    <3>1. /\ Head(batch).path = TargetSeq[k] /\ TargetSeq[k] \in Targets
          /\ \A i \in 1 .. Len(batch') : batch'[i].path = TargetSeq[k]
      <4>1. k \in 1 .. Len(TargetSeq)
        BY <2>4
      <4>2. TargetSeq[k] \in Targets
        BY <4>1
      <4>3. QED
        BY <2>2, <2>4, <4>2
    <3>2. \A p \in Files : fs'[p] = fs[p]
      BY <2>1, <3>1 DEF Paths
    <3>3. \A p \in Paths : Acceptable(p, fs0[p])
      BY <2>4
    <3>4. \A p \in Targets : fs0[p].data = "desired" => fs'[p] = fs0[p]
      BY <2>1, <2>4, <3>1 DEF Paths
    <3>5. QED
      BY <2>1, <2>4, <3>1, <3>2, <3>3, <3>4
  <2>5. QED
    BY <2>1, <2>3, <2>4
<1>19. CASE Fail
  BY <1>19 DEF Fail
<1>20. CASE UNCHANGED vars
  BY <1>20 DEF vars
<1>21. QED
  BY <1>1, <1>2, <1>3, <1>4, <1>5, <1>6, <1>7, <1>8, <1>9, <1>10, <1>11,
     <1>12, <1>13, <1>14, <1>15, <1>16, <1>17, <1>18, <1>19, <1>20 DEF Next

LEMMA InitIInv == Init => IInv
<1> SUFFICES ASSUME Init PROVE IInv
  OBVIOUS
<1>1. TypeOK
  <2>1. <<>> \in Seq(Commands)
    OBVIOUS
  <2>2. batch \in Seq(Commands)
    BY <2>1 DEF Init
  <2>3. fs0 \in [Paths -> Entry] /\ fs \in [Paths -> Entry]
    BY DEF Init
  <2>4. pc \in Pcs /\ told \in BOOLEAN
    BY Zenon DEF Init, Pcs
  <2>5. k \in Nat \ {0}
    BY DEF Init
  <2>6. QED
    BY <2>2, <2>3, <2>4, <2>5 DEF TypeOK
<1>2. QED
  BY <1>1
  DEF Init, IInv, PreflightInv, Accepted, BatchInv, CreateInv, PatchInv, FinalInv,
      RefusedIsUntouched, PayloadBeforeHooks, PatchedIsLeftAlone, Preflight,
      Creating, Patching

THEOREM Invariance == Spec => []IInv
<1>1. IInv /\ [Next]_vars => IInv'
  BY TypeStep, BookStep DEF IInv
<1>2. QED
  BY InitIInv, <1>1, PTL DEF Spec

\* A customization that succeeds is complete, for every plan, although debugfs
\* may have skipped any command without saying so.
THEOREM Complete == Spec => []DoneIsInstalled
<1>1. IInv => DoneIsInstalled
  BY DEF IInv, PatchInv, FinalInv, Patching, DoneIsInstalled, Paths
<1>2. QED
  BY Invariance, <1>1, PTL

\* A plan that does not fit the image is refused before the first write.
THEOREM RefusalFirst == Spec => []RefusedIsUntouched
<1>1. IInv => RefusedIsUntouched
  BY DEF IInv
<1>2. QED
  BY Invariance, <1>1, PTL

\* The payloads are complete before the first loader hook is patched.
THEOREM PayloadFirst == Spec => []PayloadBeforeHooks
<1>1. IInv => PayloadBeforeHooks
  BY DEF IInv
<1>2. QED
  BY Invariance, <1>1, PTL

\* Targets that are already patched are not rewritten.
THEOREM LeftAlone == Spec => []PatchedIsLeftAlone
<1>1. IInv => PatchedIsLeftAlone
  BY DEF IInv
<1>2. QED
  BY Invariance, <1>1, PTL
=============================================================================
