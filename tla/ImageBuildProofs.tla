-------------------------- MODULE ImageBuildProofs --------------------------
(***************************************************************************)
(* The safety properties of ImageBuild for every set of builders and every *)
(* number of faults, and the proof that it implements Publication.         *)
(***************************************************************************)
EXTENDS ImageBuild, TLAPS

(***************************************************************************)
(* The inductive invariant: what is known of a builder at each statement.  *)
(***************************************************************************)
PastVerify ==
  {"closeImage", "forgetImage", "link", "mark", "syncLink", "unlinkImage",
   "syncUnlink", "rollback", "syncRollback", "closeDirectory"}

\* Statements at which the builder is sure to own the name.
Holding == {"mark", "syncLink", "unlinkImage", "syncUnlink", "rollback"}

\* Statements of the way out, and its end.
Unwinding == WayOut \union {"exited"}

\* Statements no image of the builder can have been published before.
Unpublished == Pcs \ (Unwinding \union Holding \union {"syncRollback", "killed"})

PrepEntry == Running \ {"checkOutput", "scanPrep", "makePrep"}

ProbeEntry == {"tryProbe", "closeProbe", "unprobe"}

WorkEntry ==
  PrepEntry \ (ProbeEntry \union {"inspect", "restore", "scanWork", "probe",
                "validate", "makeWork", "removePreparation", "removePrep"})

\* The image is flushed and verified before it can be linked.
Gated ==
  \A b \in Builders :
    /\ pc[b] \in PastVerify \union {"verify"} => b \in synced
    /\ pc[b] \in PastVerify => b \in verified

\* Between os.link and the end of the rollback the name is the builder's own.
Held == \A b \in Builders : pc[b] \in Holding => output = b

Durable ==
  \A b \in Builders :
    pc[b] \in Unwinding /\ exc[b] = "none" => output = b /\ disk = b

\* No exception is in flight on the straight path, one is in the rollback.
Straight == (Unpublished \ {"closeProbe", "unprobe"}) \union (Holding \ {"rollback"})

Cause ==
  \A b \in Builders :
    /\ pc[b] \in Straight => exc[b] = "none"
    /\ pc[b] \in {"rollback", "syncRollback"} => exc[b] # "none"

\* Nothing of the builder is published before Link, while the rollback is
\* flushed, or on the way out of a failure nobody disturbed.
Absent ==
  \A b \in Builders :
    /\ pc[b] \in Unpublished => output # b /\ disk # b
    /\ pc[b] = "syncRollback" => output # b
    /\ pc[b] \in Unwinding /\ exc[b] # "none" /\ b \notin late
         => output # b /\ disk # b

\* Every temporary entry has an owner that will remove it, or its removal was
\* skipped, or it has been reported.
Accounted ==
  \A b \in Builders :
    /\ <<"probe", b>> \in scratch =>
         \/ pc[b] \in ProbeEntry \union {"killed"}
         \/ b \in warned \/ <<"probe", b>> \in skipped
    /\ <<"work", b>> \in scratch =>
         \/ pc[b] \in WorkEntry \union {"killed"}
         \/ b \in warned \/ <<"work", b>> \in skipped
    /\ <<"prep", b>> \in scratch =>
         \/ pc[b] \in PrepEntry \union {"killed"} \/ <<"prep", b>> \in skipped
         \/ pc[b] = "exited" /\ exc[b] = "CleanupError"

\* What holds beside the types.
Ownership ==
  /\ PublishedIsComplete
  /\ Gated /\ Held /\ Durable /\ Cause /\ Absent /\ Accounted

IInv == TypeOK /\ Ownership

LEMMA HandlerType == \A p \in Running : Handler(p) \in Running \union {"exited"}
  BY DEF Handler, Running, Pcs, RolledBack

LEMMA RaisesType == \A p \in Pcs : Raises(p) \subseteq Exceptions
  BY DEF Raises, Exceptions

LEMMA RaisesRunning == \A p \in Pcs : Raises(p) # {} => p \in Running
  BY DEF Raises, Running, Pcs, Reporting, Failing

LEMMA SkipsType == \A p \in Pcs, b \in Builders : Skips(p) \X {b} \subseteq Kinds \X Builders
  BY DEF Skips, Kinds

\* What Raise leaves is of the right type.
LEMMA RaiseType ==
  ASSUME TypeOK, NEW b \in Builders, pc[b] \in Running, NEW e \in Exceptions,
         Raise(b, e), UNCHANGED <<armed, synced, verified, directory, warned>>,
         faults' \in Nat
  PROVE  TypeOK'
<1>1. Handler(pc[b]) \in Pcs
  BY HandlerType DEF Running, Pcs
<1>2. Skips(pc[b]) \X {b} \subseteq Kinds \X Builders
  BY SkipsType DEF Running
<1>3. pc' \in [Builders -> Pcs] /\ exc' \in [Builders -> Exceptions \union {"none"}]
  BY <1>1 DEF TypeOK, Raise
<1>4. /\ spent' \subseteq Builders /\ late' \subseteq Builders
      /\ skipped' \subseteq Kinds \X Builders
  BY <1>2 DEF TypeOK, Raise
<1>5. QED
  BY <1>3, <1>4 DEF TypeOK, directory

LEMMA TypeStep == TypeOK /\ [Next]_vars => TypeOK'
<1> SUFFICES ASSUME TypeOK, [Next]_vars PROVE TypeOK'
  OBVIOUS
<1> USE DEF TypeOK, image, history, directory, Goto, Owners
<1>1. ASSUME NEW b \in Builders, Start(b) PROVE TypeOK'
  BY <1>1 DEF Start, Pcs
<1>2. ASSUME NEW b \in Builders, Refuse(b) PROVE TypeOK'
  BY <1>2, RaiseType DEF Refuse, Refused, Pcs, Running, Exceptions
<1>3. ASSUME NEW b \in Builders, CheckOutput(b) PROVE TypeOK'
  BY <1>3 DEF CheckOutput, Pcs
<1>4. ASSUME NEW b \in Builders, ScanPrep(b) PROVE TypeOK'
  BY <1>4 DEF ScanPrep, Pcs
<1>5. ASSUME NEW b \in Builders, MakePrep(b) PROVE TypeOK'
  BY <1>5 DEF MakePrep, Add, Kinds, Pcs
<1>6. ASSUME NEW b \in Builders, Inspect(b) PROVE TypeOK'
  BY <1>6 DEF Inspect, Pcs
<1>7. ASSUME NEW b \in Builders, Restore(b) PROVE TypeOK'
  BY <1>7 DEF Restore, Pcs
<1>8. ASSUME NEW b \in Builders, ScanWork(b) PROVE TypeOK'
  BY <1>8 DEF ScanWork, Pcs
<1>9. ASSUME NEW b \in Builders, Probe(b) PROVE TypeOK'
  BY <1>9 DEF Probe, Add, Kinds, Pcs
<1>10. ASSUME NEW b \in Builders, Unprobe(b) PROVE TypeOK'
  BY <1>10 DEF Unprobe, Remove, Kinds, Pcs
<1>11. ASSUME NEW b \in Builders, Validate(b) PROVE TypeOK'
  BY <1>11 DEF Validate, Pcs
<1>12. ASSUME NEW b \in Builders, MakeWork(b) PROVE TypeOK'
  BY <1>12 DEF MakeWork, Add, Kinds, Pcs
<1>13. ASSUME NEW b \in Builders, BindWork(b) PROVE TypeOK'
  BY <1>13 DEF BindWork, Pcs
<1>14. ASSUME NEW b \in Builders, Arm(b) PROVE TypeOK'
  BY <1>14 DEF Arm, Pcs
<1>15. ASSUME NEW b \in Builders, SaveHandler(b) PROVE TypeOK'
  BY <1>15 DEF SaveHandler, Pcs
<1>16. ASSUME NEW b \in Builders, Assemble(b) PROVE TypeOK'
  BY <1>16 DEF Assemble, Pcs
<1>17. ASSUME NEW b \in Builders, Sync(b) PROVE TypeOK'
  BY <1>17 DEF Sync, Pcs
<1>18. ASSUME NEW b \in Builders, Verify(b) PROVE TypeOK'
  BY <1>18 DEF Verify, Pcs
<1>19. ASSUME NEW b \in Builders, Link(b) PROVE TypeOK'
  BY <1>19 DEF Link, Pcs
<1>20. ASSUME NEW b \in Builders, Mark(b) PROVE TypeOK'
  BY <1>20 DEF Mark, Pcs
<1>21. ASSUME NEW b \in Builders, SyncLink(b) PROVE TypeOK'
  BY <1>21 DEF SyncLink, FsyncDirectory, Pcs
<1>22. ASSUME NEW b \in Builders, UnlinkImage(b) PROVE TypeOK'
  BY <1>22 DEF UnlinkImage, Pcs
<1>23. ASSUME NEW b \in Builders, SyncUnlink(b) PROVE TypeOK'
  BY <1>23 DEF SyncUnlink, FsyncDirectory, Pcs
<1>24. ASSUME NEW b \in Builders, Rollback(b) PROVE TypeOK'
  BY <1>24 DEF Rollback, Pcs
<1>25. ASSUME NEW b \in Builders, SyncRollback(b) PROVE TypeOK'
  BY <1>25 DEF SyncRollback, FsyncDirectory, Pcs
<1>26. ASSUME NEW b \in Builders, CloseDirectory(b) PROVE TypeOK'
  BY <1>26 DEF CloseDirectory, Pcs
<1>27. ASSUME NEW b \in Builders, RestoreHandler(b) PROVE TypeOK'
  BY <1>27 DEF RestoreHandler, Pcs
<1>28. ASSUME NEW b \in Builders, RemoveWork(b) PROVE TypeOK'
  BY <1>28 DEF RemoveWork, Remove, Kinds, Pcs
<1>29. ASSUME NEW b \in Builders, RemovePreparation(b) PROVE TypeOK'
  BY <1>29 DEF RemovePreparation, Pcs
<1>30. ASSUME NEW b \in Builders, RemovePrep(b) PROVE TypeOK'
  BY <1>30 DEF RemovePrep, Remove, Kinds, Pcs
<1>31. ASSUME NEW b \in Builders, Failure(b) PROVE TypeOK'
  <2>1. PICK e \in Raises(pc[b]) : Raise(b, e)
    BY <1>31 DEF Failure
  <2>2. e \in Exceptions /\ pc[b] \in Running
    BY <2>1, RaisesType, RaisesRunning
  <2>3. QED
    BY <1>31, <2>1, <2>2, RaiseType DEF Failure
<1>32. ASSUME NEW b \in Builders, Sigint(b) PROVE TypeOK'
  BY <1>32, RaiseType DEF Sigint, Interrupted, Fault, Exceptions
<1>33. ASSUME NEW b \in Builders, Sigterm(b) PROVE TypeOK'
  BY <1>33, RaiseType DEF Sigterm, Interrupted, Fault, Exceptions
<1>34. ASSUME NEW b \in Builders, Kill(b) PROVE TypeOK'
  BY <1>34 DEF Kill, Fault, Pcs
<1>35. ASSUME NEW b \in Builders, OperatorCleans(b) PROVE TypeOK'
  BY <1>35 DEF OperatorCleans, Pcs
<1>36. CASE PowerLoss
  BY <1>36 DEF PowerLoss, Fault, Running, Pcs
<1>37. CASE Writeback
  BY <1>37 DEF Writeback, FsyncDirectory
<1>38. CASE ForeignAppears
  BY <1>38 DEF ForeignAppears
<1>39. CASE UNCHANGED vars
  BY <1>39 DEF vars
<1>40. ASSUME NEW b \in Builders, TryProbe(b) PROVE TypeOK'
  BY <1>40 DEF TryProbe, Pcs
<1>41. ASSUME NEW b \in Builders, CloseProbe(b) PROVE TypeOK'
  BY <1>41 DEF CloseProbe, Pcs
<1>42. ASSUME NEW b \in Builders, CloseImage(b) PROVE TypeOK'
  BY <1>42 DEF CloseImage, Pcs
<1>43. ASSUME NEW b \in Builders, ForgetImage(b) PROVE TypeOK'
  BY <1>43 DEF ForgetImage, Pcs
<1>44. ASSUME NEW b \in Builders, CloseFiles(b) PROVE TypeOK'
  BY <1>44 DEF CloseFiles, Pcs
<1>45. ASSUME NEW b \in Builders, CloseTwice(b) PROVE TypeOK'
  BY <1>45, RaiseType DEF CloseTwice, Running, Pcs, Exceptions
<1>46. QED
  BY <1>1, <1>2, <1>3, <1>4, <1>5, <1>6, <1>7, <1>8, <1>9, <1>10, <1>11,
     <1>12, <1>13, <1>14, <1>15, <1>16, <1>17, <1>18, <1>19, <1>20, <1>21,
     <1>22, <1>23, <1>24, <1>25, <1>26, <1>27, <1>28, <1>29, <1>30, <1>31,
     <1>32, <1>33, <1>34, <1>35, <1>36, <1>37, <1>38, <1>39, <1>40, <1>41, <1>42, <1>43,
     <1>44, <1>45 DEF Next, Step,
     Disturbance, Prepares, Assembles, Publishes, Leaves

\* What an exception leaves true, wherever it is raised and whatever it is.
LEMMA RaiseOwnership ==
  ASSUME IInv, NEW b \in Builders, pc[b] \in Running, NEW e \in Exceptions,
         Raise(b, e), UNCHANGED <<synced, verified, directory, warned>>,
         e = "CleanupError" => pc[b] \in {"removePreparation", "removePrep"}
  PROVE  Ownership'
<1> USE DEF IInv, TypeOK, Ownership
<1> DEFINE h == Handler(pc[b])
<1>1. /\ pc' = [pc EXCEPT ![b] = h] /\ exc' = [exc EXCEPT ![b] = e]
      /\ UNCHANGED <<synced, verified, output, scratch, disk, warned>>
      /\ late \subseteq late' /\ skipped \subseteq skipped'
      /\ e # "none"
  BY DEF Raise, directory, Exceptions
<1>2. PublishedIsComplete'
  BY <1>1 DEF PublishedIsComplete
<1>3. Gated'
  <2>1. h \in PastVerify => pc[b] \in PastVerify
    BY DEF Handler, RolledBack, PastVerify, Running, Pcs
  <2>2. h # "verify"
    BY DEF Handler
  <2>3. QED
    BY <1>1, <2>1, <2>2 DEF Gated, PastVerify
<1>4. Held'
  <2>1. h \in Holding => pc[b] \in RolledBack
    BY DEF Handler, Holding
  <2>2. QED
    BY <1>1, <2>1 DEF Held, Holding, RolledBack
<1>5. Durable'
  BY <1>1 DEF Durable
<1>6. Cause'
  <2>1. h \notin Straight
    BY DEF Handler, Straight, Unpublished, Holding, Unwinding, WayOut, RolledBack
  <2>2. QED
    BY <1>1, <2>1 DEF Cause
<1>7. Absent'
  <2>1. h \in Unpublished => pc[b] \in Unpublished
    BY DEF Handler, RolledBack, Unpublished, Holding, Unwinding, WayOut, Running, Pcs
  <2>2. h # "syncRollback"
    BY DEF Handler
  <2>3. ASSUME h \in Unwinding, b \notin late'
        PROVE  output # b /\ disk # b
    <3>1. ~TooLate(b) /\ b \notin late
      BY <2>3 DEF Raise
    <3>2. pc[b] \notin Holding \union {"syncRollback", "exited", "killed"}
      BY <2>3, <3>1 DEF TooLate, Handler, RolledBack, Holding, Unwinding, WayOut, Running
    <3>3. pc[b] \in WayOut => exc[b] # "none"
      BY <3>1 DEF TooLate
    <3>4. pc[b] \in Unpublished \/ (pc[b] \in Unwinding /\ exc[b] # "none")
      BY <3>2, <3>3 DEF Unpublished, Unwinding, Running
    <3>5. QED
      BY <3>1, <3>4 DEF Absent
  <2>4. QED
    BY <1>1, <2>1, <2>2, <2>3 DEF Absent
<1>8. Accounted'
  <2>1. \A k \in Skips(pc[b]) : e = "CleanupError" \/ <<k, b>> \in skipped'
    BY DEF Raise
  <2>2. pc[b] \in ProbeEntry => h \in ProbeEntry \/ "probe" \in Skips(pc[b])
    BY DEF Handler, RolledBack, Skips, ProbeEntry
  <2>3. pc[b] \in WorkEntry => h \in WorkEntry \/ "work" \in Skips(pc[b])
    BY DEF Handler, Skips, RolledBack, WorkEntry, PrepEntry, ProbeEntry, Running, Pcs
  <2>4. pc[b] \in PrepEntry =>
          h \in PrepEntry \/ (pc[b] = "removePrep" /\ h = "exited" /\ Skips(pc[b]) = {"prep"})
    <3>1. pc[b] = "removePrep" => h = "exited" /\ Skips(pc[b]) = {"prep"}
      BY DEF Handler, Skips, RolledBack
    <3>2. pc[b] \in PrepEntry /\ pc[b] # "removePrep" => h \in PrepEntry
      BY DEF Handler, RolledBack, PrepEntry, Running, Pcs
    <3>3. QED
      BY <3>1, <3>2
  <2>5. pc[b] \notin {"exited", "killed"}
    BY DEF Running
  <2>6. <<"probe", b>> \in scratch =>
          h \in ProbeEntry \/ b \in warned \/ <<"probe", b>> \in skipped'
    BY <1>1, <2>1, <2>2, <2>5 DEF Accounted, ProbeEntry
  <2>7. <<"work", b>> \in scratch =>
          h \in WorkEntry \/ b \in warned \/ <<"work", b>> \in skipped'
    BY <1>1, <2>1, <2>3, <2>5 DEF Accounted, WorkEntry
  <2>8. <<"prep", b>> \in scratch =>
          \/ h \in PrepEntry \/ <<"prep", b>> \in skipped'
          \/ h = "exited" /\ e = "CleanupError"
    BY <1>1, <2>1, <2>4, <2>5 DEF Accounted
  <2>9. QED
    BY <1>1, <2>6, <2>7, <2>8 DEF Accounted
<1>9. QED
  BY <1>2, <1>3, <1>4, <1>5, <1>6, <1>7, <1>8

LEMMA OwnershipStep == IInv /\ [Next]_vars => Ownership'
<1> SUFFICES ASSUME IInv, [Next]_vars PROVE Ownership'
  OBVIOUS
<1>2. ASSUME NEW b \in Builders, Refuse(b) PROVE Ownership'
  BY <1>2, RaiseOwnership DEF Refuse, Refused, Exceptions, Running, Pcs
<1>31. ASSUME NEW b \in Builders, Failure(b) PROVE Ownership'
  <2>1. PICK e \in Raises(pc[b]) : Raise(b, e)
    BY <1>31 DEF Failure
  <2>2. e \in Exceptions /\ pc[b] \in Running
    BY <2>1, RaisesType, RaisesRunning DEF IInv, TypeOK
  <2>3. e = "CleanupError" => pc[b] \in {"removePreparation", "removePrep"}
    BY <2>1 DEF Raises
  <2>4. QED
    BY <1>31, <2>1, <2>2, <2>3, RaiseOwnership DEF Failure
<1>32. ASSUME NEW b \in Builders, Sigint(b) PROVE Ownership'
  BY <1>32, RaiseOwnership DEF Sigint, Interrupted, Exceptions
<1>33. ASSUME NEW b \in Builders, Sigterm(b) PROVE Ownership'
  BY <1>33, RaiseOwnership DEF Sigterm, Interrupted, Exceptions
<1>45. ASSUME NEW b \in Builders, CloseTwice(b) PROVE Ownership'
  BY <1>45, RaiseOwnership DEF CloseTwice, Exceptions, Running, Pcs
<1> USE OwnersAssumption
    DEF IInv, TypeOK, Ownership, PublishedIsComplete, Gated, Held, Durable, Cause,
        Absent, Accounted, image, history, directory, Goto, Owners, PastVerify,
        Holding, Unwinding, Unpublished, PrepEntry, ProbeEntry, WorkEntry, WayOut,
        Running, Pcs, Straight
<1>1. ASSUME NEW b \in Builders, Start(b) PROVE Ownership'
  BY <1>1 DEF Start
<1>3. ASSUME NEW b \in Builders, CheckOutput(b) PROVE Ownership'
  BY <1>3 DEF CheckOutput, Refused
<1>4. ASSUME NEW b \in Builders, ScanPrep(b) PROVE Ownership'
  BY <1>4 DEF ScanPrep
<1>5. ASSUME NEW b \in Builders, MakePrep(b) PROVE Ownership'
  BY <1>5 DEF MakePrep, Add, Kinds
<1>6. ASSUME NEW b \in Builders, Inspect(b) PROVE Ownership'
  BY <1>6 DEF Inspect
<1>7. ASSUME NEW b \in Builders, Restore(b) PROVE Ownership'
  BY <1>7 DEF Restore
<1>8. ASSUME NEW b \in Builders, ScanWork(b) PROVE Ownership'
  BY <1>8 DEF ScanWork
<1>9. ASSUME NEW b \in Builders, Probe(b) PROVE Ownership'
  BY <1>9 DEF Probe, Add, Kinds
<1>10. ASSUME NEW b \in Builders, Unprobe(b) PROVE Ownership'
  BY <1>10 DEF Unprobe, Remove, Kinds
<1>11. ASSUME NEW b \in Builders, Validate(b) PROVE Ownership'
  BY <1>11 DEF Validate
<1>12. ASSUME NEW b \in Builders, MakeWork(b) PROVE Ownership'
  BY <1>12 DEF MakeWork, Add, Kinds
<1>13. ASSUME NEW b \in Builders, BindWork(b) PROVE Ownership'
  BY <1>13 DEF BindWork
<1>14. ASSUME NEW b \in Builders, Arm(b) PROVE Ownership'
  BY <1>14 DEF Arm
<1>15. ASSUME NEW b \in Builders, SaveHandler(b) PROVE Ownership'
  BY <1>15 DEF SaveHandler
<1>16. ASSUME NEW b \in Builders, Assemble(b) PROVE Ownership'
  BY <1>16 DEF Assemble
<1>17. ASSUME NEW b \in Builders, Sync(b) PROVE Ownership'
  BY <1>17 DEF Sync
<1>18. ASSUME NEW b \in Builders, Verify(b) PROVE Ownership'
  BY <1>18 DEF Verify
<1>19. ASSUME NEW b \in Builders, Link(b) PROVE Ownership'
  BY <1>19 DEF Link, Refused
<1>20. ASSUME NEW b \in Builders, Mark(b) PROVE Ownership'
  BY <1>20 DEF Mark
<1>21. ASSUME NEW b \in Builders, SyncLink(b) PROVE Ownership'
  BY <1>21 DEF SyncLink, FsyncDirectory
<1>22. ASSUME NEW b \in Builders, UnlinkImage(b) PROVE Ownership'
  BY <1>22 DEF UnlinkImage
<1>23. ASSUME NEW b \in Builders, SyncUnlink(b) PROVE Ownership'
  BY <1>23 DEF SyncUnlink, FsyncDirectory
<1>24. ASSUME NEW b \in Builders, Rollback(b) PROVE Ownership'
  BY <1>24 DEF Rollback
<1>25. ASSUME NEW b \in Builders, SyncRollback(b) PROVE Ownership'
  BY <1>25 DEF SyncRollback, FsyncDirectory
<1>26. ASSUME NEW b \in Builders, CloseDirectory(b) PROVE Ownership'
  BY <1>26 DEF CloseDirectory
<1>27. ASSUME NEW b \in Builders, RestoreHandler(b) PROVE Ownership'
  BY <1>27 DEF RestoreHandler
<1>28. ASSUME NEW b \in Builders, RemoveWork(b) PROVE Ownership'
  BY <1>28 DEF RemoveWork, Remove, Kinds
<1>29. ASSUME NEW b \in Builders, RemovePreparation(b) PROVE Ownership'
  BY <1>29 DEF RemovePreparation
<1>30. ASSUME NEW b \in Builders, RemovePrep(b) PROVE Ownership'
  BY <1>30 DEF RemovePrep, Remove, Kinds
<1>34. ASSUME NEW b \in Builders, Kill(b) PROVE Ownership'
  BY <1>34 DEF Kill, Fault
<1>35. ASSUME NEW b \in Builders, OperatorCleans(b) PROVE Ownership'
  BY <1>35 DEF OperatorCleans
<1>36. CASE PowerLoss
  BY <1>36 DEF PowerLoss, Fault
<1>37. CASE Writeback
  BY <1>37 DEF Writeback, FsyncDirectory
<1>38. CASE ForeignAppears
  BY <1>38 DEF ForeignAppears
<1>39. CASE UNCHANGED vars
  BY <1>39 DEF vars
<1>40. ASSUME NEW b \in Builders, TryProbe(b) PROVE Ownership'
  BY <1>40 DEF TryProbe
<1>41. ASSUME NEW b \in Builders, CloseProbe(b) PROVE Ownership'
  BY <1>41 DEF CloseProbe
<1>42. ASSUME NEW b \in Builders, CloseImage(b) PROVE Ownership'
  BY <1>42 DEF CloseImage
<1>43. ASSUME NEW b \in Builders, ForgetImage(b) PROVE Ownership'
  BY <1>43 DEF ForgetImage
<1>44. ASSUME NEW b \in Builders, CloseFiles(b) PROVE Ownership'
  BY <1>44 DEF CloseFiles
<1> HIDE DEF IInv, TypeOK, Ownership, PublishedIsComplete, Gated, Held, Durable, Cause,
        Absent, Accounted, image, history, directory, Goto, Owners, PastVerify,
        Holding, Unwinding, Unpublished, PrepEntry, ProbeEntry, WorkEntry, WayOut,
        Running, Pcs, Straight
<1>46. QED
  BY <1>1, <1>2, <1>3, <1>4, <1>5, <1>6, <1>7, <1>8, <1>9, <1>10, <1>11,
     <1>12, <1>13, <1>14, <1>15, <1>16, <1>17, <1>18, <1>19, <1>20, <1>21,
     <1>22, <1>23, <1>24, <1>25, <1>26, <1>27, <1>28, <1>29, <1>30, <1>31,
     <1>32, <1>33, <1>34, <1>35, <1>36, <1>37, <1>38, <1>39, <1>40, <1>41, <1>42, <1>43,
     <1>44, <1>45 DEF Next, Step,
     Disturbance, Prepares, Assembles, Publishes, Leaves

LEMMA InitIInv == Init => IInv
  BY OwnersAssumption
  DEF Init, IInv, TypeOK, Ownership, PublishedIsComplete, Gated, Held, Durable,
      Cause, Straight, Absent, Accounted, Owners, PastVerify, Holding, Unwinding,
      Unpublished, PrepEntry, ProbeEntry, WorkEntry, WayOut, Running, Pcs, Exceptions, Kinds

\* Every reachable state satisfies the inductive invariant.
THEOREM Invariance == Spec => []IInv
<1>1. IInv /\ [Next]_vars => IInv'
  BY TypeStep, OwnershipStep DEF IInv
<1>2. QED
  BY InitIInv, <1>1, PTL DEF Spec

\* TypeOK holds of every build whatever the number of builders and faults.
THEOREM TypeCorrect == Spec => []TypeOK
<1>1. IInv => TypeOK
  BY DEF IInv
<1>2. QED
  BY Invariance, <1>1, PTL

\* An image that is found under the output name, or would be after a loss of
\* power, was flushed and verified before publish_no_replace was called.
THEOREM CompletePublication == Spec => []PublishedIsComplete
<1>1. IInv => PublishedIsComplete
  BY DEF IInv, Ownership
<1>2. QED
  BY Invariance, <1>1, PTL

\* A build that returned its result keeps the name against concurrent builds,
\* other programs and losses of power.
THEOREM DurableSuccess == Spec => []SuccessIsDurable
<1>1. IInv => SuccessIsDurable
  BY DEF IInv, Ownership, Durable, SuccessIsDurable, Unwinding
<1>2. QED
  BY Invariance, <1>1, PTL

\* A build that ended with an error has left no image in the directory nor on
\* the disk, unless the exception came where nothing retracts it any more.
THEOREM RetractedFailure == Spec => []FailureRetracts
<1>1. IInv => FailureRetracts
  BY DEF IInv, Ownership, Absent, FailureRetracts, Unwinding
<1>2. QED
  BY Invariance, <1>1, PTL

\* Temporary entries of a build that exited are announced, or their removal was
\* skipped by a signal or by a descriptor that could not be closed.
THEOREM ReportedLeftovers == Spec => []LeftoversReported
<1>1. IInv => LeftoversReported
  BY DEF IInv, Ownership, Accounted, LeftoversReported, Leftovers, Kinds,
         PrepEntry, ProbeEntry, WorkEntry, Running
<1>2. QED
  BY Invariance, <1>1, PTL

(***************************************************************************)
(* ImageBuild implements Publication.  The outcome of a build is read off  *)
(* its pc and exc; a step either leaves all three variables of Publication *)
(* alone or is one of its actions.                                         *)
(***************************************************************************)
Outcomes == [b \in Builders |-> Outcome(b)]

Live == {"idle"} \union Running

LEMMA QuietStep ==
  ASSUME TypeOK, NEW b \in Builders, NEW q \in Live, pc[b] \in Live,
         pc' = [pc EXCEPT ![b] = q],
         \A c \in Builders \ {b} : exc'[c] = exc[c]
  PROVE  Outcomes' = Outcomes
<1>1. \A c \in Builders : Outcome(c)' = Outcome(c)
  BY DEF Outcome, TypeOK, Live, Running, Pcs
<1>2. QED
  BY <1>1 DEF Outcomes

LEMMA EndStep ==
  ASSUME TypeOK, NEW b \in Builders, pc[b] \in Running,
         NEW q \in {"exited", "killed"}, pc' = [pc EXCEPT ![b] = q],
         \A c \in Builders \ {b} : exc'[c] = exc[c],
         q = "killed" \/ exc'[b] # "none"
  PROVE  /\ Outcome(b) = "running"
         /\ Outcomes' = [Outcomes EXCEPT ![b] = "failed"]
<1>1. Outcome(b) = "running"
  BY DEF Outcome, Running, Pcs
<1>2. \A c \in Builders \ {b} : Outcome(c)' = Outcome(c)
  BY DEF Outcome, TypeOK
<1>3. Outcome(b)' = "failed"
  BY DEF Outcome, TypeOK
<1>4. QED
  BY <1>1, <1>2, <1>3 DEF Outcomes

\* Raising an exception ends the build or leaves its outcome open.
LEMMA RaiseStep ==
  ASSUME TypeOK, NEW b \in Builders, pc[b] \in Running, NEW e \in Exceptions,
         Raise(b, e), UNCHANGED <<output, disk>>
  PROVE  [P!Next]_(P!vars)
<1>1. \A c \in Builders \ {b} : exc'[c] = exc[c]
  BY DEF Raise, TypeOK
<1>2. exc'[b] # "none"
  BY DEF Raise, TypeOK, Exceptions
<1>3. CASE Handler(pc[b]) = "exited"
  <2>1. Outcome(b) = "running" /\ Outcomes' = [Outcomes EXCEPT ![b] = "failed"]
    BY <1>1, <1>2, <1>3, EndStep DEF Raise
  <2>2. P!Fail(b)
    BY <2>1 DEF P!Fail, Outcomes
  <2>3. QED
    BY <2>2 DEF P!Next
<1>4. CASE Handler(pc[b]) \in Running
  <2>1. Outcomes' = Outcomes
    BY <1>1, <1>4, QuietStep DEF Raise, Live
  <2>2. QED
    BY <2>1 DEF P!vars, Outcomes
<1>5. QED
  BY <1>3, <1>4, HandlerType

\* Every step of ImageBuild is a step of Publication or leaves its variables
\* alone.
LEMMA Simulation == IInv /\ [Next]_vars => [P!Next]_(P!vars)
<1> SUFFICES ASSUME IInv, [Next]_vars PROVE [P!Next]_(P!vars)
  OBVIOUS
<1>0. TypeOK
  BY DEF IInv
<1>1. ASSUME NEW b \in Builders, Start(b) PROVE [P!Next]_(P!vars)
  <2>1. Outcomes' = Outcomes
    BY <1>0, <1>1, QuietStep DEF Start, Goto, Live, Running, Pcs
  <2>2. QED
    BY <1>1, <2>1 DEF Start, directory, P!vars, Outcomes
<1>2. ASSUME NEW b \in Builders, CheckOutput(b) PROVE [P!Next]_(P!vars)
  <2>1. Outcomes' = Outcomes
    BY <1>0, <1>2, QuietStep DEF CheckOutput, Goto, Live, Running, Pcs
  <2>2. QED
    BY <1>2, <2>1 DEF CheckOutput, directory, P!vars, Outcomes
<1>3. ASSUME NEW b \in Builders, ScanPrep(b) PROVE [P!Next]_(P!vars)
  <2>1. Outcomes' = Outcomes
    BY <1>0, <1>3, QuietStep DEF ScanPrep, Goto, Live, Running, Pcs
  <2>2. QED
    BY <1>3, <2>1 DEF ScanPrep, directory, P!vars, Outcomes
<1>4. ASSUME NEW b \in Builders, MakePrep(b) PROVE [P!Next]_(P!vars)
  <2>1. Outcomes' = Outcomes
    BY <1>0, <1>4, QuietStep DEF MakePrep, Goto, Live, Running, Pcs
  <2>2. QED
    BY <1>4, <2>1 DEF MakePrep, directory, P!vars, Outcomes
<1>5. ASSUME NEW b \in Builders, Inspect(b) PROVE [P!Next]_(P!vars)
  <2>1. Outcomes' = Outcomes
    BY <1>0, <1>5, QuietStep DEF Inspect, Goto, Live, Running, Pcs
  <2>2. QED
    BY <1>5, <2>1 DEF Inspect, directory, P!vars, Outcomes
<1>6. ASSUME NEW b \in Builders, Restore(b) PROVE [P!Next]_(P!vars)
  <2>1. Outcomes' = Outcomes
    BY <1>0, <1>6, QuietStep DEF Restore, Goto, Live, Running, Pcs
  <2>2. QED
    BY <1>6, <2>1 DEF Restore, directory, P!vars, Outcomes
<1>7. ASSUME NEW b \in Builders, ScanWork(b) PROVE [P!Next]_(P!vars)
  <2>1. Outcomes' = Outcomes
    BY <1>0, <1>7, QuietStep DEF ScanWork, Goto, Live, Running, Pcs
  <2>2. QED
    BY <1>7, <2>1 DEF ScanWork, directory, P!vars, Outcomes
<1>8. ASSUME NEW b \in Builders, Probe(b) PROVE [P!Next]_(P!vars)
  <2>1. Outcomes' = Outcomes
    BY <1>0, <1>8, QuietStep DEF Probe, Goto, Live, Running, Pcs
  <2>2. QED
    BY <1>8, <2>1 DEF Probe, directory, P!vars, Outcomes
<1>9. ASSUME NEW b \in Builders, Unprobe(b) PROVE [P!Next]_(P!vars)
  <2>1. Outcomes' = Outcomes
    BY <1>0, <1>9, QuietStep DEF Unprobe, Goto, Live, Running, Pcs
  <2>2. QED
    BY <1>9, <2>1 DEF Unprobe, directory, P!vars, Outcomes
<1>10. ASSUME NEW b \in Builders, Validate(b) PROVE [P!Next]_(P!vars)
  <2>1. Outcomes' = Outcomes
    BY <1>0, <1>10, QuietStep DEF Validate, Goto, Live, Running, Pcs
  <2>2. QED
    BY <1>10, <2>1 DEF Validate, directory, P!vars, Outcomes
<1>11. ASSUME NEW b \in Builders, MakeWork(b) PROVE [P!Next]_(P!vars)
  <2>1. Outcomes' = Outcomes
    BY <1>0, <1>11, QuietStep DEF MakeWork, Goto, Live, Running, Pcs
  <2>2. QED
    BY <1>11, <2>1 DEF MakeWork, directory, P!vars, Outcomes
<1>12. ASSUME NEW b \in Builders, BindWork(b) PROVE [P!Next]_(P!vars)
  <2>1. Outcomes' = Outcomes
    BY <1>0, <1>12, QuietStep DEF BindWork, Goto, Live, Running, Pcs
  <2>2. QED
    BY <1>12, <2>1 DEF BindWork, directory, P!vars, Outcomes
<1>13. ASSUME NEW b \in Builders, Arm(b) PROVE [P!Next]_(P!vars)
  <2>1. Outcomes' = Outcomes
    BY <1>0, <1>13, QuietStep DEF Arm, Goto, Live, Running, Pcs
  <2>2. QED
    BY <1>13, <2>1 DEF Arm, directory, P!vars, Outcomes
<1>14. ASSUME NEW b \in Builders, SaveHandler(b) PROVE [P!Next]_(P!vars)
  <2>1. Outcomes' = Outcomes
    BY <1>0, <1>14, QuietStep DEF SaveHandler, Goto, Live, Running, Pcs
  <2>2. QED
    BY <1>14, <2>1 DEF SaveHandler, directory, P!vars, Outcomes
<1>15. ASSUME NEW b \in Builders, Assemble(b) PROVE [P!Next]_(P!vars)
  <2>1. Outcomes' = Outcomes
    BY <1>0, <1>15, QuietStep DEF Assemble, Goto, Live, Running, Pcs
  <2>2. QED
    BY <1>15, <2>1 DEF Assemble, directory, P!vars, Outcomes
<1>16. ASSUME NEW b \in Builders, Sync(b) PROVE [P!Next]_(P!vars)
  <2>1. Outcomes' = Outcomes
    BY <1>0, <1>16, QuietStep DEF Sync, Goto, Live, Running, Pcs
  <2>2. QED
    BY <1>16, <2>1 DEF Sync, directory, P!vars, Outcomes
<1>17. ASSUME NEW b \in Builders, Verify(b) PROVE [P!Next]_(P!vars)
  <2>1. Outcomes' = Outcomes
    BY <1>0, <1>17, QuietStep DEF Verify, Goto, Live, Running, Pcs
  <2>2. QED
    BY <1>17, <2>1 DEF Verify, directory, P!vars, Outcomes
<1>18. ASSUME NEW b \in Builders, Mark(b) PROVE [P!Next]_(P!vars)
  <2>1. Outcomes' = Outcomes
    BY <1>0, <1>18, QuietStep DEF Mark, Goto, Live, Running, Pcs
  <2>2. QED
    BY <1>18, <2>1 DEF Mark, directory, P!vars, Outcomes
<1>19. ASSUME NEW b \in Builders, UnlinkImage(b) PROVE [P!Next]_(P!vars)
  <2>1. Outcomes' = Outcomes
    BY <1>0, <1>19, QuietStep DEF UnlinkImage, Goto, Live, Running, Pcs
  <2>2. QED
    BY <1>19, <2>1 DEF UnlinkImage, directory, P!vars, Outcomes
<1>20. ASSUME NEW b \in Builders, CloseDirectory(b) PROVE [P!Next]_(P!vars)
  <2>1. Outcomes' = Outcomes
    BY <1>0, <1>20, QuietStep DEF CloseDirectory, Goto, Live, Running, Pcs
  <2>2. QED
    BY <1>20, <2>1 DEF CloseDirectory, directory, P!vars, Outcomes
<1>21. ASSUME NEW b \in Builders, RestoreHandler(b) PROVE [P!Next]_(P!vars)
  <2>1. Outcomes' = Outcomes
    BY <1>0, <1>21, QuietStep DEF RestoreHandler, Goto, Live, Running, Pcs
  <2>2. QED
    BY <1>21, <2>1 DEF RestoreHandler, directory, P!vars, Outcomes
<1>22. ASSUME NEW b \in Builders, RemoveWork(b) PROVE [P!Next]_(P!vars)
  <2>1. Outcomes' = Outcomes
    BY <1>0, <1>22, QuietStep DEF RemoveWork, Goto, Live, Running, Pcs
  <2>2. QED
    BY <1>22, <2>1 DEF RemoveWork, directory, P!vars, Outcomes
<1>23. ASSUME NEW b \in Builders, RemovePreparation(b) PROVE [P!Next]_(P!vars)
  <2>1. Outcomes' = Outcomes
    BY <1>0, <1>23, QuietStep DEF RemovePreparation, Goto, Live, Running, Pcs
  <2>2. QED
    BY <1>23, <2>1 DEF RemovePreparation, directory, P!vars, Outcomes
<1>24. ASSUME NEW b \in Builders, OperatorCleans(b) PROVE [P!Next]_(P!vars)
  BY <1>24 DEF OperatorCleans, P!vars, Outcome
<1>25. ASSUME NEW b \in Builders, SyncLink(b) PROVE [P!Next]_(P!vars)
  <2>1. Outcomes' = Outcomes
    BY <1>0, <1>25, QuietStep DEF SyncLink, Goto, Live, Running, Pcs
  <2>2. P!Persist
    BY <1>25, <2>1 DEF SyncLink, FsyncDirectory, P!Persist, Outcomes
  <2>3. QED
    BY <2>2 DEF P!Next
<1>26. ASSUME NEW b \in Builders, SyncUnlink(b) PROVE [P!Next]_(P!vars)
  <2>1. Outcomes' = Outcomes
    BY <1>0, <1>26, QuietStep DEF SyncUnlink, Goto, Live, Running, Pcs
  <2>2. P!Persist
    BY <1>26, <2>1 DEF SyncUnlink, FsyncDirectory, P!Persist, Outcomes
  <2>3. QED
    BY <2>2 DEF P!Next
<1>27. ASSUME NEW b \in Builders, SyncRollback(b) PROVE [P!Next]_(P!vars)
  <2>1. Outcomes' = Outcomes
    BY <1>0, <1>27, QuietStep DEF SyncRollback, Goto, Live, Running, Pcs
  <2>2. P!Persist
    BY <1>27, <2>1 DEF SyncRollback, FsyncDirectory, P!Persist, Outcomes
  <2>3. QED
    BY <2>2 DEF P!Next
<1>28. ASSUME NEW b \in Builders, Link(b) PROVE [P!Next]_(P!vars)
  <2>1. Outcomes' = Outcomes
    BY <1>0, <1>28, QuietStep DEF Link, Goto, Live, Running, Pcs
  <2>2. Outcome(b) = "running"
    BY <1>28 DEF Link, Goto, Outcome
  <2>3. output = NoFile
    BY <1>28 DEF Link, Goto, Refused
  <2>4. P!Publish(b)
    BY <1>28, <2>1, <2>2, <2>3 DEF Link, P!Publish, Outcomes
  <2>5. QED
    BY <2>4 DEF P!Next
<1>29. ASSUME NEW b \in Builders, Rollback(b) PROVE [P!Next]_(P!vars)
  <2>1. Outcomes' = Outcomes
    BY <1>0, <1>29, QuietStep DEF Rollback, Goto, Live, Running, Pcs
  <2>2. Outcome(b) = "running"
    BY <1>29 DEF Rollback, Goto, Outcome
  <2>3. output = b
    BY <1>29 DEF Rollback, Goto, IInv, Ownership, Held, Holding
  <2>4. P!Retract(b)
    BY <1>29, <2>1, <2>2, <2>3 DEF Rollback, P!Retract, Outcomes
  <2>5. QED
    BY <2>4 DEF P!Next
<1>30. ASSUME NEW b \in Builders, RemovePrep(b) PROVE [P!Next]_(P!vars)
  <2>1. pc[b] = "removePrep" /\ pc' = [pc EXCEPT ![b] = "exited"]
        /\ UNCHANGED <<exc, output, disk>>
    BY <1>30 DEF RemovePrep, Goto
  <2>2. CASE exc[b] = "none"
    <3>1. output = b /\ disk = b
      BY <2>1, <2>2 DEF IInv, Ownership, Durable, Unwinding, WayOut
    <3>2. Outcome(b) = "running" /\ Outcome(b)' = "succeeded"
      BY <1>0, <2>1, <2>2 DEF Outcome, TypeOK
    <3>3. \A c \in Builders \ {b} : Outcome(c)' = Outcome(c)
      BY <1>0, <2>1 DEF Outcome, TypeOK
    <3>4. P!Succeed(b)
      BY <2>1, <3>1, <3>2, <3>3 DEF P!Succeed
    <3>5. QED
      BY <3>4 DEF P!Next
  <2>3. CASE exc[b] # "none"
    <3>1. Outcome(b) = "running" /\ Outcomes' = [Outcomes EXCEPT ![b] = "failed"]
      BY <1>0, <2>1, <2>3, EndStep DEF Running, Pcs
    <3>2. P!Fail(b)
      BY <2>1, <3>1 DEF P!Fail, Outcomes
    <3>3. QED
      BY <3>2 DEF P!Next
  <2>4. QED
    BY <2>2, <2>3
<1>31. ASSUME NEW b \in Builders, Refuse(b) PROVE [P!Next]_(P!vars)
  <2>1. pc[b] \in Running
    BY <1>31 DEF Refuse, Refused, Running, Pcs
  <2>2. QED
    BY <1>0, <1>31, <2>1, RaiseStep DEF Refuse, directory, Exceptions
<1>32. ASSUME NEW b \in Builders, Failure(b) PROVE [P!Next]_(P!vars)
  <2>1. PICK e \in Raises(pc[b]) : Raise(b, e)
    BY <1>32 DEF Failure
  <2>2. e \in Exceptions /\ pc[b] \in Running
    BY <1>0, <2>1, RaisesType, RaisesRunning DEF TypeOK
  <2>3. QED
    BY <1>0, <1>32, <2>1, <2>2, RaiseStep DEF Failure, directory
<1>33. ASSUME NEW b \in Builders, Sigint(b) PROVE [P!Next]_(P!vars)
  BY <1>0, <1>33, RaiseStep DEF Sigint, Interrupted, directory, Exceptions
<1>34. ASSUME NEW b \in Builders, Sigterm(b) PROVE [P!Next]_(P!vars)
  BY <1>0, <1>34, RaiseStep DEF Sigterm, Interrupted, directory, Exceptions
<1>35. ASSUME NEW b \in Builders, Kill(b) PROVE [P!Next]_(P!vars)
  <2>1. Outcome(b) = "running" /\ Outcomes' = [Outcomes EXCEPT ![b] = "failed"]
    BY <1>0, <1>35, EndStep DEF Kill
  <2>2. P!Fail(b)
    BY <1>35, <2>1 DEF Kill, directory, P!Fail, Outcomes
  <2>3. QED
    BY <2>2 DEF P!Next
<1>36. CASE PowerLoss
  <2> DEFINE S == {b \in Builders : pc[b] \in Running}
  <2>1. \A b \in S : Outcome(b) = "running" /\ Outcome(b)' = "failed"
    BY <1>0, <1>36 DEF PowerLoss, Outcome, TypeOK, Running, Pcs
  <2>2. \A b \in Builders \ S : Outcome(b)' = Outcome(b)
    BY <1>0, <1>36 DEF PowerLoss, Outcome, TypeOK, Running, Pcs
  <2>3. Outcomes' = [b \in Builders |-> IF b \in S THEN "failed" ELSE Outcomes[b]]
    BY <2>1, <2>2 DEF Outcomes
  <2>4. S \in SUBSET {b \in Builders : Outcomes[b] = "running"}
    BY <2>1 DEF Outcomes
  <2>5. P!Crash
    BY <1>36, <2>3, <2>4 DEF PowerLoss, P!Crash, Outcomes
  <2>6. QED
    BY <2>5 DEF P!Next
<1>37. CASE Writeback
  <2>1. P!Persist
    BY <1>37 DEF Writeback, FsyncDirectory, P!Persist, Outcome
  <2>2. QED
    BY <2>1 DEF P!Next
<1>38. CASE ForeignAppears
  <2>1. P!Appear
    BY <1>38 DEF ForeignAppears, P!Appear, Outcome
  <2>2. QED
    BY <2>1 DEF P!Next
<1>39. CASE UNCHANGED vars
  BY <1>39 DEF vars, P!vars, Outcome
<1>40. ASSUME NEW b \in Builders, TryProbe(b) PROVE [P!Next]_(P!vars)
  <2>1. Outcomes' = Outcomes
    BY <1>0, <1>40, QuietStep DEF TryProbe, Goto, Live, Running, Pcs
  <2>2. QED
    BY <1>40, <2>1 DEF TryProbe, directory, P!vars, Outcomes
<1>41. ASSUME NEW b \in Builders, CloseProbe(b) PROVE [P!Next]_(P!vars)
  <2>1. Outcomes' = Outcomes
    BY <1>0, <1>41, QuietStep DEF CloseProbe, Goto, Live, Running, Pcs
  <2>2. QED
    BY <1>41, <2>1 DEF CloseProbe, directory, P!vars, Outcomes
<1>42. ASSUME NEW b \in Builders, CloseImage(b) PROVE [P!Next]_(P!vars)
  <2>1. Outcomes' = Outcomes
    BY <1>0, <1>42, QuietStep DEF CloseImage, Goto, Live, Running, Pcs
  <2>2. QED
    BY <1>42, <2>1 DEF CloseImage, directory, P!vars, Outcomes
<1>43. ASSUME NEW b \in Builders, ForgetImage(b) PROVE [P!Next]_(P!vars)
  <2>1. Outcomes' = Outcomes
    BY <1>0, <1>43, QuietStep DEF ForgetImage, Goto, Live, Running, Pcs
  <2>2. QED
    BY <1>43, <2>1 DEF ForgetImage, directory, P!vars, Outcomes
<1>44. ASSUME NEW b \in Builders, CloseFiles(b) PROVE [P!Next]_(P!vars)
  <2>1. Outcomes' = Outcomes
    BY <1>0, <1>44, QuietStep DEF CloseFiles, Goto, Live, Running, Pcs
  <2>2. QED
    BY <1>44, <2>1 DEF CloseFiles, directory, P!vars, Outcomes
<1>45. ASSUME NEW b \in Builders, CloseTwice(b) PROVE [P!Next]_(P!vars)
  BY <1>0, <1>45, RaiseStep DEF CloseTwice, directory, Running, Pcs, Exceptions
<1>46. QED
  BY <1>1, <1>2, <1>3, <1>4, <1>5, <1>6, <1>7, <1>8, <1>9, <1>10, <1>11,
     <1>12, <1>13, <1>14, <1>15, <1>16, <1>17, <1>18, <1>19, <1>20, <1>21,
     <1>22, <1>23, <1>24, <1>25, <1>26, <1>27, <1>28, <1>29, <1>30, <1>31,
     <1>32, <1>33, <1>34, <1>35, <1>36, <1>37, <1>38, <1>39, <1>40,
     <1>41, <1>42, <1>43, <1>44, <1>45
  DEF Next, Step, Disturbance, Prepares, Assembles, Publishes, Leaves

\* The builders share the output name as Publication says: nobody takes it from
\* its owner, and a success is never undone.
THEOREM Refinement == Spec => ImplementsPublication
<1>1. Init => P!Init
  BY DEF Init, P!Init, Outcome
<1>2. QED
  BY <1>1, Invariance, Simulation, PTL DEF Spec, P!Spec, ImplementsPublication
=============================================================================
