----------------------------- MODULE ImageBuild -----------------------------
(***************************************************************************)
(* Several invocations of build_image_from_update that share one output    *)
(* directory and one output name, from the first check of the output path  *)
(* to the exit of the process.                                             *)
(*                                                                         *)
(* A builder is one process.  pc names the statement it executes next, exc *)
(* the exception it is unwinding with (or "none"); Handler says where an   *)
(* exception raised at a statement is caught, so every with, try, except   *)
(* and finally of the two functions is in that one table.                  *)
(*                                                                         *)
(* The output name exists twice: output is what the processes see, disk is *)
(* what a loss of power leaves.  Temporary entries survive it at once.     *)
(* The contents of the image are abstracted to two facts: its data was     *)
(* flushed (synced) and _verify_assembled_image accepted it (verified).    *)
(***************************************************************************)
EXTENDS Naturals, FiniteSets

CONSTANTS
  Builders,   \* the processes that may build in this directory
  Foreign,    \* owner of an output file that no builder made
  NoFile,     \* the output name is free
  MaxFaults   \* bound on signals, kills and losses of power

ASSUME OwnersAssumption ==
  /\ Foreign \notin Builders
  /\ NoFile \notin Builders
  /\ Foreign # NoFile

ASSUME MaxFaultsAssumption == MaxFaults \in Nat

VARIABLES
  pc,        \* pc[b] : the statement builder b is about to execute
  exc,       \* exc[b] : the exception in flight, the outcome once exited
  armed,     \* builders whose SIGTERM raises BuilderError
  spent,     \* builders whose image_fd names a descriptor that is closed
  synced,    \* builders whose image data is on the disk
  verified,  \* builders whose image passed _verify_assembled_image
  output,    \* who owns the output name in the directory
  scratch,   \* temporary entries of the directory, <<kind, builder>>
  disk,      \* who owns the output name after a loss of power
  warned,    \* history: builders that named a leftover in a warning
  late,      \* history: disturbed where the image can no longer be retracted
  skipped,   \* history: temporary entries whose removal an exception skipped
  faults     \* signals, kills and losses of power so far

vars == <<pc, exc, armed, spent, synced, verified, output, scratch, disk,
          warned, late, skipped, faults>>
image == <<spent, synced, verified>>
history == <<warned, late, skipped>>
directory == <<output, scratch, disk>>

Kinds == {"prep", "work", "probe"}

\* Straight-line order of one build: build_image_from_update, from scanWork on
\* _assemble_prepared_image, from link on publish_no_replace, then the way out.
Pcs ==
  {"idle", "checkOutput", "scanPrep", "makePrep", "inspect", "restore",
   "scanWork", "probe", "tryProbe", "closeProbe", "unprobe", "validate",
   "makeWork", "bindWork", "arm", "saveHandler", "assemble", "sync", "verify",
   "closeImage", "forgetImage",
   "link", "mark", "syncLink", "unlinkImage", "syncUnlink",
   "rollback", "syncRollback", "closeDirectory",
   "finally", "closeFiles", "removeWork", "removePreparation", "removePrep",
   "exited", "killed"}

Running == Pcs \ {"idle", "exited", "killed"}

Exceptions == {"BuilderError", "OSError", "RollbackFailed", "CleanupError",
               "KeyboardInterrupt"}

Owners == Builders \union {Foreign, NoFile}

(***************************************************************************)
(* Where an exception raised at p continues.  bindWork lies between        *)
(* mkdtemp and the assignment of workdir, saveHandler between signal() and *)
(* the assignment of previous_sigterm, forgetImage between os.close and    *)
(* image_fd = -1, mark between os.link and published = True: the finally   *)
(* and except blocks see the variable still as it was.  A close in a       *)
(* finally block stands before the removals of that block, so an exception *)
(* of closeProbe or closeFiles passes them by.                             *)
(***************************************************************************)
\* The statements of publish_no_replace after which published is TRUE.
RolledBackWithoutFirstFsync == {"unlinkImage", "syncUnlink"}
RolledBack == {"syncLink", "unlinkImage", "syncUnlink"}

Handler(p) ==
  CASE p \in {"checkOutput", "scanPrep", "makePrep", "removePrep"} -> "exited"
    [] p \in {"inspect", "removePreparation"}              -> "removePrep"
    [] p = "probe"                                         -> "unprobe"
    [] p = "tryProbe"                                      -> "closeProbe"
    [] p \in {"restore", "scanWork", "closeProbe", "unprobe", "validate",
              "makeWork", "bindWork", "finally", "closeFiles", "removeWork"}
         -> "removePreparation"
    [] p = "saveHandler"                                   -> "closeFiles"
    [] p \in RolledBack                                    -> "rollback"
    [] p \in {"link", "mark", "rollback", "syncRollback"}  -> "closeDirectory"
    [] OTHER                                               -> "finally"

\* The statements that may find something wrong and say so, and those whose
\* OSError (a subprocess.TimeoutExpired likewise) reaches the caller: among
\* them every os.close, whose error may be that of an earlier write.
Reporting ==
  {"checkOutput", "scanPrep", "inspect", "restore", "scanWork", "probe",
   "tryProbe", "validate", "makeWork", "assemble", "verify", "link"}
Failing ==
  {"scanPrep", "makePrep", "inspect", "restore", "scanWork", "closeProbe",
   "validate", "makeWork", "arm", "assemble", "sync", "verify", "closeImage",
   "syncLink", "unlinkImage", "syncUnlink", "closeDirectory", "closeFiles"}

\* The exceptions, other than a signal's, that the statement at p may raise.
RaisesTimeout(p) ==
  IF p \in {"restore", "assemble"} THEN {"TimeoutExpired"} ELSE {}
Raises(p) ==
  (IF p \in Reporting THEN {"BuilderError"} ELSE {})
  \union (IF p \in Failing THEN {"OSError"} ELSE {})
  \union (IF p \in {"rollback", "syncRollback"} THEN {"RollbackFailed"} ELSE {})
  \union (IF p \in {"removePreparation", "removePrep"} THEN {"CleanupError"} ELSE {})

\* The temporary entries that an exception raised at p keeps from being removed.
Skips(p) ==
  CASE p \in {"closeProbe", "unprobe"}                             -> {"probe"}
    [] p \in {"bindWork", "finally", "closeFiles", "removeWork"}   -> {"work"}
    [] p = "removePrep"                                            -> {"prep"}
    [] OTHER                                                       -> {}

\* The way out after a publication that succeeded.
WayOut == {"closeDirectory", "finally", "closeFiles", "removeWork",
           "removePreparation", "removePrep"}

\* An exception raised now leaves the image under its name: published is still
\* FALSE, or the rollback is under way, or it comes after the last fsync.
TooLate(b) ==
  \/ pc[b] \in {"mark", "rollback", "syncRollback"}
  \/ pc[b] \in WayOut /\ exc[b] = "none"

Init ==
  /\ pc = [b \in Builders |-> "idle"]
  /\ exc = [b \in Builders |-> "none"]
  /\ armed = {} /\ spent = {} /\ synced = {} /\ verified = {}
  /\ output \in {NoFile, Foreign}
  /\ scratch = {}
  /\ disk = output
  /\ warned = {} /\ late = {} /\ skipped = {}
  /\ faults = 0
-----------------------------------------------------------------------------
(***************************************************************************)
(* Control flow shared by the steps.                                       *)
(***************************************************************************)
Goto(b, from, to) ==
  /\ pc[b] = from
  /\ pc' = [pc EXCEPT ![b] = to]

\* Raise e at b's present statement.  A close that fails has closed the
\* descriptor all the same; a CleanupError names what it could not remove.
Raise(b, e) ==
  /\ pc' = [pc EXCEPT ![b] = Handler(pc[b])]
  /\ exc' = [exc EXCEPT ![b] = e]
  /\ spent' = IF pc[b] = "closeImage" /\ e = "OSError" THEN spent \union {b}
              ELSE spent
  /\ late' = IF TooLate(b) THEN late \union {b} ELSE late
  /\ skipped' = IF e = "CleanupError" THEN skipped
                ELSE skipped \union (Skips(pc[b]) \X {b})

FsyncNothing == UNCHANGED disk
FsyncDirectory == disk' = output

Add(kind, b) == scratch' = scratch \union {<<kind, b>>}

Remove(kind, b) == scratch' = scratch \ {<<kind, b>>}

Leftovers(b) == {k \in Kinds : <<k, b>> \in scratch}

-----------------------------------------------------------------------------
(***************************************************************************)
(* build_image_from_update up to the assembly.                             *)
(***************************************************************************)
Start(b) ==
  /\ Goto(b, "idle", "checkOutput")
  /\ UNCHANGED <<exc, armed, image, directory, history, faults>>

\* What validate_new_output_path, the two scans of the directory and os.link
\* refuse: an output that exists, and a preparation or build directory, be it
\* stale or that of a running build.
Present(kind) == \E c \in Builders : <<kind, c>> \in scratch

Refused(b) ==
  CASE pc[b] = "checkOutput" -> output # NoFile
    [] pc[b] = "scanPrep"    -> Present("prep")
    [] pc[b] = "scanWork"    -> output # NoFile \/ Present("work")
    [] pc[b] = "link"        -> output # NoFile
    [] OTHER                 -> FALSE

RefuseButWaitForWork(b) ==
  /\ Refused(b)
  /\ pc[b] # "scanWork"
  /\ Raise(b, "BuilderError")
  /\ UNCHANGED <<armed, synced, verified, directory, warned, faults>>

Refuse(b) ==
  /\ Refused(b)
  /\ Raise(b, "BuilderError")
  /\ UNCHANGED <<armed, synced, verified, directory, warned, faults>>

\* validate_new_output_path and the checks of the arguments before it.
CheckOutput(b) ==
  /\ ~Refused(b)
  /\ Goto(b, "checkOutput", "scanPrep")
  /\ UNCHANGED <<exc, armed, image, directory, history, faults>>

\* _preflight_update_output_directory.
ScanPrep(b) ==
  /\ ~Refused(b)
  /\ Goto(b, "scanPrep", "makePrep")
  /\ UNCHANGED <<exc, armed, image, directory, history, faults>>

MakePrep(b) ==
  /\ Goto(b, "makePrep", "inspect")
  /\ Add("prep", b)
  /\ UNCHANGED <<exc, armed, image, output, disk, history, faults>>

\* _prepare_update_inputs: catalog and CRC checks, then the private directory
\* and everything restored into it.
Inspect(b) ==
  /\ Goto(b, "inspect", "restore")
  /\ UNCHANGED <<exc, armed, image, directory, history, faults>>

Restore(b) ==
  /\ Goto(b, "restore", "scanWork")
  /\ UNCHANGED <<exc, armed, image, directory, history, faults>>
-----------------------------------------------------------------------------
(***************************************************************************)
(* _assemble_prepared_image.                                               *)
(***************************************************************************)
\* The second validate_new_output_path, then the scan of the directory.
ScanWork(b) ==
  /\ ~Refused(b)
  /\ Goto(b, "scanWork", "probe")
  /\ UNCHANGED <<exc, armed, image, directory, history, faults>>

\* os.open of the probe; without it there is nothing to close.
Probe(b) ==
  /\ Goto(b, "probe", "tryProbe")
  /\ Add("probe", b)
  /\ UNCHANGED <<exc, armed, image, output, disk, history, faults>>

\* The sparse file and the hardlink.
TryProbe(b) ==
  /\ Goto(b, "tryProbe", "closeProbe")
  /\ UNCHANGED <<exc, armed, image, directory, history, faults>>

\* os.close, the first statement of the probe's finally block.
CloseProbe(b) ==
  /\ Goto(b, "closeProbe", "unprobe")
  /\ UNCHANGED <<exc, armed, image, directory, history, faults>>

UnprobeSilently(b) ==
  /\ Goto(b, "unprobe", IF exc[b] = "none" THEN "validate" ELSE "removePreparation")
  /\ Remove("probe", b) \/ UNCHANGED scratch
  /\ UNCHANGED <<exc, armed, image, output, disk, history, faults>>

\* The rest of the finally block: an unlink that fails is a warning only.
Unprobe(b) ==
  /\ Goto(b, "unprobe", IF exc[b] = "none" THEN "validate" ELSE "removePreparation")
  /\ \/ Remove("probe", b) /\ UNCHANGED warned
     \/ /\ <<"probe", b>> \in scratch
        /\ warned' = warned \union {b}
        /\ UNCHANGED scratch
  /\ UNCHANGED <<exc, armed, image, output, disk, late, skipped, faults>>

Validate(b) ==
  /\ Goto(b, "validate", "makeWork")
  /\ UNCHANGED <<exc, armed, image, directory, history, faults>>

\* plan_feature_install, then mkdtemp.
MakeWork(b) ==
  /\ Goto(b, "makeWork", "bindWork")
  /\ Add("work", b)
  /\ UNCHANGED <<exc, armed, image, output, disk, history, faults>>

BindWork(b) ==
  /\ Goto(b, "bindWork", "arm")
  /\ UNCHANGED <<exc, armed, image, directory, history, faults>>

\* _install_sigterm_handler.
Arm(b) ==
  /\ Goto(b, "arm", "saveHandler")
  /\ armed' = armed \union {b}
  /\ UNCHANGED <<exc, image, directory, history, faults>>

SaveHandler(b) ==
  /\ Goto(b, "saveHandler", "assemble")
  /\ UNCHANGED <<exc, armed, image, directory, history, faults>>

\* Every write into image.partial.
Assemble(b) ==
  /\ Goto(b, "assemble", "sync")
  /\ UNCHANGED <<exc, armed, image, directory, history, faults>>

SyncLater(b) ==
  /\ Goto(b, "sync", "verify")
  /\ UNCHANGED <<exc, armed, image, directory, history, faults>>

\* os.fsync(image_fd).
Sync(b) ==
  /\ Goto(b, "sync", "verify")
  /\ synced' = synced \union {b}
  /\ UNCHANGED <<exc, armed, spent, verified, directory, history, faults>>

Verify(b) ==
  /\ Goto(b, "verify", "closeImage")
  /\ verified' = verified \union {b}
  /\ UNCHANGED <<exc, armed, spent, synced, directory, history, faults>>

\* os.close(image_fd), then image_fd = -1.
CloseImage(b) ==
  /\ Goto(b, "closeImage", "forgetImage")
  /\ spent' = spent \union {b}
  /\ UNCHANGED <<exc, armed, synced, verified, directory, history, faults>>

ForgetImage(b) ==
  /\ Goto(b, "forgetImage", "link")
  /\ spent' = spent \ {b}
  /\ UNCHANGED <<exc, armed, synced, verified, directory, history, faults>>
-----------------------------------------------------------------------------
(***************************************************************************)
(* publish_no_replace.                                                     *)
(***************************************************************************)
LinkReplacing(b) ==
  /\ Goto(b, "link", "mark")
  /\ output' = b
  /\ UNCHANGED <<exc, armed, image, scratch, disk, history, faults>>

\* os.link never replaces; its FileExistsError is a refusal.
Link(b) ==
  /\ ~Refused(b)
  /\ Goto(b, "link", "mark")
  /\ output' = b
  /\ UNCHANGED <<exc, armed, image, scratch, disk, history, faults>>

\* published = True.
Mark(b) ==
  /\ Goto(b, "mark", "syncLink")
  /\ UNCHANGED <<exc, armed, image, directory, history, faults>>

SyncLink(b) ==
  /\ Goto(b, "syncLink", "unlinkImage")
  /\ FsyncDirectory
  /\ UNCHANGED <<exc, armed, image, output, scratch, history, faults>>

\* os.unlink(temporary_path): an entry of the work directory, not of this one.
UnlinkImage(b) ==
  /\ Goto(b, "unlinkImage", "syncUnlink")
  /\ UNCHANGED <<exc, armed, image, directory, history, faults>>

SyncUnlink(b) ==
  /\ Goto(b, "syncUnlink", "closeDirectory")
  /\ FsyncDirectory
  /\ UNCHANGED <<exc, armed, image, output, scratch, history, faults>>

\* except BaseException: unlink by name, flush, raise again.
Rollback(b) ==
  /\ Goto(b, "rollback", "syncRollback")
  /\ output' = NoFile
  /\ UNCHANGED <<exc, armed, image, scratch, disk, history, faults>>

SyncRollback(b) ==
  /\ Goto(b, "syncRollback", "closeDirectory")
  /\ FsyncDirectory
  /\ UNCHANGED <<exc, armed, image, output, scratch, history, faults>>

\* os.close(directory_fd), the finally block; the result is then returned.
CloseDirectory(b) ==
  /\ Goto(b, "closeDirectory", "finally")
  /\ UNCHANGED <<exc, armed, image, directory, history, faults>>
-----------------------------------------------------------------------------
(***************************************************************************)
(* The way out.                                                            *)
(***************************************************************************)
\* _restore_sigterm_handler, the first statement of finally.
RestoreHandler(b) ==
  /\ Goto(b, "finally", "closeFiles")
  /\ armed' = armed \ {b}
  /\ UNCHANGED <<exc, image, directory, history, faults>>

\* os.close(image_fd) if it is not -1, then stack.close().
CloseFiles(b) ==
  /\ b \notin spent
  /\ Goto(b, "closeFiles", "removeWork")
  /\ UNCHANGED <<exc, armed, image, directory, history, faults>>

\* The same descriptor is closed a second time.
CloseTwice(b) ==
  /\ pc[b] = "closeFiles"
  /\ b \in spent
  /\ Raise(b, "OSError")
  /\ UNCHANGED <<armed, synced, verified, directory, warned, faults>>

\* shutil.rmtree(workdir): an OSError is a warning only.
RemoveWork(b) ==
  /\ Goto(b, "removeWork", "removePreparation")
  /\ \/ Remove("work", b) /\ UNCHANGED warned
     \/ /\ <<"work", b>> \in scratch
        /\ warned' = warned \union {b}
        /\ UNCHANGED scratch
  /\ UNCHANGED <<exc, armed, image, output, disk, late, skipped, faults>>

\* _remove_private_tree, the callback of _prepare_update_inputs.
RemovePreparation(b) ==
  /\ Goto(b, "removePreparation", "removePrep")
  /\ UNCHANGED <<exc, armed, image, directory, history, faults>>

\* TemporaryDirectory.__exit__; exc[b] is now the outcome of the process.
RemovePrep(b) ==
  /\ Goto(b, "removePrep", "exited")
  /\ Remove("prep", b)
  /\ UNCHANGED <<exc, armed, image, output, disk, history, faults>>

\* A statement raises although nothing above refuses: a check of the inputs or
\* of the image failed, or an operation did.
Failure(b) ==
  /\ \E e \in Raises(pc[b]) : Raise(b, e)
  /\ UNCHANGED <<armed, synced, verified, directory, warned, faults>>
-----------------------------------------------------------------------------
(***************************************************************************)
(* The environment.                                                        *)
(***************************************************************************)
Fault == faults < MaxFaults /\ faults' = faults + 1

Interrupted(b, e) ==
  /\ pc[b] \in Running
  /\ Raise(b, e)
  /\ Fault
  /\ UNCHANGED <<armed, synced, verified, directory, warned>>

\* Ctrl-C, at any statement.
Sigint(b) == Interrupted(b, "KeyboardInterrupt")

\* SIGTERM while the handler is installed.
Sigterm(b) == b \in armed /\ Interrupted(b, "BuilderError")

\* SIGTERM without the handler, or SIGKILL: no finally block runs.
Kill(b) ==
  /\ pc[b] \in Running
  /\ pc' = [pc EXCEPT ![b] = "killed"]
  /\ Fault
  /\ UNCHANGED <<exc, armed, image, directory, history>>

PowerLoss ==
  /\ pc' = [b \in Builders |-> IF pc[b] \in Running THEN "killed" ELSE pc[b]]
  /\ output' = disk
  /\ Fault
  /\ UNCHANGED <<exc, armed, image, scratch, disk, history>>

\* The kernel writes the directory back on its own.
Writeback ==
  /\ FsyncDirectory
  /\ disk' # disk
  /\ UNCHANGED <<pc, exc, armed, image, output, scratch, history,
                 faults>>

\* Another program takes the free output name.
ForeignAppears ==
  /\ output = NoFile
  /\ output' = Foreign
  /\ UNCHANGED <<pc, exc, armed, image, scratch, disk, history,
                 faults>>

\* The operator removes what a finished or dead build left behind.
OperatorCleans(b) ==
  /\ pc[b] \in {"exited", "killed"}
  /\ Leftovers(b) # {}
  /\ scratch' = {s \in scratch : s[2] # b}
  /\ UNCHANGED <<pc, exc, armed, image, output, disk, history,
                 faults>>
-----------------------------------------------------------------------------
Prepares(b) ==
  CheckOutput(b) \/ ScanPrep(b) \/ MakePrep(b) \/ Inspect(b) \/ Restore(b)
Assembles(b) ==
  \/ ScanWork(b) \/ Probe(b) \/ TryProbe(b) \/ CloseProbe(b) \/ Unprobe(b)
  \/ Validate(b) \/ MakeWork(b) \/ BindWork(b) \/ Arm(b) \/ SaveHandler(b)
  \/ Assemble(b) \/ Sync(b) \/ Verify(b) \/ CloseImage(b) \/ ForgetImage(b)
Publishes(b) ==
  \/ Link(b) \/ Mark(b) \/ SyncLink(b) \/ UnlinkImage(b) \/ SyncUnlink(b)
  \/ Rollback(b) \/ SyncRollback(b) \/ CloseDirectory(b)
Leaves(b) ==
  \/ RestoreHandler(b) \/ CloseFiles(b) \/ CloseTwice(b) \/ RemoveWork(b)
  \/ RemovePreparation(b) \/ RemovePrep(b)

\* What the interpreter does next when nothing disturbs it.
Step(b) ==
  Refuse(b) \/ Prepares(b) \/ Assembles(b) \/ Publishes(b) \/ Leaves(b)

Disturbance ==
  \/ \E b \in Builders : Sigint(b) \/ Sigterm(b) \/ Kill(b) \/ OperatorCleans(b)
  \/ PowerLoss \/ Writeback \/ ForeignAppears

Next == (\E b \in Builders : Start(b) \/ Step(b) \/ Failure(b)) \/ Disturbance

Spec == Init /\ [][Next]_vars

\* A process that has started keeps executing, and the tools it waits for
\* return.  Nothing obliges a statement to fail.
Fairness == \A b \in Builders : WF_vars(Step(b))

FairSpec == Spec /\ Fairness
-----------------------------------------------------------------------------
(***************************************************************************)
(* Properties.                                                             *)
(***************************************************************************)
TypeOK ==
  /\ pc \in [Builders -> Pcs]
  /\ exc \in [Builders -> Exceptions \union {"none"}]
  /\ armed \subseteq Builders /\ spent \subseteq Builders
  /\ synced \subseteq Builders /\ verified \subseteq Builders
  /\ output \in Owners
  /\ scratch \subseteq Kinds \X Builders
  /\ disk \in Owners
  /\ warned \subseteq Builders /\ late \subseteq Builders
  /\ skipped \subseteq Kinds \X Builders
  /\ faults \in Nat

\* Whatever stops the build, and even after a loss of power, a builder's image
\* is found under the output name only if its data was flushed and the
\* assembled image was verified.
PublishedIsComplete ==
  \A b \in {output, disk} \intersect Builders :
    b \in synced /\ b \in verified

\* A build that returned its result owns the output name now and after any
\* later loss of power; a concurrent build cannot have taken it.
SuccessIsDurable ==
  \A b \in Builders :
    pc[b] = "exited" /\ exc[b] = "none" => output = b /\ disk = b

\* A build that ended with an error has left no image, neither in the
\* directory nor on the disk, unless the exception came where nothing retracts
\* the image any more: a signal between os.link and published = True, a signal
\* or failure within the rollback, or the first exception of the build after
\* the last fsync of the publication, be it a signal, a descriptor that cannot
\* be closed or a directory that cannot be removed.
FailureRetracts ==
  \A b \in Builders :
    pc[b] = "exited" /\ exc[b] # "none" /\ b \notin late
      => output # b /\ disk # b

\* What the code itself expects of a build that ends in a BuilderError: no
\* output exists, neither when it exits nor, as nothing later removes one, when
\* publish_no_replace is through.  It does not hold: see the findings.
FailedBuildLeavesNoOutput ==
  \A b \in Builders :
    pc[b] \in {"finally", "exited"} /\ exc[b] = "BuilderError" => output # b

\* A build that exits leaves a temporary entry only if it said so, in a
\* warning or by ending with the error of the removal, or if the removal was
\* skipped: by a signal during it or between the creation and the try block,
\* or because a descriptor could not be closed before it.
LeftoversReported ==
  \A b \in Builders : \A k \in Leftovers(b) :
    pc[b] = "exited" =>
      \/ <<k, b>> \in skipped
      \/ IF k = "prep" THEN exc[b] = "CleanupError" ELSE b \in warned

\* The output name is never taken from its owner: it is taken while free and
\* freed only by the builder that holds it.
Outcome(b) ==
  CASE pc[b] = "exited" /\ exc[b] = "none"             -> "succeeded"
    [] pc[b] = "exited" /\ exc[b] # "none"             -> "failed"
    [] pc[b] = "killed"                                -> "failed"
    [] OTHER                                           -> "running"

P == INSTANCE Publication WITH
       holder <- output, stable <- disk,
       outcome <- [b \in Builders |-> Outcome(b)]

ImplementsPublication == P!Spec

\* Every build that starts comes to an end, whatever fails on the way and
\* whatever other builds left in the directory.
Terminates ==
  \A b \in Builders :
    pc[b] \in Running ~> pc[b] \in {"exited", "killed"}
=============================================================================
