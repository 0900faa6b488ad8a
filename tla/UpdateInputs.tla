---------------------------- MODULE UpdateInputs ----------------------------
(***************************************************************************)
(* _prepare_update_inputs: the catalog and the three images of an update   *)
(* are opened, each image is compared with the catalog's CRC, the boot and *)
(* root containers are decrypted, all three are restored, and at the end   *)
(* the identity of every file is compared with what it was when opened.    *)
(* Another program may write to the update directory all the while.        *)
(*                                                                         *)
(* File 0 is the catalog, files 1 to Images the images in the order of     *)
(* INPUT_ROLES.  A file is read in Blocks, each of which belongs to one of *)
(* the Releases or is Junk; equal checksums are equal contents.  Of an     *)
(* identity only its timestamps matter: a write stamps the file with the   *)
(* clock, whose ticks are coarser than the steps of the programs.          *)
(***************************************************************************)
EXTENDS Naturals

CONSTANTS
  Images,     \* number of images, three
  Encrypted,  \* the images in a container of their own, boot and root
  Blocks,     \* reads that a pass over a file takes
  Releases,   \* the updates whose files may be in the directory
  Junk,       \* contents of no update
  MaxWrites,  \* bound on the writes of another program
  MaxTime     \* bound on the clock

ASSUME UpdateInputsAssumption ==
  /\ Images \in Nat \ {0} /\ Encrypted \subseteq 1..Images
  /\ Blocks \in Nat \ {0}
  /\ Junk \notin Releases
  /\ MaxWrites \in Nat /\ MaxTime \in Nat

VARIABLES
  block,     \* what the files hold
  stamp,     \* st_mtime_ns and st_ctime_ns of the files
  clock,     \* the time stamps are taken from
  writes,    \* writes so far
  pc, i, k,  \* the statement, the image and the block of its loops
  identity,  \* the stamp each file had when it was opened
  release,   \* the update whose sizes and CRCs the catalog lists
  matches,   \* the CRC agrees so far
  streams,   \* what the decoder wrote: decrypted images that are not unlinked
  stream,    \* contents of the decrypted image
  restored,  \* the restored file systems
  prep,      \* the private directory exists
  refusal,   \* what made it raise: "none", "input" or "tool"
  hasty      \* history: opened in the tick of their last change

directory == <<block, stamp, clock, writes>>
counters == <<pc, i, k>>
checks == <<identity, release, matches, hasty>>
results == <<streams, stream, restored, prep>>
vars == <<directory, counters, checks, results, refusal>>

Files == 0..Images
Pass == 1..Blocks
Content == Releases \union {Junk}
Whole(v) == [b \in Pass |-> v]
NoRelease == Junk
NotOpened == MaxTime + 1

Init ==
  /\ \E v \in [Files -> Content] : block = [f \in Files |-> Whole(v[f])]
  /\ stamp = [f \in Files |-> 0] /\ clock \in 0..MaxTime /\ writes = 0
  /\ pc = "catalog" /\ i = 1 /\ k = 1
  /\ identity = [f \in Files |-> NotOpened]
  /\ release = NoRelease /\ matches = TRUE /\ hasty = {}
  /\ streams = {} /\ stream = Whole(Junk)
  /\ restored = [r \in 1..Images |-> Whole(Junk)]
  /\ prep = FALSE /\ refusal = "none"
-----------------------------------------------------------------------------
At(p) == pc = p
Goto(p) == pc' = p /\ UNCHANGED <<i, k>>
GotoImage(p, r) == pc' = p /\ i' = r /\ k' = 1

\* An exception leaves through the exit stack.
Raise(why) ==
  /\ Goto("remove")
  /\ refusal' = why
  /\ UNCHANGED <<directory, checks, results>>

\* A tool, a limit or a system call fails; the restoring has a finally block.
Fail ==
  /\ pc \notin {"yielded", "remove", "exited"}
  /\ Goto(IF pc = "restore" THEN "unlink" ELSE "remove")
  /\ refusal' = "tool"
  /\ UNCHANGED <<directory, checks, results>>

\* open_regular_read records the identity.
Open(f) ==
  /\ identity' = [identity EXCEPT ![f] = stamp[f]]
  /\ hasty' = IF stamp[f] = clock THEN hasty \union {f} ELSE hasty

\* With the access time in the identity, reading would change it.
UnchangedNorRead(f) == identity[f] = clock

\* assert_unchanged.
Unchanged(f) == stamp[f] = identity[f]
-----------------------------------------------------------------------------
\* _single_catalog_path, the reading and the parsing of the catalog.
ReadCatalog ==
  /\ At("catalog")
  /\ IF block[0] \in {Whole(v) : v \in Releases}
       THEN /\ Open(0) /\ release' = block[0][1]
            /\ GotoImage("open", 1)
            /\ UNCHANGED <<directory, matches, results, refusal>>
       ELSE Raise("input")

\* _open_update_regular and the comparison of the sizes.
OpenSource ==
  /\ At("open")
  /\ Open(i) /\ matches' = TRUE
  /\ GotoImage("crc", i)
  /\ UNCHANGED <<directory, release, results, refusal>>

\* One chunk of crc32_fd.
CrcChunk ==
  /\ At("crc") /\ k <= Blocks
  /\ matches' = (matches /\ block[i][k] = release)
  /\ k' = k + 1
  /\ UNCHANGED <<directory, pc, i, identity, release, hasty, results, refusal>>

CrcEnd ==
  /\ At("crc") /\ k > Blocks
  /\ IF matches
       THEN Goto("recheck") /\ UNCHANGED <<directory, checks, results, refusal>>
       ELSE Raise("input")

\* assert_unchanged, then the next image or the magic of the last one.
Recheck ==
  /\ At("recheck")
  /\ IF Unchanged(i)
       THEN /\ IF i < Images THEN GotoImage("open", i + 1) ELSE Goto("magic")
            /\ UNCHANGED <<directory, checks, results, refusal>>
       ELSE Raise("input")

\* The plain image starts with PARTCLONE_MAGIC.
CheckMagic ==
  /\ At("magic")
  /\ IF block[Images][1] # Junk
       THEN Goto("mkdtemp") /\ UNCHANGED <<directory, checks, results, refusal>>
       ELSE Raise("input")

MakePreparation ==
  /\ At("mkdtemp")
  /\ prep' = TRUE
  /\ Goto("compile")
  /\ UNCHANGED <<directory, checks, streams, stream, restored, refusal>>

RestoreStep(r) == IF r \in Encrypted THEN "decode" ELSE "restore"

\* require_host_tool and compile_decoder.
CompileDecoder ==
  /\ At("compile")
  /\ GotoImage(RestoreStep(1), 1)
  /\ UNCHANGED <<directory, checks, results, refusal>>

\* The decoder reads the container through the opened descriptor.
DecodeBlock ==
  /\ At("decode") /\ k <= Blocks
  /\ stream' = [stream EXCEPT ![k] = block[i][k]]
  /\ streams' = streams \union {i}
  /\ k' = k + 1
  /\ UNCHANGED <<directory, pc, i, checks, restored, prep, refusal>>

\* Its promise: status 0 only for what the trailer vouches for.  A failure of
\* the decoder removes its output.
DecodeEnd ==
  /\ At("decode") /\ k > Blocks
  /\ IF stream \in {Whole(v) : v \in Releases}
       THEN /\ GotoImage("restore", i)
            /\ UNCHANGED <<directory, checks, results, refusal>>
       ELSE /\ Goto("remove") /\ refusal' = "input"
            /\ streams' = streams \ {i}
            /\ UNCHANGED <<directory, checks, stream, restored, prep>>

\* partclone.restore reads the decrypted stream or the plain image.
RestoreBlock ==
  /\ At("restore") /\ k <= Blocks
  /\ restored' = [restored EXCEPT ![i][k] =
                    IF i \in Encrypted THEN stream[k] ELSE block[i][k]]
  /\ k' = k + 1
  /\ UNCHANGED <<directory, pc, i, checks, streams, stream, prep, refusal>>

\* It compares the CRC of every record: a block of no update fails.
RestoreEnd ==
  /\ At("restore") /\ k > Blocks
  /\ Goto("unlink")
  /\ refusal' = IF \E b \in Pass : restored[i][b] = Junk THEN "input" ELSE refusal
  /\ UNCHANGED <<directory, checks, results>>

NextImage ==
  IF refusal # "none" THEN Goto("remove")
  ELSE IF i < Images THEN GotoImage(RestoreStep(i + 1), i + 1)
  ELSE GotoImage("final", 0)

UnlinkNothing ==
  /\ At("unlink")
  /\ NextImage
  /\ UNCHANGED <<directory, checks, results, refusal>>

\* finally: decrypted.unlink, also while the failure of partclone propagates.
UnlinkStream ==
  /\ At("unlink")
  /\ streams' = streams \ {i}
  /\ NextImage
  /\ UNCHANGED <<directory, checks, stream, restored, prep, refusal>>

FinalCheckOfCatalog ==
  /\ At("final")
  /\ IF Unchanged(0) THEN Goto("yielded") /\ UNCHANGED <<directory, checks, results, refusal>>
     ELSE Raise("input")

\* assert_unchanged of the catalog and of every image, one after the other.
FinalCheck ==
  /\ At("final")
  /\ IF Unchanged(i)
       THEN /\ IF i < Images THEN GotoImage("final", i + 1) ELSE Goto("yielded")
            /\ UNCHANGED <<directory, checks, results, refusal>>
       ELSE Raise("input")

\* The caller is done with the restored file systems, or raises.
LeaveContext ==
  /\ At("yielded")
  /\ Goto("remove")
  /\ UNCHANGED <<directory, checks, results, refusal>>

\* _remove_private_tree and the closing of all files.
RemovePreparation ==
  /\ At("remove")
  /\ Goto("exited")
  /\ \/ prep' = FALSE /\ streams' = {}
     \/ UNCHANGED <<prep, streams>>
  /\ UNCHANGED <<directory, checks, stream, restored, refusal>>
-----------------------------------------------------------------------------
(***************************************************************************)
(* The other program, and time.                                            *)
(***************************************************************************)
Overwrite(f) ==
  /\ writes < MaxWrites
  /\ \E b \in Pass, v \in Content : block' = [block EXCEPT ![f][b] = v]
  /\ stamp' = [stamp EXCEPT ![f] = clock]
  /\ writes' = writes + 1
  /\ UNCHANGED <<clock, counters, checks, results, refusal>>

Tick ==
  /\ clock < MaxTime
  /\ clock' = clock + 1
  /\ UNCHANGED <<block, stamp, writes, counters, checks, results, refusal>>

Prepare ==
  \/ ReadCatalog \/ OpenSource \/ CrcChunk \/ CrcEnd \/ Recheck \/ CheckMagic
  \/ MakePreparation \/ CompileDecoder \/ DecodeBlock \/ DecodeEnd
  \/ RestoreBlock \/ RestoreEnd \/ UnlinkStream \/ FinalCheck \/ LeaveContext
  \/ RemovePreparation \/ Fail

Next == Prepare \/ Tick \/ \E f \in Files : Overwrite(f)

Spec == Init /\ [][Next]_vars
-----------------------------------------------------------------------------
OneRelease ==
  At("yielded") => \A r \in (1..Images) \ hasty : restored[r] = Whole(release)

RefusedForAReason ==
  refusal = "input" =>
    \/ writes > 0
    \/ ~\E v \in Releases : \A f \in Files : block[f] = Whole(v)

(***************************************************************************)
(* Whatever is written to the update directory while it is used, what the  *)
(* caller gets is the update its catalog vouches for, all images of the    *)
(* same one; and a directory that holds one whole update and is left alone *)
(* is never said to be wrong or to have changed.  The identity cannot tell *)
(* a change in the tick in which the file was opened, if that was also the *)
(* tick of an earlier change.                                              *)
(***************************************************************************)
DeliversOneUpdate == OneRelease /\ RefusedForAReason

(***************************************************************************)
(* Only one decrypted image takes space at a time, and none while the      *)
(* caller builds: the finally block removes each once it is restored.      *)
(***************************************************************************)
AtMostOneStream ==
  /\ \A r, s \in streams : r = s
  /\ At("yielded") => streams = {}
=============================================================================
