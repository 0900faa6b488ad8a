# A verification of the Genesis head-unit image builder

This directory holds TLA+ modules that model the image builder in
`image_builder/`, TLC configurations that check them on small instances, and
theorems about them with proofs for TLAPS. `PROJECT.json` says which definition
models which lines, lists the runs, the mutants that show that each property can
fail, the hazards, the theorems and the findings.

## The system

The builder turns an owner's update package into a disk image. It is one Python
process, started anew for every image, that keeps no state between calls except
files. What makes it hard is not its concurrency but what happens around it:
signals that raise exceptions between any two statements, external tools that
fail or half-succeed, other builds and programs in the same directory, power
loss, and inputs that change while they are read.

| Component | State it keeps | Operations | What may go wrong |
|---|---|---|---|
| Image build and publication (`builder.py`, `io_utils.py`, `update_inputs.py`) | names in the output directory, the SIGTERM handler, the exception in flight | check the output path, scan for other builds, make and remove private directories, assemble, flush, verify, link, roll back | interrupts anywhere, kill, power loss, two builds at once, a foreign file under the name, failing cleanups |
| Byte patches (`patches.py`) | recipes, the bytes of a target | read recipes, scan hunks for overlap, classify bytes, revert, patch | files that hold some replacements already, adjacent hunks, foreign bytes |
| Root customization (`features.py`, `patches.py`, `extfs.py`) | the files of the staged root image | preflight, create payloads, replace targets, read back, e2fsck | debugfs that skips a command and still exits with 0, half-done batches, order of payloads and hooks |
| Feature catalog (`features.py`, `patches.py`) | files of the catalog directory, what the loops have collected of them | read recipes and packages, compare files with manifests, validate | a clash of two packages, a file nobody lists, an order of names |
| Feature graph (`features.py`) | requirements between packages | cycle check, dependency order | cycles, shared requirements, recursion without an end |
| Feature planning (`features.py`) | the selection, the chosen variants | closure, exclusions, conflicts, choice of variants, combined preflight | choices that depend on each other and on what was not selected |
| Jukebox storage fix (`jukebox.py`) | the staged copy of the root image | encode the correction, stage, map, write, verify, roll back | borders of the encoding, a wrong block, torn writes, failures while undoing |
| Update container decoder (`resources/decrypt_lg_container.c`) | buffers, digest, output file | check the trailer, read, digest, decrypt, write, compare, clean up | short reads and writes, an input that changes, counters at chunk borders |
| Update input preparation (`update_inputs.py`) | opened sources with their identities, the catalog's records, the preparation directory | parse the catalog, compare CRCs, compile and run the decoder, run partclone, compare identities | a source that changes between the passes, two records for one file, decrypted images that stay |
| Image assembly (`builder.py`, `io_utils.py`) | the stage, the fresh files, the image, hashes | validate sources, stage, customize, hash, copy to offsets | files that change between the passes over them, extents, holes, short writes |
| Partition geometry (`geometry.py`) | the constant layout | validate the definition, encode, write and verify MBR and EBR chain | overlaps, sector numbers relative to two bases, the limits of the old addresses |
| Fresh file systems (`extfs.py`) | new ext and swap files, the command file of debugfs | mkfs.ext4, normalise, populate from a skeleton, audit, compare the superblock | numbers that are not what mkfs rounds to, commands that debugfs skips, manifests that cannot be built |
| Verifier (`verifier.py`) | hashes of partitions | reads headers, hashes and superblocks back | damage between its passes, checks that disagree with those at creation |
| Command line, contracts, errors | none | arguments, report | none |

### How the components interact

`build_image_from_update` enters `_prepare_update_inputs`, a context manager that
owns the preparation directory; inside it, `_assemble_prepared_image` owns the
working directory and the SIGTERM handler. The decoder runs as a child process of
the preparation. The assembly calls `plan_feature_install` on the restored root
image, creates the file systems, stages the root with `stage_jukebox_fix`, edits
the stage with `apply_feature_install`, copies everything into the image, calls
the verifier and at last `publish_no_replace`. They share nothing but files in
the two private directories and the exceptions they raise: any exception of any
component ends the build by the handlers that `ImageBuild` describes.

### What makes each component correct

* Build: only complete, verified images are ever visible under the output name;
  success is durable; failure retracts; leftovers are reported; a build ends.
* Patches: the result is the source with all replacements, from any mixture the
  target may hold; nothing else is accepted, and no mixture is refused.
* Customization: success means everything is installed although debugfs reports
  nothing; a plan that does not fit is refused before the first write; hooks come
  after payloads.
* Catalog: accepted exactly if it keeps the promises that planning and installing rely
  on, across packages and in each of them.
* Graph and planning: exactly cycles are rejected; the plan is the smallest closed
  set, without conflicts and exclusions; variants never contradict each other.
* Jukebox fix: the patched instructions subtract the right number; the fix is
  there completely or not at all; no stage of a failed call stays.
* Update inputs: what the caller gets is one update, the one the catalog vouches for;
  exactly one line vouches for a file; sound inputs are not refused.
* Assembly and verifier: what is published was accepted by e2fsck and, for the root,
  customized; headers are right; honest builds are published.
* Sparse copy: the destination is an exact copy, nothing else is written, and nothing
  at all to a range that holds data.
* Geometry: a definition that passes has no overlaps; a table that verifies leads to
  exactly its partitions.
* Fresh file systems: the numbers agree with mkfs; two checks of one superblock agree;
  a populated file system is what its manifest lists.
* Decoder: exit status 0 means that the sealed payload was written; what is written
  was digested; a failure leaves nothing behind and removes nothing foreign.

## The modules

### ImageBuild, Publication

A builder is one process. `pc[b]` is the statement it executes next and `exc[b]`
the exception it is unwinding with. The nesting of `with`, `try`, `except` and
`finally` in `build_image_from_update`, `_assemble_prepared_image`,
`_preflight_output_directory` and `publish_no_replace` is one operator,
`Handler`, that says where an exception raised at a statement goes on. Between
`mkdtemp` and the assignment of its result, between `signal()` and the assignment
of the previous handler, and between `os.link` and `published = True` there is a
statement of its own, because a signal may come there and the handlers then see
the old value of the variable. Every `os.close` is a statement that may raise: a deferred
write error is reported there, and the close stands before the removals of its
`finally` block (`closeProbe`, `closeFiles`) or after the last fsync (`closeDirectory`).
`spent` says that `image_fd` names a descriptor that is closed already.

`output` is the name in the directory, `disk` the name a loss of power leaves,
`scratch` the temporary entries. Image contents are two facts: flushed and
verified. The signal handler (`Sigterm`), `KeyboardInterrupt` (`Sigint`), `Kill`
and `PowerLoss` are bounded together by `MaxFaults`. Other programs may take a
free output name and an operator may remove leftovers of dead builds.
`warned`, `late` and `skipped` are history variables: the properties that have
exceptions name them through these, so that the exceptions are exact. `late` holds the
builds that met an exception where the image is no longer retracted: between `os.link`
and `published = True`, in the rollback, or after the last fsync (`TooLate`). `skipped`
holds the temporary entries whose removal an exception passed by (`Skips`).

`Publication` is the abstract specification: a name that is taken while free, given
back only by its holder, and success only for the holder of the flushed name.
`ImageBuild` implements it (`ImplementsPublication`), checked by TLC and proved.

### PatchBytes, PatchTarget

`PatchBytes` has the slicing of a hunk and the reference definitions: disjoint
hunks, mixtures of stock and replacement bytes, the patched file. `PatchTarget`
has the three loops, one iteration an action: the overlap scan that compares
neighbours only, the classification that reverts replacements in a copy, and the
writing. Equality of SHA-256 is equality of contents.

### RootEdit

The customization as a sequence of statements, and debugfs as the other actor: it
takes commands from `batch`, and any of them may do nothing or leave garbage
without an error. What the program then believes it has to read back. Contents are
`desired`, `stock` or `garbage`, metadata the set of fields with the wanted value.
A loop's index is `k`. No command before the loop that takes the snapshots touches a
target, so the snapshots are what `fs0` holds.

### Catalog, FeatureCatalog

`Catalog` has what a catalog of patches and features is and when it is sound
(`SoundCatalog`): requirements exist and have no cycle, payloads have places of their
own, variants are alternatives for one target, ids are unique, the fixed patches fit
together. It is what loading promises and what planning assumes, so both modules use it.
`Consistent` is `_build_target_plans`: one source for each target, no overlap, and four sums
over the patches (the bytes of their definitions, the bytes they change, their targets and
hunks) within `Limits`, which the code calls `MAX_SELECTED_PATCH_BYTES` and so on. A patch
that exceeds a limit together with others is refused when it is loaded, but makes a variant
incompatible when a plan is made.

`FeatureCatalog` is `load_feature_catalog` with `load_patch_catalog`: the directory is
read a file or a component an action and refused at the first check that fails. A name
is a sequence of characters, because an order of names is part of the code's checks; the
numbers stand for characters in the order that Python compares them. A file that breaks a
rule that concerns only itself (its JSON, sizes, spelling) is `Junk`. The limits on the
number of patches and on sets of patches are modelled, those on payloads, manifests and the
number of packages, which only refuse a directory as a whole, are left out.

### FeatureGraph

The two depth-first searches with an explicit stack: a frame is a call of `visit`
with the requirements its loop has still to go through. The order in which the
loops take them (sorted, in the code) is left open. One catalog is validated and
one selection resolved.

### FeaturePlan

`plan_feature_install`, one statement or check an action. A patch is its target, the
source file it was made for, the site it changes, an id, and its sizes. An image is, per
target, the source it has, and the patches that are already applied; also which of the
payloads have their directory there, and which are there already. The closure of the
selection is the set `FeatureGraph` shows the search to compute.

### JukeboxFix

`stage_jukebox_fix` with `apply_jukebox_fix` inside. The hunk is the pair of the two
immediates, the first of which is written before the second. debugfs may name the
right block or another one, which may hold the same bytes. Every step may
raise (also because SIGTERM raises in it), those of the except and finally clauses included,
and `Handler` says what an exception of a
step leads to: the rollback, the removal of the stage, or the caller. `raised` holds the
statements that did, so that the properties can name the gaps: the close before the removal of a
failed copy, what lies between the two `try` statements, the removal itself (`Unguarded`), and the
beginning of the clause that rolls back (`caught`).
KeyboardInterrupt passes all clauses, and no property says anything of a call that it ends.
`Meddle` is a writer to the stage between the reading and the check before the write. `Execute`
gives the meaning of the two instructions, against which the encoding is checked.

### Decoder

The C program: short reads and writes are steps of their own, and another program
may change the input at any moment. A byte is what the trailer vouches for or
something else, digest equality is equality of what was digested, and a byte of
output records the counter block it was decrypted with. The trailer's own checks are
one guard; the arithmetic of the selection of its bytes is `Selected`.

### UpdateInputs, UpdateCatalog

`UpdateInputs` is `_prepare_update_inputs`, a statement or a block of a pass an
action, with another program that writes to the update directory. A block of a file
belongs to a release or is junk, so a CRC that agrees is contents that agree. What
matters of an identity is its times: a write stamps the file with a clock whose ticks
are coarser than the steps. `hasty` names the files that were opened in the tick of their
last change, the one case that the identity cannot cover. The update key is opened and
compared like an image and is left out. The decoder is its promise (Decoder), partclone
refuses what belongs to no release.

`UpdateCatalog` is `parse_update_catalog`, one line an action. Fields that no property
tells apart (sizes, flags, the text of numbers) are left out; a path is its parts and
the separator they were written with.

### SparseCopy

Both copies of `io_utils.py`, and the check for zeros before the second, unit by unit:
`lseek` may fail at any call, holes are where the file system says, `pread` and
`pwrite` are short. `copy_sparse_range` and `range_is_zero` are not used by the builder.

### Layout, Geometry

`Layout` has the partitions with the numbers of `geometry.py`. `Geometry` checks the
definition, writes the table a sector an action, copies the payloads between its
sectors, lets something damage a sector, and reads the table back. `Walk` is what a
system does that follows the chain, against which the encoding is checked. The module
check compares hashes of the encoded records with constants, which shows that the
encoder has not changed; what it means is shown here. Observed on the way: the
definition's check does not ask that the first record lies at EXTENDED_BASE, where the MBR
points to (it does, and `LayoutsAssumption` says so), and nobody calls `unallocated_zero_ranges` and `payload_padding_ranges`.

### FreshFilesystem, Skeleton

`FreshFilesystem` is one new file system or the swap space: made, normalised, compared,
copied, verified, with the real numbers of each partition. `Mke2fs` is an external
definition of the rules by which mkfs.ext4 rounds inodes and cuts a last group; where
those of an installed version differ, `HonestIsAccepted` says nothing of it. A tool may
deviate in a field, skip a command or fail; p8 and p10 are also populated before they are
compared, which does not touch the superblock. Of the swap space `create_swap` wants the UUID that
it asked mkswap for (`SwapCreated`), the verifier, which has not got it, one that is not zero
(`SwapVerified`); so a UUID of zero is a deviation of its own. The numbers of the first data block and
of the journal's inode are compared nowhere: that they are right follows from the size of the
journal, which is found through them, and from what `Parse` takes for granted, that a journal
looked for in the wrong place has another size.

`Skeleton` is the manifest, the two batches for debugfs, and the audits. debugfs is
external: it follows links except in the last name of a path, skips what it cannot do, and
exits with 0. A path is followed a link at a time (`FollowLink`), eight times at most, as in
libext2fs, so that no recursion is needed. `Populate` is the list of commands by their number, four
for a directory and three for a link. Four things are accepted in a manifest that cannot be built:

* an entry below a symbolic link, which debugfs does not follow there;
* a target of sixty bytes or more, which debugfs does not show as a fast link;
* a name of more than 255 bytes (`LongNames`): `_SAFE_PATH_COMPONENT` (`extfs.py:48`) has no limit,
  and no path leads to such an entry;
* an owner from 2^31 on (`LargeIds`): `extfs.py:1168` accepts it, debugfs prints it as a negative
  number, and `_DEBUGFS_STAT` (`extfs.py:51`) matches digits only.

All are refused by the audit; the manifests of the repository have none of them. `SkeletonIsBuilt` says
that there is no fifth, as long as the file system has room: debugfs skips a command for which there
is none, which counts as a fault.

### ImageAssembly

What gets into the partitions, with every identity and hash that is compared on the
way, and other programs that write to the files and the image. A content is a body
(some of which e2fsck accepts), the marks of what customized it, and whether its
header is right. `JukeboxFix`, `RootEdit`, `SparseCopy` and `Geometry` are one action each
here, with the promise that their modules show. Two limits, stated by the properties:
from the moment the stage is made until it is opened for the copies, it is opened by its
path three times and nothing ties them together (`exposed`), so that nothing is promised of it then; and of the swap space and
the fresh file systems only the headers are read back.

## The runs

| Run | Instance | Question |
|---|---|---|
| `build_safety` | two builders, one fault | All safety properties of the build and the refinement of Publication. Two builders are what the scans and the exclusive link arbitrate between; a third meets the same states of the directory. One fault at any statement reaches every window; a second signal while unwinding is covered by the proof, which has no bound. The builders are interchangeable (symmetry). |
| `build_liveness` | two builders, no fault | Every build ends. Statements still fail; signals and kills only shorten a build. |
| `build_interrupted` | one builder, one fault | Violated: see the findings. |
| `patch_target` | files of three bytes over two values, one or two hunks | Every file, source and set of hunks. Two hunks can overlap, touch, nest and be apart, three bytes leave a byte outside. |
| `root_edit` | two payloads, two targets | Every initial file system and every outcome of every debugfs command. |
| `features` | see below | The three parts that handle features: what is accepted as a catalog, the two searches, and what is planned. |
| `variants_by_preimage` | as `features` | Violated: see the findings. |
| `patches_by_name` | as `features` | Violated: see the findings. |
| `jukebox_fix` | four-bit dwords, a two-bit immediate, up to 18 blocks of p10 | Corrections on both sides of each border; every failure point; right and wrong blocks. |
| `decoder` | seven bytes, blocks of two, chunks of two blocks, three counters | A chunk border inside the payload, a short last block and chunk, a counter that wraps, a change of the input at any moment. |
| `update` | see below | What `_prepare_update_inputs` hands to its caller, and what `parse_update_catalog` accepts. |
| `image_parts` | see below | Everything between the restored file systems and a verified image. |

Three runs, `features`, `update` and `image_parts`, check several components that share no state and could each have a
run of its own. Their modules `MCFeatures`, `MCUpdate` and `MCImageParts` extend the components
and put them side by side. A variable `part`, chosen at the start, says which of them is at work, so
each is explored with all its behaviours and no product of states arises; the variables of a
component that is not at work hold a value in which its properties are true. The properties are the components'
own, under the names that the theorems state.

| `part` | Instance | Why it is enough |
|---|---|---|
| `graph` | three features, all graphs | Cycles of length two and three, shared and transitive requirements; termination. |
| `plan` | two features, two variants each, a public and a fixed patch, a payload, two sites, two sources | All placements, relations, selections and exclusions up to symmetry, unpatched and once patched images, with and without room for the payload; sizes with which one or both variants are within the limit on changed bytes. |
| `catalog` | up to two packages and four patch files, at most three patches | Every clash between two components, two packages, or a package and the patch directory; every single file missing, changed or in excess; names of which one continues the other; a definition that is too large alone or together with others. |
| `inputs` | a catalog and three images of two blocks, two releases, two writes, a clock of two values | Every mixture of releases and junk at the start, a write before or after any step, failures of every tool. Two writes are what it takes to change a file and change another one back. |
| `catalog` | catalogs of up to three lines, CRCs of three bits (`CrcMod` = 8) | Both spellings of one path, unsafe names, equal numbers, CRCs on each side of the sign bit; three lines are two that collide and one that does not. |
| `copy` | a file of four units, chunks of two | Every pattern of data, zeros and holes; ranges inside, at the end and beyond the file; two destinations; short reads and writes, failing seeks. |
| `geometry` | the real layout, and a disk of ten sectors with two logical partitions, one damaged sector | Every placement of a record or area by a few sectors: overlaps of any two things, also of those that are not neighbours in the definition. |
| `fresh` | all seven partitions, their real numbers, a few sizes that are not their own (`OtherSizes`), two deviations | Exact numbers; a deviation in any field at any time. |
| `skeleton` | up to two directories and two links, a few paths, two faults | Parents and children in both orders, links as parents, dangling and circular ones, two ways to one entry, targets and names that are too long, owners that are too large, names of the system nodes. |
| `assembly` | two fresh file systems, three bodies, every plan, two writes or damages | A change before, between and after any two passes; two equal damages to two copies. |

Deadlock is not checked because all of these programs stop; for the two searches
and the build, that they do so is a property of its own (`GraphEnds`, `Terminates`).

### Fairness

`Terminates` assumes weak fairness of each builder's own next statement: a process
that has started keeps executing and the tools it waits for return. The latter is
what the code relies on (`_run_checked` has no timeout). No fairness is assumed of
failures, signals, writeback, other programs or the operator, so the property also
says that no build waits for another one's directory to vanish. `GraphEnds` assumes weak fairness of the single process: the calls it makes return.

### Mutants

Each property of each passing run has a mutant of one definition, and those with several
conjuncts have more than one. They are written beside the definition they change (`SyncLater`, `IsInstalledButForMetadata`, `CounterFromZero`, ...):
a plausible mistake that makes TLC find the property violated. They take no part in
the specifications.

## The findings

1. **An image stays published although the build reports an error.**
   `publish_no_replace` sets `published = True` in the statement after `os.link`
   (`io_utils.py:387-388`). A SIGTERM between the two becomes a `BuilderError`, the
   rollback is skipped, and the build ends with an error while the image, complete
   and verified, stays under the output name. Run `build_interrupted`. `FailureRetracts`
   states what does hold, with this window and the two others of its kind (the rollback itself,
   and what raises after the last fsync: a signal, a close, a removal) named by `late`.
2. **Variants are not selected by preimage compatibility only.** The docstring of
   `plan_feature_install` (`features.py:219-221`) says they are. `_resolve_all_variants`
   tries each variant together with those already chosen for earlier features, selected or
   not. In the run's trace only the second feature is selected and the first one is
   excluded; the first one's variant that fits the image overlaps the second one's, so the
   second one is refused with "no unique compatible variant" although nothing of the first would
   have been applied. That the public and fixed patches of the whole catalog take part is
   said in a comment (`features.py:815-816`), so the property lets them. Run
   `variants_by_preimage`. `PristineIsPlanned` states what does hold.
3. **A directory of sound patches is refused because of their names.**
   `load_patch_catalog` takes the files in the order of their names with the suffix
   (`patches.py:131`), `_build_target_plans` wants the ids ascending (`patches.py:520`).
   With the ids `x` and `x-y` the orders differ, since `-` comes before `.`: the
   directory, and the packages with it, is refused with "patch recipes are not sorted and
   unique", while the README says that all populated recipes are applied and that their
   file names are the ids (`README.md:32-34`). Run `patches_by_name`. `CatalogIsAsPromised`
   states what does hold.

## The proofs

The theorems hold for every value of the constants under the `ASSUME`s of the
modules. Each follows the same argument: an inductive invariant (`IInv`; where a module
proves several components also `GraphInv`, `ReadInv`, `CatalogInv`, `CopyIInv`, `AssemblyInv`,
`GeometryInv`, `FreshInv`, `ListedInv` and `BuiltInv`), that `Init` implies it, that every action
keeps it (a step for each action), and that it implies the property.

* **ImageBuildProofs.** The property invariants are not inductive: what a builder may
  conclude depends on where it is. `Ownership` adds, per builder, what has happened
  by the statement it is at (flushed and verified past those statements, the name
  held while publishing, no name while not, entries in `scratch` on their way to be removed, named or skipped) and
  for whom `output` and `disk` may stand. `TypeCorrect`, `CompletePublication`,
  `DurableSuccess`, `RetractedFailure`, `ReportedLeftovers`, and `Refinement`: the
  initial states map to initial states of Publication and each step to a step of it
  or to a stutter. Assumes only that `Foreign`, `NoFile` and the builders differ.
* **PatchTargetProofs.** The invariant describes the copy by the loop index: hunks
  before it are processed, the rest is as read. From it follow `PatchedResult`,
  `OnlyMixtures` and `NoFalseRefusal` for every file size, alphabet and number of
  hunks; sortedness carries disjointness from neighbours to all pairs.
* **RootEditProofs.** The invariant says which paths are finished, which one the batch
  is about, and that all others are as they were. `Complete`, `RefusalFirst`,
  `PayloadFirst`, `LeftAlone`, for plans of any length with distinct, disjoint paths.
* **DecoderProofs.** The invariant relates the buffer, the digest and the output to the
  position reached. `TypeCorrect`, `SealedSuccess`, `DigestedWrites`, `CleanFailure`,
  for any payload, block, chunk and counter sizes; `SelectionStaysInRegion` for the
  concrete sizes of the format.
* **FeatureProofs.** Of the graph: the stack is a path of requirements, without repetition; what a
  call on it is done with has been visited or is above it; what has been visited is closed
  and has no cyclic subset. That adding a feature whose requirements are visited keeps the
  last part is the lemma `AcyclicGrows`, which needs no order of the visits and no
  finiteness. `CyclesAreRejected`, `DependenciesComeFirst`, `ClosureIsResolved`. The
  second search does not look for cycles: that it meets none follows from the first.

  Of the plan: the invariant carries what each check has established to the end
  of the plan, and that base and chosen variants are consistent at every moment
  (`BuildNeverFails`, although the final check looks at another set than the trials did).
  `PlanHasWhatWasAsked` also needs `PatchesApart`: ids are unique and no patch has two
  places, so that nothing that was not chosen gets into a plan by another way.
  `PristineImageIsPlanned` is why the order of the components does not matter on an
  unpatched image: as long as all that was chosen was made for it, exactly the variants
  made for it fit (`MadeFits`). All for any finite catalog that is sound by `SoundCatalog`, with
  any limits.
  `PlanTakesTheSearch` joins the two: the closure with which planning goes on is the set
  that the search returns for the same selection.

  Of the loading: `SoundDirectory` says of a directory, without any order, what acceptance
  comes to. The invariant `ReadInv` says of each of the three nested loops that what it is
  through with is sound: the recipes read so far (`PatchesInv`), the packages before the
  current one (`PackagesInv`), of this one the components before the current one (`CurrentInv`). The
  two sets that are collected on the way, ids and targets, are those of exactly what has
  been read (`SlotsInv`, `TargetsInv`), so that a clash is a clash of two things of the directory:
  that is why a refused directory is not sound. `CatalogIsPromised` (`CatalogIsAsPromised`),
  in which an accepted directory is a `SoundCatalog`, which is what the theorems about planning
  assume, and a refused one is not, or has file names in another order than ids. Assumes
  `DirectoriesAssumption`: a directory is finite, the components and members of a manifest are
  lists, a component that is a patch has one member, and patches have sizes. That a sum over a
  part of a set is within the limit when the sum over the set is (`TotalOfSubset`) is what makes
  every plan from a sound catalog small enough; a sum is the number of elements of a disjoint
  union (`Total`), so that it needs no recursion.
* **UpdateProofs.** Of the preparation: a file is *vouched for* while its stamp is the one it was opened
  with and it was not opened hastily: then it has not been written to since. The invariant
  says, pass by pass, that what was read of such a file is the catalog's release, and for
  the final check that what it has passed needs no vouching any more (`OneUpdateIsDelivered`);
  its second half says the same of an update that is left alone. `OneStreamAtMost`.

  Of the catalog: `ReadInv` says which line each record came from and that the lines read
  so far have paths and ids of their own. That no second line of the whole catalog stands for a file,
  also under its other spelling, is then seen from the length at which the loop stops.
  A CRC is stored unsigned; for any width, two signed values within bounds are the same one if the
  stored ones are. `CatalogIsTrusted`. Assumes `LinesAssumption`: the types of a line's fields, and an
  even `CrcMod`.
* **JukeboxFixProofs.** The encoding first: quotient and remainder of a correction fit the two
  immediates, and executing them gives the correction back, for every width and modulus
  (`JukeboxAssumption`). The invariant then says at every statement what the block and the
  stage hold (nothing, the first of the two writes, both) and which clause an exception on its way from there will
  meet. `CorrectedSuccess`, `FixIsAtomic`, `NoStageIsLeft`.
* **ImageProofs.** Five parts.

  The copies: the invariant says how far the loops over extents, chunks and
  short writes are and what each unit of a destination holds by then: the source's before
  that place, what it held after it. `ExactCopy`, `OnlyTargets`, `DirtyIsRefused`, and their
  conjunction that the run checks, `CopiesAreExact`, for any file,
  any answers of `lseek` and any short calls. They assume `CallsAssumption`: there is a
  destination, exactly one for `copy_sparse_range`, and no two overlap.

  The assembly: `AssemblyInv` says of each source that it was accepted and is unchanged as long as its
  version is, of the stage through which tools it has gone, and of the image which parts of
  it hold by now what was accepted; every write of another program either moves a
  version that a later step compares, or falls into the time that the properties name.
  `PublishedImage`, `CustomizedRoot`, `HonestImage`, for any number of fresh file systems and of writes and damages.
  Assumes `SoundAssumption`: e2fsck accepts some of the bodies, and the fresh file systems have names of their own.

  The geometry: the check of the definition compares neighbours after sorting. That this is enough for all
  pairs is shown by the range after the first of a pair that has the smallest set of others between, in place of an induction.
  `Walk` is a recursive function; it is the only function that satisfies its equation
  on the chain, so the chain that was written, which satisfies it, is what is walked
  (`TableIsWalked`, with the old addresses and the ranges of zeros). `LayoutIsDisjoint`.
  Both assume `LayoutsAssumption`, which `geometry.py` meets: sectors are numbers, there
  is a primary and a logical partition, and the first record lies at the base of the extended one.

  The fresh file systems: `FreshInv` says where a file system may be (`PlaceInv`), that what was made
  has the fields of a superblock or swap header (`MadeInv`), what the verifier's verdict means
  (`VerdictInv`), and that as long as nothing deviated the superblock is exactly what mkfs.ext4 makes
  of the arguments, but for the fields that debugfs has not set yet (`UndeviatedInv`).
  `FreshFilesystemsAreAccepted` then needs the arithmetic: for each of the seven partitions the
  inode count, groups and blocks that `fresh_ext_spec` expects are the ones to which mkfs.ext4
  rounds; they are calculated once (`MadeCanonical`, `SpecNumbers`).
  That the verifier refuses nothing else than the creators is one implication between the two lists
  of fields (`CreatedIsVerified`), and for the swap space that the UUID asked for is not zero.
  `VerifiedFilesystemsAreAsSpecified` needs nothing of the making, only what the verifier has compared.
  Both hold for any number of deviations and all sizes a file may have by mistake; they assume
  `FreshAssumption`, the types of the two constants.

  The directories and links: `ListedInv` says that a manifest at work was accepted and that the tree
  consists of nodes. Its heart is `LocateIs`: following any path through any links ends at
  the path itself, nowhere, or at a place of two names or more, since a link that is
  followed has a target with a name in it and a name behind it. So no entry but `/` and `/lost+found`
  themselves is ever found there, and `SkeletonListed` (`SkeletonIsListed`) follows from the audit,
  which is the last to look. `BuiltInv` says that without a fault the tree is the one that the
  commands passed make: which nodes there are, and how far the last one is (`BuiltTree`,
  `NodeAfter`), with a directory above each of them (`HasParents`), so that no path meets a
  link and each command finds what it is for. `SkeletonBuilt` (`SkeletonIsBuilt`). For manifests of any
  length with paths of any depth; they assume `SkeletonAssumption`: the types of the manifests,
  `.` is no safe name, and the names and settings that the program itself writes exist and are
  neither too long nor too large.

Type correctness is a part of every inductive invariant, and a theorem or lemma of its own for
ImageBuild, PatchTarget, RootEdit and Decoder; TLC checks it for ImageBuild.

Of the properties that the runs check, only `Terminates` and `GraphEnds` have no theorem: liveness
under fairness and `ENABLED` are out of the prover's reach. The bounds of the runs (`MaxDeviations`,
`MaxFaults`, `MaxDamage`, `MaxMeddling`, the small sets of names, sizes and manifests) do not bound the
theorems. What a recursive definition computes for every input needs an induction over data that
cannot be written here; the chain of `Geometry` is the exception, because its result can be named
beforehand, and the modules with theorems have no recursive operators. What the external tools do is
in the theorems what the modules say they do.

## Not modelled, and why

* Parsers and formatters: the rules for a single JSON recipe or manifest, the command line,
  reports. Pure functions without state; what they guarantee appears as the assumptions on constants
  and initial states. Of the catalog's parser the spelling of numbers is left out.
* The search for host tools and the compilation of the decoder: one step that succeeds or
  raises.
* mkfs.ext4, mkswap, debugfs, e2fsck, partclone: external; what the modules take for granted
  of them is written down as definitions of their own.
* Timeouts: a tool without one holds the build; `Terminates` assumes that tools return.
* AES, SHA-256 and CRC-32: equality of what they are applied to.

## The plan

Done, in this order: ImageBuild with Publication, PatchTarget, RootEdit, Decoder, with
their proofs; FeatureGraph, FeaturePlan, JukeboxFix; UpdateInputs, UpdateCatalog,
SparseCopy, Layout and Geometry, FreshFilesystem, Skeleton, ImageAssembly; Catalog and
FeatureCatalog, with what FeaturePlan assumes of them; the proofs about FeatureGraph,
FeaturePlan, UpdateInputs and SparseCopy, then about JukeboxFix, UpdateCatalog,
ImageAssembly and Geometry. Last came the proofs about FeatureCatalog, FreshFilesystem and Skeleton.

Left: the limits on payloads, manifests and the number of packages, and what the verifier does
not compare, the contents of the swap space and of the fresh file systems behind their headers.
