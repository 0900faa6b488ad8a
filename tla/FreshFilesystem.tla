--------------------------- MODULE FreshFilesystem ---------------------------
(***************************************************************************)
(* extfs.py and verifier.py: one file system the program makes itself.     *)
(* create_legacy_ext has mkfs.ext4 make it, debugfs normalise three fields *)
(* of its superblock, and reads the superblock back; _verify_assembled_    *)
(* image reads it once more inside the image, an hour later.  create_swap  *)
(* does the same with mkswap.                                              *)
(*                                                                         *)
(* mkfs.ext4 is another program with its own rules for rounding; Mke2fs is *)
(* what it makes of the arguments it is given.  A tool may also deviate in *)
(* one field, or skip a command, and exit with 0.  Sizes are sectors.      *)
(***************************************************************************)
EXTENDS Layout

CONSTANTS
  OtherSizes,   \* sizes that a file may have other than its partition's
  MaxDeviations \* bound on failures and deviations of tools

ASSUME FreshAssumption == OtherSizes \subseteq Int /\ MaxDeviations \in Nat

VARIABLES
  number, size,
  super,       \* what the first sectors of the file hold
  doing, todo, \* the statement; fields debugfs has not set yet
  deviations

freshVars == <<number, size, super, doing, todo, deviations>>

\* The partitions to make: the swap space and the ext file systems.
Swap == 3
ExtNumbers == {7, 8, 9, 10, 12, 13}

CeilDiv(a, b) == (a + b - 1) \div b
Sectors(block_size) == block_size \div 512
-----------------------------------------------------------------------------
(***************************************************************************)
(* fresh_ext_spec.                                                         *)
(***************************************************************************)
P10Blocks == Number(10).sectors \div Sectors(4096)
P10GroupsWhole == P10Blocks \div 32768
P10Groups == CeilDiv(P10Blocks, 32768)

Canonical4 ==
  [n \in ExtNumbers |->
     CASE n = 7  -> <<393216, 98496, 8208, 32>>
       [] n = 8  -> <<263064, 65808, 7312, 32>>
       [] n = 9  -> <<104420, 26208, 2016, 4>>
       [] n = 10 -> <<P10Blocks, P10Groups * 8160, 8160, 128>>
       [] n = 12 -> <<1050368, 262944, 7968, 128>>
       [] n = 13 -> <<1311488, 328000, 8000, 128>>]

FreshExtSpec(n) ==
  LET p9 == n = 9 IN
  [block_count |-> Canonical4[n][1], inode_count |-> Canonical4[n][2],
   inodes_per_group |-> Canonical4[n][3], journal_mb |-> Canonical4[n][4],
   block_size |-> IF p9 THEN 1024 ELSE 4096,
   blocks_per_group |-> IF p9 THEN 8192 ELSE 32768,
   inode_size |-> IF p9 THEN 128 ELSE 256,
   features |-> <<60, 578, IF p9 THEN 121 ELSE 123>>,
   mount_options |-> 0,
   min_extra |-> IF p9 THEN 0 ELSE 28, want_extra |-> IF p9 THEN 0 ELSE 28]

PartitionSize == Number(number).sectors
IsCanonical == size = PartitionSize
BlockCount == IF IsCanonical THEN FreshExtSpec(number).block_count
              ELSE size \div Sectors(FreshExtSpec(number).block_size)

\* The -O argument, and the bits of the three words its names stand for.
Features(n) ==
  {"has_journal", "ext_attr", "resize_inode", "dir_index", "filetype", "extent",
   "flex_bg", "sparse_super", "huge_file", "uninit_bg", "dir_nlink", "extra_isize"}
  \union (IF n = 9 THEN {} ELSE {"large_file"})
Bits(names) ==
  LET Bit(name, value) == IF name \in names THEN value ELSE 0
  IN <<Bit("has_journal", 4) + Bit("ext_attr", 8) + Bit("resize_inode", 16)
         + Bit("dir_index", 32),
       Bit("filetype", 2) + Bit("extent", 64) + Bit("flex_bg", 512),
       Bit("sparse_super", 1) + Bit("large_file", 2) + Bit("huge_file", 8)
         + Bit("uninit_bg", 16) + Bit("dir_nlink", 32) + Bit("extra_isize", 64)>>
-----------------------------------------------------------------------------
(***************************************************************************)
(* What mkfs.ext4 and mkswap make of their arguments.                      *)
(***************************************************************************)
FirstBlock(block_size) == IF block_size = 1024 THEN 1 ELSE 0

\* Groups of equal size whose inodes fill whole blocks, eight at a time.
RoundInodes(wanted, groups, inode_size, block_size) ==
  LET blocks == CeilDiv(CeilDiv(wanted, groups) * inode_size, block_size)
      inodes == (blocks * block_size) \div inode_size
  IN inodes - (inodes % 8)

\* The powers of 3, 5 and 7, of which no disk here has more groups.  A last
\* group without room for its own tables and fifty blocks is cut off.
Backups == {0, 1, 3, 5, 7, 9, 25, 27, 49, 81, 125, 243, 343, 625, 729, 2187}
CutLastGroup(blocks, s, inodes) ==
  LET first == FirstBlock(s.block_size)
      rest == (blocks - first) % s.blocks_per_group
      groups == CeilDiv(blocks - first, s.blocks_per_group)
      tables == 2 + (inodes * s.inode_size) \div s.block_size
                + (IF groups - 1 \in Backups THEN 1 + s.block_size \div 4 ELSE 0)
  IN IF rest > 0 /\ rest < tables + 50 THEN blocks - rest ELSE blocks

BlockSizes == <<1024, 2048, 4096, 8192, 16384, 32768, 65536>>
Shift(block_size) == CHOOSE k \in 0..6 : BlockSizes[k + 1] = block_size

Mke2fs(s, blocks, wanted, names) ==
  LET groups == CeilDiv(blocks - FirstBlock(s.block_size), s.blocks_per_group)
      inodes == RoundInodes(wanted, groups, s.inode_size, s.block_size)
      count == CutLastGroup(blocks, s, inodes)
  IN [magic |-> TRUE, clean |-> TRUE, shift |-> Shift(s.block_size), uuid |-> "asked",
      block_count |-> count, reserved |-> (count * 5) \div 100,
      first |-> FirstBlock(s.block_size),
      blocks_per_group |-> s.blocks_per_group, inodes_per_group |-> inodes,
      inode_count |-> groups * inodes, inode_size |-> s.inode_size,
      features |-> Bits(names), mount_options |-> 12,
      min_extra |-> IF s.inode_size > 128 THEN 32 ELSE 0,
      want_extra |-> IF s.inode_size > 128 THEN 32 ELSE 0,
      journal_inode |-> 8, journal_mb |-> s.journal_mb,
      \* where the group descriptor and the inode in its table really are
      journal_at |-> <<IF s.block_size = 1024 THEN 2048 ELSE s.block_size, 7>>]

Mkswap(sectors) ==
  [signature |-> TRUE, version |-> 1, last_page |-> sectors \div 8 - 1, bad_pages |-> 0,
   uuid |-> "asked"]

\* Values of a field that are not the one that belongs there.
Wrongs(field, value) ==
  CASE field \in {"magic", "clean", "signature"} -> {~value}
    [] field = "uuid"                            -> {"another", "zero"}
    [] field \in {"features", "journal_at"}      -> {<<0, 0, 0>>}
    [] OTHER                                     -> {value + 7}
Deviants(record, field) ==
  {[record EXCEPT ![field] = wrong] : wrong \in Wrongs(field, record[field])}
-----------------------------------------------------------------------------
(***************************************************************************)
(* parse_superblock and _read_journal_bytes.  A journal looked for in the  *)
(* wrong place has some other size.                                        *)
(***************************************************************************)
JournalAtFirstBlock(s, block_size) ==
  <<s.first * block_size + ((s.journal_inode - 1) \div s.inodes_per_group) * 32,
    (s.journal_inode - 1) % s.inodes_per_group>>
JournalAt(s, block_size) ==
  <<(s.first + 1) * block_size + ((s.journal_inode - 1) \div s.inodes_per_group) * 32,
    (s.journal_inode - 1) % s.inodes_per_group>>
Parses(s) ==
  /\ s.magic /\ s.shift <= 6
  /\ s.journal_inode # 0 => s.inode_size >= 128 /\ s.inodes_per_group > 0
Parse(s) ==
  LET block_size == BlockSizes[s.shift + 1]
  IN [f \in (DOMAIN s \union {"block_size"}) \ {"shift", "magic", "first", "journal_at"} |->
        CASE f = "block_size" -> block_size
          [] f = "journal_mb" ->
               IF s.journal_inode = 0 THEN 0
               ELSE IF JournalAt(s, block_size) = s.journal_at THEN s.journal_mb
               ELSE s.journal_mb + 7
          [] OTHER -> s[f]]
FilesystemSectors(p) == p.block_count * Sectors(p.block_size)

Always == {"block_size", "blocks_per_group", "inode_size", "features", "mount_options",
           "min_extra", "want_extra"}
Agree(p, s, fields) == \A f \in fields : p[f] = s[f]

\* The comparisons at the end of create_legacy_ext.
AsAsked(p) ==
  LET s == FreshExtSpec(number) IN
  /\ p.block_count = BlockCount /\ p.reserved = (BlockCount * 5) \div 100
  /\ Agree(p, s, Always)
  /\ IsCanonical => Agree(p, s, {"inode_count", "inodes_per_group"})
  /\ p.uuid = "asked"
  /\ FilesystemSectors(p) <= size
CreatedUnjournaled(p) == AsAsked(p)
Created(p) == AsAsked(p) /\ p.journal_mb = FreshExtSpec(number).journal_mb

\* Those of the verifier.
AsDefined(p) ==
  LET s == FreshExtSpec(number) IN
  /\ Agree(p, s, Always \union {"inode_count", "block_count", "inodes_per_group", "journal_mb"})
  /\ p.clean
  /\ FilesystemSectors(p) = s.block_count * Sectors(s.block_size)
  /\ FilesystemSectors(p) <= PartitionSize
VerifiedUnreserved(p) == AsDefined(p)
Verified(p) == AsDefined(p) /\ p.reserved = (FreshExtSpec(number).block_count * 5) \div 100

\* The same for the swap header.  create_swap wants the identity it asked
\* for; the verifier, who has not got it, one that is not zero.
SwapHeader(s, sectors) ==
  s.signature /\ s.version = 1 /\ s.last_page = sectors \div 8 - 1 /\ s.bad_pages = 0
SwapCreatedNameless(s) == SwapHeader(s, size)
SwapCreated(s) == SwapHeader(s, size) /\ s.uuid = "asked"
SwapVerified(s) == SwapHeader(s, PartitionSize) /\ s.uuid # "zero"
-----------------------------------------------------------------------------
NotMade == [magic |-> FALSE]

FreshInit ==
  /\ number \in {Swap} \union ExtNumbers
  /\ size \in {PartitionSize} \union (IF number = Swap THEN {} ELSE OtherSizes)
  /\ super = NotMade
  /\ doing = "check" /\ todo = {}
  /\ deviations = 0

Moves(from, to) == doing = from /\ doing' = to
Still == UNCHANGED <<number, size, super, todo, deviations>>

\* Arguments, then O_EXCL and ftruncate.
CheckFresh ==
  /\ Moves("check",
          IF number = Swap THEN "mkswap"
          ELSE IF \/ size <= 0 \/ BlockCount <= 0
                  \/ BlockCount * Sectors(FreshExtSpec(number).block_size) > size
               THEN "failed" ELSE "mkfs")
  /\ Still

\* Without -N the number of inodes follows from a ratio of mkfs's own.
Mkfs ==
  /\ Moves("mkfs", "normalize")
  /\ LET s == FreshExtSpec(number)
         wanted == IF IsCanonical THEN s.inode_count ELSE CeilDiv(BlockCount, 4)
         made == Mke2fs(s, BlockCount, wanted, Features(number))
     IN \/ super' = made /\ deviations' = deviations
        \/ /\ deviations < MaxDeviations /\ deviations' = deviations + 1
           /\ \E f \in DOMAIN made : super' \in Deviants(made, f)
  /\ todo' = {"mount_options", "min_extra", "want_extra"}
  /\ UNCHANGED <<number, size>>

\* set_super_value; debugfs exits with 0 also when it did not do it.
SetField ==
  /\ doing = "normalize" /\ todo # {}
  /\ \E f \in todo :
       /\ todo' = todo \ {f}
       /\ \/ super' = [super EXCEPT ![f] = FreshExtSpec(number)[f]] /\ deviations' = deviations
          \/ deviations < MaxDeviations /\ deviations' = deviations + 1 /\ super' = super
  /\ UNCHANGED <<number, size, doing>>

Normalized ==
  /\ todo = {} /\ Moves("normalize", "compare")
  /\ Still

CompareFresh ==
  /\ Moves("compare", IF Parses(super) /\ Created(Parse(super)) THEN "fsck" ELSE "failed")
  /\ Still

MakeSwap ==
  /\ Moves("mkswap", "compareSwap")
  /\ \/ super' = Mkswap(size) /\ deviations' = deviations
     \/ /\ deviations < MaxDeviations /\ deviations' = deviations + 1
        /\ \E f \in DOMAIN Mkswap(size) : super' \in Deviants(Mkswap(size), f)
  /\ UNCHANGED <<number, size, todo>>

CompareSwap ==
  /\ Moves("compareSwap",
          IF SwapCreated(super) THEN "copy" ELSE "failed")
  /\ Still

\* run_e2fsck_path; whether it minds an unclean file system is not known.
Fsck ==
  /\ doing = "fsck"
  /\ doing' \in {"copy"} \union (IF super.clean THEN {} ELSE {"failed"})
  /\ Still

\* The file is written to before it is copied, or the image after.
Tamper ==
  /\ doing \in {"fsck", "copy", "verify"} /\ deviations < MaxDeviations
  /\ \E f \in DOMAIN super : super' \in Deviants(super, f)
  /\ deviations' = deviations + 1
  /\ UNCHANGED <<number, size, doing, todo>>

\* Into the image; copy_sparse_to_offsets is in SparseCopy.
CopyFresh == Moves("copy", "verify") /\ Still

Verify ==
  /\ Moves("verify",
          IF \/ number = Swap /\ SwapVerified(super)
             \/ number # Swap /\ Parses(super) /\ Verified(Parse(super))
          THEN "verified" ELSE "rejected")
  /\ Still

\* A tool is missing, fails or takes too long; a file cannot be written.
Fail ==
  /\ doing \in {"check", "mkfs", "normalize", "compare", "mkswap", "compareSwap", "fsck"}
  /\ deviations < MaxDeviations /\ deviations' = deviations + 1
  /\ doing' = "failed"
  /\ UNCHANGED <<number, size, super, todo>>

FreshNext ==
  \/ CheckFresh \/ Mkfs \/ SetField \/ Normalized \/ CompareFresh
  \/ MakeSwap \/ CompareSwap
  \/ Fsck \/ Tamper \/ CopyFresh \/ Verify
  \/ Fail

FreshSpec == FreshInit /\ [][FreshNext]_freshVars
-----------------------------------------------------------------------------
(***************************************************************************)
(* The numbers of fresh_ext_spec are the ones mkfs.ext4 arrives at: as     *)
(* long as the tools do what they are asked, no partition of the canonical *)
(* size is refused, neither where it is made nor in the image.             *)
(***************************************************************************)
HonestIsAccepted ==
  doing \in {"failed", "rejected"} => deviations > 0 \/ ~IsCanonical

(***************************************************************************)
(* The two places that check the same file system agree: what is refused   *)
(* after the image was assembled, create_legacy_ext or create_swap would   *)
(* have refused as well, had it been like this then.  The exception is a   *)
(* file system that is not marked clean, which only the verifier looks at. *)
(***************************************************************************)
CheckedTheSame ==
  doing = "rejected" /\ IsCanonical =>
    IF number = Swap THEN ~SwapCreated(super)
    ELSE ~super.clean \/ ~Parses(super) \/ ~Created(Parse(super))

(***************************************************************************)
(* A file system that the program makes is refused for no reason of its    *)
(* own, and only for reasons that both places see.                         *)
(***************************************************************************)
FreshIsAccepted == HonestIsAccepted /\ CheckedTheSame

(***************************************************************************)
(* Whatever the tools did and whatever was written since, a file system in *)
(* a verified image has the values that the firmware expects, is clean,    *)
(* and its last block lies inside its partition.                           *)
(***************************************************************************)
FreshIsAsSpecified ==
  doing = "verified" =>
    IF number = Swap
    THEN [super EXCEPT !.uuid = "asked"] = Mkswap(PartitionSize) /\ super.uuid # "zero"
    ELSE LET s == FreshExtSpec(number)
             made == Mke2fs(s, s.block_count, s.inode_count, Features(number))
             same == DOMAIN made \ {"uuid", "mount_options", "min_extra", "want_extra"}
         IN /\ \A f \in same : super[f] = made[f]
            /\ Agree(super, s, {"mount_options", "min_extra", "want_extra"})
            /\ s.block_count * Sectors(s.block_size) <= Number(number).sectors
=============================================================================
