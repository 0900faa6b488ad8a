----------------------------- MODULE JukeboxFix -----------------------------
(***************************************************************************)
(* jukebox.py: stage_jukebox_fix copies the root image, and                *)
(* apply_jukebox_fix rewrites two immediates in the copy, found by asking  *)
(* debugfs for the block they lie in.  The write is checked through the    *)
(* descriptor and through the file system, and undone when a check fails.  *)
(*                                                                         *)
(* The hunk is the pair of immediates of an add and an adc instruction     *)
(* that subtract a 64-bit correction.  Every step may raise, by itself or  *)
(* because SIGTERM raises BuilderError in it.                              *)
(***************************************************************************)
EXTENDS Integers

CONSTANTS
  LowMod,          \* 2^32, values of a dword
  HighMod,         \* 2^32, values of the high dword
  ImmMod,          \* 2^8, values of adc's immediate
  OemBlockSize,    \* OEM_P10_BLOCK_SIZE
  OemReserved,     \* OEM_P10_RESERVED_BLOCKS
  NonReserved,     \* OEM_NON_RESERVED_CORRECTION_BYTES
  BlockSizes,      \* the block sizes p10 may have
  MaxBlocks        \* bound on the blocks of p10

ASSUME JukeboxAssumption ==
  /\ LowMod \in Nat \ {0} /\ HighMod \in Nat \ {0} /\ ImmMod \in Nat \ {0}
  /\ OemBlockSize \in BlockSizes /\ BlockSizes \subseteq Nat
  /\ NonReserved \in Nat \ {0} /\ OemReserved \in Nat /\ MaxBlocks \in Nat

VARIABLES
  p10,        \* the superblock of the p10 file system that was built
  pc,
  stage,      \* the destination: "absent", "foreign" (not ours) or "own"
  stage0,     \* the destination before the call
  place,      \* what the stage holds at the places bmap may name
  base,       \* history: place without this program's writes
  mapped,     \* the place the hunk was mapped to
  half,       \* immediates written by the pwrite_all under way
  unverified, \* the rollback could not be verified
  raised      \* history: the statements that raised an exception

vars == <<p10, pc, stage, stage0, place, base, mapped, half, unverified, raised>>
files == <<stage, place, base>>
history == <<unverified, raised>>

Hunk == [low : 0 .. LowMod - 1, high : 0 .. ImmMod - 1]

\* The library's hunk, and that of another block bmap might name.
Places == {"target", "elsewhere"}

Correction == p10.reserved * p10.block_size + NonReserved

\* The two's complement of the correction, split into the two immediates.
EncodeTruncating(c) ==
  [low |-> (-c) % LowMod, high |-> (-1 - c \div LowMod) % ImmMod]
Encode(c) ==
  [low |-> (-c) % LowMod, high |-> ((-c) \div LowMod) % ImmMod]

Stock == Encode(OemReserved * OemBlockSize + NonReserved)
Other == [low |-> 0, high |-> 0]
Replacement == Encode(Correction)

Encodable ==
  /\ p10.block_size = OemBlockSize
  /\ p10.reserved <= p10.blocks
  /\ 2 * Correction < LowMod * HighMod
  /\ (-Correction) \div LowMod \in -(ImmMod \div 2) .. ImmMod \div 2 - 1

Init ==
  /\ p10 \in [block_size : BlockSizes, blocks : {MaxBlocks}, reserved : 0 .. MaxBlocks + 1]
  /\ pc = "exists"
  /\ stage \in {"absent", "foreign"} /\ stage0 = stage
  /\ place \in [Places -> {Stock, Other}] /\ base = place
  /\ mapped = "target" /\ half = 0
  /\ unverified = FALSE /\ raised = {}
-----------------------------------------------------------------------------
Goto(from, to) == pc = from /\ pc' = to

\* Every statement raises, the except and the finally clauses included: by
\* itself or because SIGTERM arrives there.
Raising == {"exists", "open", "copy", "release", "close", "encode", "inspect",
            "map", "reopen", "recheck", "write", "sync", "verify", "cat", "caught",
            "rollback", "resync", "reverify", "fsck", "final", "discard"}
Undoing == {"rollback", "resync", "reverify"}

\* The statements after an except clause has been entered or left by which
\* nothing removes the stage any more: the two closes of the copy, and the
\* removal.
Unguarded == {"release", "close", "discard"}

\* The except clause an exception of the step at pc reaches.
HandlerForgettingFinal ==
  CASE pc \in {"exists", "final"} \union Unguarded -> "failed"
    [] pc = "copy" -> "release"
    [] pc \in {"write", "sync", "verify", "cat"} -> "caught"
    [] OTHER -> "discard"
Handler ==
  CASE pc \in {"exists"} \union Unguarded -> "failed"
    [] pc = "copy" -> "release"
    [] pc \in {"write", "sync", "verify", "cat"} -> "caught"
    [] OTHER -> "discard"

Fail ==
  /\ pc \in Raising
  /\ pc' = Handler /\ half' = 0 /\ raised' = raised \union {pc}
  /\ unverified' = (unverified \/ pc \in Undoing)
  /\ UNCHANGED <<p10, files, stage0, mapped>>

\* KeyboardInterrupt is no Exception: neither rollback nor unlink.
Interrupt ==
  /\ pc \in Raising
  /\ pc' = "interrupted"
  /\ UNCHANGED <<p10, files, stage0, mapped, half, history>>

SkipCheckAbsent ==
  /\ Goto("exists", "open")
  /\ UNCHANGED <<p10, files, stage0, mapped, half, history>>

CheckAbsent ==
  /\ stage = "absent" /\ Goto("exists", "open")
  /\ UNCHANGED <<p10, files, stage0, mapped, half, history>>

\* O_CREAT | O_EXCL; the copy is complete before the image is looked at.
Create ==
  /\ stage = "absent" /\ Goto("open", "copy")
  /\ stage' = "own"
  /\ UNCHANGED <<p10, stage0, place, base, mapped, half, history>>

Copy ==
  /\ Goto("copy", "close")
  /\ UNCHANGED <<p10, files, stage0, mapped, half, history>>

\* The except clause closes the descriptor before it removes the stage; when
\* this close raises, the finally clause only closes again.
Release ==
  /\ Goto("release", "discard")
  /\ UNCHANGED <<p10, files, stage0, mapped, half, history>>

\* The finally clause after a copy that succeeded, up to the second try.
Close ==
  /\ Goto("close", "encode")
  /\ UNCHANGED <<p10, files, stage0, mapped, half, history>>

EncodeCorrection ==
  /\ Encodable /\ Goto("encode", "inspect")
  /\ UNCHANGED <<p10, files, stage0, mapped, half, history>>

\* Size and fingerprint of the library, and the bytes at the hunk.
Inspect ==
  /\ place["target"] = Stock /\ Goto("inspect", "map")
  /\ UNCHANGED <<p10, files, stage0, mapped, half, history>>

\* debugfs may answer with any block; an unchanged hunk is not written at all.
Map ==
  /\ Goto("map", IF Replacement = Stock THEN "fsck" ELSE "reopen")
  /\ mapped' \in Places
  /\ UNCHANGED <<p10, files, stage0, half, history>>

\* Same device, inode and size, which says nothing of the contents.
Reopen ==
  /\ Goto("reopen", "recheck")
  /\ UNCHANGED <<p10, files, stage0, mapped, half, history>>

Recheck ==
  /\ place[mapped] = Stock /\ Goto("recheck", "write")
  /\ UNCHANGED <<p10, files, stage0, mapped, half, history>>

\* pwrite_all: the low immediate comes first, and the loop may raise between.
Put(hunk) ==
  /\ half < 2 /\ half' = half + 1
  /\ place' = IF half = 0 THEN [place EXCEPT ![mapped].low = hunk.low]
                          ELSE [place EXCEPT ![mapped].high = hunk.high]
  /\ UNCHANGED <<p10, pc, stage, stage0, base, mapped, history>>

Write == pc = "write" /\ Put(Replacement)

EndWrite ==
  /\ half = 2 /\ Goto("write", "sync") /\ half' = 0
  /\ UNCHANGED <<p10, files, stage0, mapped, history>>

Sync ==
  /\ Goto("sync", "verify")
  /\ UNCHANGED <<p10, files, stage0, mapped, half, history>>

Verify ==
  /\ place[mapped] = Replacement /\ Goto("verify", "cat")
  /\ UNCHANGED <<p10, files, stage0, mapped, half, history>>

\* The library again, through the file system.
CatMapped ==
  /\ place[mapped] = Replacement /\ Goto("cat", "fsck")
  /\ UNCHANGED <<p10, files, stage0, mapped, half, history>>

Cat ==
  /\ place["target"] = Replacement /\ Goto("cat", "fsck")
  /\ UNCHANGED <<p10, files, stage0, mapped, half, history>>

\* The clause that rolls back has been entered, and its try has not.
Caught ==
  /\ Goto("caught", "rollback")
  /\ UNCHANGED <<p10, files, stage0, mapped, half, history>>

Undo == pc = "rollback" /\ Put(Stock)

EndUndo ==
  /\ half = 2 /\ Goto("rollback", "resync") /\ half' = 0
  /\ UNCHANGED <<p10, files, stage0, mapped, history>>

Resync ==
  /\ Goto("resync", "reverify")
  /\ UNCHANGED <<p10, files, stage0, mapped, half, history>>

\* The rollback is complete, and the first exception goes on.
Reverify ==
  /\ place[mapped] = Stock /\ Goto("reverify", "discard")
  /\ UNCHANGED <<p10, files, stage0, mapped, half, history>>

Fsck ==
  /\ Goto("fsck", "final")
  /\ UNCHANGED <<p10, files, stage0, mapped, half, history>>

\* The source is still the same and the stage opens with its size.
Return ==
  /\ Goto("final", "done")
  /\ UNCHANGED <<p10, files, stage0, mapped, half, history>>

\* _unlink_stage removes whatever has the name; a name that is gone is no error.
Discard ==
  /\ Goto("discard", "failed")
  /\ stage' = "absent"
  /\ UNCHANGED <<p10, stage0, place, base, mapped, half, history>>

\* External: a file of this name appears after the check.
ForeignAppears ==
  /\ pc = "open" /\ stage = "absent"
  /\ stage' = "foreign"
  /\ UNCHANGED <<p10, pc, stage0, place, base, mapped, half, history>>

\* External: the library in the stage changes after it was read.
Meddle ==
  /\ pc \in {"reopen", "recheck"}
  /\ place' = [place EXCEPT !["target"] = Other] /\ base' = place'
  /\ UNCHANGED <<p10, pc, stage, stage0, mapped, half, history>>

Next ==
  \/ CheckAbsent \/ Create \/ Copy \/ Release \/ Close \/ EncodeCorrection \/ Inspect \/ Map \/ Reopen \/ Recheck \/ Write \/ EndWrite \/ Sync \/ Verify
  \/ Cat \/ Caught \/ Undo \/ EndUndo \/ Resync \/ Reverify \/ Fsck \/ Return \/ Discard
  \/ Fail \/ Interrupt \/ ForeignAppears \/ Meddle

Spec == Init /\ [][Next]_vars
-----------------------------------------------------------------------------
(***************************************************************************)
(* Properties.                                                             *)
(***************************************************************************)

\* add and adc: what the two instructions leave of a 64-bit total.
SignExtended(i) == IF 2 * i < ImmMod THEN i ELSE HighMod - ImmMod + i

Execute(hunk, total) ==
  LET low == (total % LowMod) + hunk.low
      high == total \div LowMod + SignExtended(hunk.high) + low \div LowMod
  IN (high % HighMod) * LowMod + (low % LowMod)

\* After success the library's instructions subtract the correction of the p10
\* that was built from every total, modulo 2^64, and no other block has changed,
\* although debugfs may name a block of another file with the same bytes.
SuccessCorrects ==
  pc = "done" =>
    /\ place = [base EXCEPT !["target"] = Replacement]
    /\ \A total \in 0 .. LowMod * HighMod - 1 :
         Execute(place["target"], total) = (total - Correction) % (LowMod * HighMod)

\* When apply_jukebox_fix ends, in either way, the fix is there completely or
\* not at all, and in the right place, unless the error says that the rollback
\* could not be verified or a signal arrived between the start of the except
\* clause and its try, where it keeps the rollback from beginning.
AllOrNothing ==
  pc \in {"discard", "failed", "final", "done"} /\ ~unverified /\ "caught" \notin raised =>
    place \in {base, [base EXCEPT !["target"] = Replacement]}

\* A failed call leaves a stage of its own only when an exception was raised in
\* one of three places: in the close that stands before the removal of a failed
\* copy, between a complete copy and the second try (its close, or a signal
\* there), or in the removal itself.  A file that was at the destination before
\* the call survives it: O_EXCL alone would not do, because the failure of open
\* ends in an unlink.
FailureLeavesNoStage ==
  /\ pc = "failed" /\ stage = "own" => raised \intersect Unguarded # {}
  /\ stage0 = "foreign" => stage = "foreign"
=============================================================================
