-------------------------- MODULE JukeboxFixProofs --------------------------
(***************************************************************************)
(* JukeboxFix for every width of the two immediates, every p10 and every   *)
(* correction: the arithmetic of the two instructions, and what the stage  *)
(* holds at each statement.                                                *)
(***************************************************************************)
EXTENDS JukeboxFix, TLAPS

(***************************************************************************)
(* Division by a positive number, and that quotient and remainder are      *)
(* determined by what they add up to.                                      *)
(***************************************************************************)
LEMMA Division ==
  ASSUME NEW d \in Nat \ {0}, NEW a \in Int
  PROVE  a \div d \in Int /\ a % d \in 0 .. d - 1 /\ a = d * (a \div d) + (a % d)
OBVIOUS

LEMMA NextMultiple ==
  ASSUME NEW d \in Nat \ {0}, NEW p \in Int, NEW q \in Int, p < q
  PROVE  d * p + d <= d * q
<1>1. d * (q - p - 1) >= 0
  OBVIOUS
<1> QED
  BY <1>1

LEMMA Quotient ==
  ASSUME NEW d \in Nat \ {0}, NEW q \in Int, NEW r \in 0 .. d - 1
  PROVE  (d * q + r) \div d = q /\ (d * q + r) % d = r
<1> DEFINE a == d * q + r
<1>1. a \div d \in Int /\ a % d \in 0 .. d - 1 /\ a = d * (a \div d) + (a % d)
  BY Division
<1>2. ~(a \div d < q)
  BY <1>1, NextMultiple
<1>3. ~(q < a \div d)
  BY <1>1, NextMultiple
<1> QED
  BY <1>1, <1>2, <1>3

LEMMA Distributive ==
  ASSUME NEW i \in Int, NEW j \in Int, NEW k \in Int, NEW m \in Int
  PROVE  i * (j * k + m) = (i * j) * k + m * i
OBVIOUS

(***************************************************************************)
(* A two-digit number modulo both: only the upper digit wraps.             *)
(***************************************************************************)
LEMMA TwoDigits ==
  ASSUME NEW L \in Nat \ {0}, NEW H \in Nat \ {0}, NEW x \in Int, NEW y \in 0 .. L - 1
  PROVE  (L * x + y) % (L * H) = (x % H) * L + y
<1> DEFINE q == x \div H
           r == (x % H) * L + y
<1>1. q \in Int /\ x % H \in 0 .. H - 1 /\ x = H * q + (x % H)
  BY Division
<1>2. L * H \in Nat \ {0}
  OBVIOUS
<1>3. r \in 0 .. L * H - 1
  <2>1. L * (x % H) + L <= L * H
    BY <1>1, NextMultiple
  <2>2. L * (x % H) \in Nat
    BY <1>1
  <2> QED
    BY <2>1, <2>2, <1>1
<1> HIDE DEF q
<1>4. L * x + y = (L * H) * q + r
  <2> DEFINE s == x % H
  <2>0. s \in Int /\ x = H * q + s
    BY <1>1
  <2> HIDE DEF s
  <2>1. L * x = L * (H * q + s)
    BY <2>0
  <2>2. L * (H * q + s) = (L * H) * q + s * L
    BY <1>1, <2>0, Distributive
  <2> QED
    BY <2>1, <2>2, <1>1, <2>0 DEF s
<1> HIDE DEF r
<1>5. r = ((L * H) * q + r) % (L * H)
  BY <1>1, <1>2, <1>3, Quotient
<1> QED
  BY <1>4, <1>5 DEF r

LEMMA Wraps ==
  ASSUME NEW H \in Nat \ {0}, NEW x \in Int
  PROVE  (x + H) % H = x % H
<1>1. x \div H \in Int /\ x % H \in 0 .. H - 1 /\ x = H * (x \div H) + (x % H)
  BY Division
<1> DEFINE q == x \div H
           r == x % H
<1>2. x + H = H * (q + 1) + r
  BY <1>1
<1> HIDE DEF q, r
<1>3. (H * (q + 1) + r) % H = r
  <2>1. q + 1 \in Int /\ r \in 0 .. H - 1
    BY <1>1 DEF q, r
  <2> QED
    BY <2>1, Quotient
<1> QED
  BY <1>2, <1>3 DEF r
-----------------------------------------------------------------------------
LEMMA CorrectionType ==
  ASSUME p10 \in [block_size : BlockSizes, blocks : {MaxBlocks}, reserved : 0 .. MaxBlocks + 1]
  PROVE  Correction \in Nat \ {0}
<1>1. p10.block_size \in BlockSizes /\ p10.reserved \in 0 .. MaxBlocks + 1
  OBVIOUS
<1>2. \A b \in BlockSizes, r \in 0 .. MaxBlocks + 1 : r * b \in Nat
  BY JukeboxAssumption
<1>3. p10.reserved * p10.block_size \in Nat
  BY <1>1, <1>2
<1> QED
  BY <1>3, JukeboxAssumption DEF Correction

LEMMA EncodeType ==
  ASSUME NEW c \in Int
  PROVE  Encode(c) \in Hunk
<1>1. (-c) % LowMod \in 0 .. LowMod - 1 /\ (-c) \div LowMod \in Int
  BY Division, JukeboxAssumption
<1>2. ((-c) \div LowMod) % ImmMod \in 0 .. ImmMod - 1
  BY <1>1, Division, JukeboxAssumption
<1> QED
  BY <1>1, <1>2 DEF Encode, Hunk

(***************************************************************************)
(* For a correction that the encoder accepts the sign extension of the     *)
(* upper immediate is the upper digit of its complement.                   *)
(***************************************************************************)
LEMMA Extension ==
  ASSUME NEW c \in Nat \ {0},
         (-c) \div LowMod \in -(ImmMod \div 2) .. ImmMod \div 2 - 1
  PROVE  /\ Encode(c).high # 0
         /\ SignExtended(Encode(c).high) = HighMod + ((-c) \div LowMod)
<1> DEFINE q == (-c) \div LowMod
           r == (-c) % LowMod
<1>1. q \in Int /\ r \in 0 .. LowMod - 1 /\ -c = LowMod * q + r
  BY Division, JukeboxAssumption
<1> HIDE DEF q, r
<1>2. q < 0
  <2>1. SUFFICES ASSUME q >= 0 PROVE FALSE
    BY <1>1
  <2>2. LowMod * q >= 0
    BY <2>1, <1>1, JukeboxAssumption
  <2> QED
    BY <2>2, <1>1, JukeboxAssumption
<1>3. ImmMod \div 2 \in Nat /\ 2 * (ImmMod \div 2) <= ImmMod
  BY JukeboxAssumption
<1>4. 0 < ImmMod + q /\ ImmMod + q < ImmMod /\ 2 * (ImmMod + q) >= ImmMod
  BY <1>1, <1>2, <1>3, JukeboxAssumption DEF q
<1>5. q % ImmMod = ImmMod + q
  <2>1. q = ImmMod * (-1) + (ImmMod + q)
    BY <1>1, JukeboxAssumption
  <2>2. ImmMod + q \in 0 .. ImmMod - 1
    BY <1>1, <1>4, JukeboxAssumption
  <2> DEFINE m == -1
  <2>3. m \in Int
    OBVIOUS
  <2> HIDE DEF m
  <2>4. (ImmMod * m + (ImmMod + q)) % ImmMod = ImmMod + q
    BY <2>2, <2>3, Quotient, JukeboxAssumption
  <2> QED
    BY <2>1, <2>4 DEF m
<1>6. Encode(c).high = ImmMod + q
  BY <1>5 DEF Encode, q
<1> QED
  BY <1>1, <1>4, <1>6, JukeboxAssumption DEF SignExtended, q

(***************************************************************************)
(* The two instructions subtract a correction that the encoder accepts.    *)
(***************************************************************************)
LEMMA Subtracts ==
  ASSUME NEW c \in Nat \ {0},
         (-c) \div LowMod \in -(ImmMod \div 2) .. ImmMod \div 2 - 1,
         NEW t \in Nat
  PROVE  Execute(Encode(c), t) = (t - c) % (LowMod * HighMod)
<1> DEFINE q == (-c) \div LowMod
           r == (-c) % LowMod
           tq == t \div LowMod
           tr == t % LowMod
           low == tr + r
           lq == low \div LowMod
           lr == low % LowMod
<1>1. q \in Int /\ r \in 0 .. LowMod - 1 /\ -c = LowMod * q + r
  BY Division, JukeboxAssumption
<1>2. tq \in Int /\ tr \in 0 .. LowMod - 1 /\ t = LowMod * tq + tr
  BY Division, JukeboxAssumption
<1>3. lq \in Int /\ lr \in 0 .. LowMod - 1 /\ low = LowMod * lq + lr
  <2>1. low \in Int
    BY <1>1, <1>2
  <2> HIDE DEF low
  <2> QED
    BY <2>1, Division, JukeboxAssumption
<1>4. SignExtended(Encode(c).high) = HighMod + q /\ Encode(c).low = r
  BY Extension DEF Encode
<1>5. Execute(Encode(c), t) = ((tq + (HighMod + q) + lq) % HighMod) * LowMod + lr
  BY <1>4 DEF Execute
<1> HIDE DEF q, r, tq, tr, lq, lr
<1>6. (tq + (HighMod + q) + lq) % HighMod = (tq + q + lq) % HighMod
  <2>1. tq + (HighMod + q) + lq = (tq + q + lq) + HighMod
    BY <1>1, <1>2, <1>3, JukeboxAssumption
  <2>2. tq + q + lq \in Int
    BY <1>1, <1>2, <1>3
  <2> QED
    BY <2>1, <2>2, Wraps, JukeboxAssumption
<1>7. t - c = LowMod * (tq + q + lq) + lr
  <2>1. t - c = LowMod * tq + LowMod * q + LowMod * lq + lr
    BY <1>1, <1>2, <1>3, JukeboxAssumption
  <2>2. LowMod * tq + LowMod * q + LowMod * lq = LowMod * (tq + q + lq)
    BY <1>1, <1>2, <1>3, JukeboxAssumption
  <2> QED
    BY <2>1, <2>2
<1>8. (LowMod * (tq + q + lq) + lr) % (LowMod * HighMod)
        = ((tq + q + lq) % HighMod) * LowMod + lr
  <2>1. tq + q + lq \in Int
    BY <1>1, <1>2, <1>3
  <2> HIDE DEF low
  <2> QED
    BY <2>1, <1>3, TwoDigits, JukeboxAssumption
<1> QED
  BY <1>5, <1>6, <1>7, <1>8
-----------------------------------------------------------------------------
(***************************************************************************)
(* The invariant.  `Untouched' are the statements before the first write,  *)
(* `Checked' those the encoder's check and the comparison with the stock   *)
(* hunk have passed.                                                       *)
(***************************************************************************)
Superblocks == [block_size : BlockSizes, blocks : {MaxBlocks}, reserved : 0 .. MaxBlocks + 1]

TypeCorrect ==
  /\ p10 \in Superblocks
  /\ pc \in Raising \union {"failed", "interrupted", "done"}
  /\ stage \in {"absent", "foreign", "own"} /\ stage0 \in {"absent", "foreign"}
  /\ place \in [Places -> Hunk] /\ base \in [Places -> Hunk]
  /\ mapped \in Places /\ half \in 0 .. 2
  /\ unverified \in BOOLEAN /\ raised \subseteq Raising

Untouched == {"exists", "open", "copy", "release", "close", "encode", "inspect", "map", "reopen", "recheck"}
Writing == {"write", "sync", "verify", "cat"}

Fixed == [base EXCEPT !["target"] = Replacement]

\* An encodable correction, from the check to the end of a successful call.
Encoded ==
  pc \in {"inspect", "map", "reopen", "recheck", "fsck", "final", "done"} \union Writing => Encodable

\* The library has the stock hunk when it is mapped, and later what it had
\* then or what a writer to the stage has left.
Library ==
  /\ \A m \in Places : base[m] \in {Stock, Other}
  /\ pc = "map" => base["target"] = Stock
  /\ pc \in {"reopen", "recheck"} \union Writing => Replacement # Stock

\* How far the loop that writes the hunk over what was there has come.
Halves(hunk) ==
  /\ half >= 1 => place[mapped].low = hunk.low
  /\ half = 2 => place[mapped].high = hunk.high

Written ==
  /\ \A m \in Places \ {mapped} : pc \in Writing \union {"caught"} \union Undoing => place[m] = base[m]
  /\ pc \in Writing \union {"caught"} \union Undoing => base[mapped] = Stock
  /\ pc \in Untouched => place = base
  /\ pc = "write" => Halves(Replacement)
  /\ pc \in {"sync", "verify", "cat"} => place[mapped] = Replacement
  /\ pc = "rollback" => Halves(Stock)
  /\ pc \in {"resync", "reverify"} => place[mapped] = Stock
  /\ pc \in {"discard", "failed"} /\ ~unverified /\ "caught" \notin raised => place \in {base, Fixed}
  /\ pc \in {"fsck", "final", "done"} => place = Fixed
  /\ pc \notin {"write", "rollback", "interrupted"} => half = 0

\* The stage is our own once it was created, and a file that was at its name
\* before is met by the first check.
Staged ==
  /\ pc = "exists" => stage = stage0
  /\ stage0 = "foreign" => stage = "foreign" /\ pc \in {"exists", "failed", "interrupted"}
  /\ pc = "failed" /\ stage = "own" => raised \intersect Unguarded # {}

IInv == TypeCorrect /\ Encoded /\ Library /\ Written /\ Staged
-----------------------------------------------------------------------------
LEMMA HunksTyped ==
  /\ Stock \in Hunk /\ Other \in Hunk
  /\ p10 \in Superblocks => Replacement \in Hunk
<1>1. Stock \in Hunk
  <2>1. OemReserved * OemBlockSize + NonReserved \in Int
    BY JukeboxAssumption
  <2> QED
    BY <2>1, EncodeType DEF Stock
<1>2. Other \in Hunk
  BY JukeboxAssumption DEF Other, Hunk
<1>3. ASSUME p10 \in Superblocks PROVE Replacement \in Hunk
  BY <1>3, CorrectionType, EncodeType DEF Replacement, Superblocks
<1> QED
  BY <1>1, <1>2, <1>3

\* What is there before the write is never what is written.
LEMMA ReplacementDiffers ==
  ASSUME p10 \in Superblocks, Encodable
  PROVE  Replacement # Other
<1>1. Correction \in Nat \ {0}
  BY CorrectionType DEF Superblocks
<1>2. Encode(Correction).high # 0
  BY <1>1, Extension DEF Encodable
<1> QED
  BY <1>2 DEF Replacement, Other

LEMMA SameHunk ==
  ASSUME NEW h \in Hunk, NEW k \in Hunk, h.low = k.low, h.high = k.high
  PROVE  h = k
BY DEF Hunk

LEMMA InitIsInv == Init => IInv
<1> SUFFICES ASSUME Init PROVE IInv
  OBVIOUS
<1>1. TypeCorrect
  <2>1. place \in [Places -> Hunk]
    BY HunksTyped DEF Init
  <2>2. base \in [Places -> Hunk] /\ p10 \in Superblocks
    BY <2>1 DEF Init, Superblocks
  <2>3. stage \in {"absent", "foreign", "own"} /\ stage0 \in {"absent", "foreign"}
    BY DEF Init
  <2>4. pc \in Raising /\ mapped \in Places /\ half \in 0 .. 2
    BY DEF Init, Raising, Places
  <2>5. unverified \in BOOLEAN /\ raised \subseteq Raising
    BY DEF Init
  <2> QED
    BY <2>1, <2>2, <2>3, <2>4, <2>5 DEF TypeCorrect
<1>2. Library
  BY DEF Init, Library, Writing
<1> QED
  BY <1>1, <1>2 DEF Init, IInv, Encoded, Written, Staged, Untouched, Writing, Undoing

LEMMA CheckAbsentKeeps == IInv /\ CheckAbsent => IInv'
BY DEF IInv, TypeCorrect, Raising, Encoded, Encodable, Library, Written, Halves, Staged, Untouched,
    Writing, Undoing, Places, Fixed, Replacement, Correction, Goto, files, history,
    CheckAbsent

LEMMA CreateKeeps == IInv /\ Create => IInv'
BY DEF IInv, TypeCorrect, Raising, Encoded, Encodable, Library, Written, Halves, Staged, Untouched,
    Writing, Undoing, Places, Fixed, Replacement, Correction, Goto, files, history,
    Create

LEMMA CopyKeeps == IInv /\ Copy => IInv'
BY DEF IInv, TypeCorrect, Raising, Encoded, Encodable, Library, Written, Halves, Staged, Untouched,
    Writing, Undoing, Places, Fixed, Replacement, Correction, Goto, files, history,
    Copy

LEMMA CloseKeeps == IInv /\ Close => IInv'
BY DEF IInv, TypeCorrect, Raising, Encoded, Encodable, Library, Written, Halves, Staged, Untouched,
    Writing, Undoing, Places, Fixed, Replacement, Correction, Goto, files, history,
    Close

LEMMA ReleaseKeeps == IInv /\ Release => IInv'
BY DEF IInv, TypeCorrect, Raising, Encoded, Encodable, Library, Written, Halves, Staged, Untouched,
    Writing, Undoing, Places, Fixed, Replacement, Correction, Goto, files, history,
    Release

LEMMA EncodeCorrectionKeeps == IInv /\ EncodeCorrection => IInv'
BY DEF IInv, TypeCorrect, Raising, Encoded, Encodable, Library, Written, Halves, Staged, Untouched,
    Writing, Undoing, Places, Fixed, Replacement, Correction, Goto, files, history,
    EncodeCorrection

LEMMA InspectKeeps == IInv /\ Inspect => IInv'
BY DEF IInv, TypeCorrect, Raising, Encoded, Encodable, Library, Written, Halves, Staged, Untouched,
    Writing, Undoing, Places, Fixed, Replacement, Correction, Goto, files, history,
    Inspect

LEMMA MapKeeps == IInv /\ Map => IInv'
BY DEF IInv, TypeCorrect, Raising, Encoded, Encodable, Library, Written, Halves, Staged, Untouched,
    Writing, Undoing, Places, Fixed, Replacement, Correction, Goto, files, history,
    Map

LEMMA ReopenKeeps == IInv /\ Reopen => IInv'
BY DEF IInv, TypeCorrect, Raising, Encoded, Encodable, Library, Written, Halves, Staged, Untouched,
    Writing, Undoing, Places, Fixed, Replacement, Correction, Goto, files, history,
    Reopen

LEMMA RecheckKeeps == IInv /\ Recheck => IInv'
BY DEF IInv, TypeCorrect, Raising, Encoded, Encodable, Library, Written, Halves, Staged, Untouched,
    Writing, Undoing, Places, Fixed, Replacement, Correction, Goto, files, history,
    Recheck

LEMMA SyncKeeps == IInv /\ Sync => IInv'
BY DEF IInv, TypeCorrect, Raising, Encoded, Encodable, Library, Written, Halves, Staged, Untouched,
    Writing, Undoing, Places, Fixed, Replacement, Correction, Goto, files, history,
    Sync

LEMMA VerifyKeeps == IInv /\ Verify => IInv'
BY DEF IInv, TypeCorrect, Raising, Encoded, Encodable, Library, Written, Halves, Staged, Untouched,
    Writing, Undoing, Places, Fixed, Replacement, Correction, Goto, files, history,
    Verify

LEMMA CaughtKeeps == IInv /\ Caught => IInv'
BY DEF IInv, TypeCorrect, Raising, Encoded, Encodable, Library, Written, Halves, Staged, Untouched,
    Writing, Undoing, Places, Fixed, Replacement, Correction, Goto, files, history,
    Caught

LEMMA ResyncKeeps == IInv /\ Resync => IInv'
BY DEF IInv, TypeCorrect, Raising, Encoded, Encodable, Library, Written, Halves, Staged, Untouched,
    Writing, Undoing, Places, Fixed, Replacement, Correction, Goto, files, history,
    Resync

LEMMA ReverifyKeeps == IInv /\ Reverify => IInv'
BY DEF IInv, TypeCorrect, Raising, Encoded, Encodable, Library, Written, Halves, Staged, Untouched,
    Writing, Undoing, Places, Fixed, Replacement, Correction, Goto, files, history,
    Reverify

LEMMA FsckKeeps == IInv /\ Fsck => IInv'
BY DEF IInv, TypeCorrect, Raising, Encoded, Encodable, Library, Written, Halves, Staged, Untouched,
    Writing, Undoing, Places, Fixed, Replacement, Correction, Goto, files, history,
    Fsck

LEMMA ReturnKeeps == IInv /\ Return => IInv'
BY DEF IInv, TypeCorrect, Raising, Encoded, Encodable, Library, Written, Halves, Staged, Untouched,
    Writing, Undoing, Places, Fixed, Replacement, Correction, Goto, files, history,
    Return

LEMMA InterruptKeeps == IInv /\ Interrupt => IInv'
BY DEF IInv, TypeCorrect, Raising, Encoded, Encodable, Library, Written, Halves, Staged, Untouched,
    Writing, Undoing, Places, Fixed, Replacement, Correction, Goto, files, history,
    Interrupt

LEMMA ForeignAppearsKeeps == IInv /\ ForeignAppears => IInv'
BY DEF IInv, TypeCorrect, Raising, Encoded, Encodable, Library, Written, Halves, Staged, Untouched,
    Writing, Undoing, Places, Fixed, Replacement, Correction, Goto, files, history,
    ForeignAppears

LEMMA MeddleKeeps == IInv /\ Meddle => IInv'
BY HunksTyped
DEF IInv, TypeCorrect, Raising, Encoded, Encodable, Library, Written, Halves, Staged, Untouched,
    Writing, Undoing, Places, Fixed, Replacement, Correction, Goto, files, history,
    Meddle


\* The library's place is the one that was mapped: if it were another one, it
\* would hold what was there before, which differs from what was written.
LEMMA CatKeeps == IInv /\ Cat => IInv'
<1> SUFFICES ASSUME IInv, Cat PROVE IInv'
  OBVIOUS
<1>1. Replacement # Other
  BY ReplacementDiffers DEF IInv, TypeCorrect, Encoded, Writing, Cat, Goto
<1>2. mapped = "target"
  BY <1>1 DEF IInv, TypeCorrect, Library, Written, Writing, Places, Cat, Goto
<1>3. place = Fixed
  BY <1>2 DEF IInv, TypeCorrect, Written, Writing, Places, Fixed, Cat, Goto
<1> QED
  BY <1>3 DEF IInv, TypeCorrect, Raising, Encoded, Encodable, Library, Written, Halves, Staged,
     Untouched, Writing, Undoing, Fixed, Replacement, Correction, Goto, files, history, Cat

\* One of the two halves, the low one first.
LEMMA PutHalf ==
  ASSUME IInv, NEW hunk \in Hunk, Put(hunk), Halves(hunk)
  PROVE  /\ place' \in [Places -> Hunk] /\ half' \in 0 .. 2
         /\ \A m \in Places \ {mapped} : place'[m] = place[m]
         /\ Halves(hunk)'
<1>1. place \in [Places -> Hunk] /\ mapped \in Places /\ half \in 0 .. 2
  BY DEF IInv, TypeCorrect
<1>2. place[mapped] \in Hunk
  BY <1>1
<1>3. CASE half = 0
  <2>1. place' = [place EXCEPT ![mapped] = [place[mapped] EXCEPT !.low = hunk.low]]
    BY <1>1, <1>3 DEF Put
  <2>2. [place[mapped] EXCEPT !.low = hunk.low] \in Hunk
    BY <1>2 DEF Hunk
  <2>3. place'[mapped].low = hunk.low
    BY <1>1, <1>2, <2>1 DEF Hunk
  <2> QED
    BY <1>1, <1>3, <2>1, <2>2, <2>3 DEF Put, Halves, history
<1>4. CASE half = 1
  <2>1. place' = [place EXCEPT ![mapped] = [place[mapped] EXCEPT !.high = hunk.high]]
    BY <1>1, <1>4 DEF Put
  <2>2. [place[mapped] EXCEPT !.high = hunk.high] \in Hunk
    BY <1>2 DEF Hunk
  <2>3. place'[mapped].high = hunk.high /\ place'[mapped].low = place[mapped].low
    BY <1>1, <1>2, <2>1 DEF Hunk
  <2> QED
    BY <1>1, <1>4, <2>1, <2>2, <2>3 DEF Put, Halves, history
<1> QED
  BY <1>1, <1>3, <1>4 DEF Put

LEMMA WriteKeeps == IInv /\ Write => IInv'
<1> SUFFICES ASSUME IInv, Write PROVE IInv'
  OBVIOUS
<1>1. Replacement \in Hunk /\ Put(Replacement) /\ Halves(Replacement)
  BY HunksTyped DEF IInv, TypeCorrect, Written, Write
<1>2. /\ place' \in [Places -> Hunk] /\ half' \in 0 .. 2
      /\ \A m \in Places \ {mapped} : place'[m] = place[m]
      /\ Halves(Replacement)'
  <2>1. p10' = p10
    BY <1>1 DEF Put
  <2>2. Replacement' = Replacement
    BY <2>1 DEF Replacement, Correction
  <2>3. ASSUME NEW hunk \in Hunk, hunk = Replacement
        PROVE  /\ place' \in [Places -> Hunk] /\ half' \in 0 .. 2
               /\ \A m \in Places \ {mapped} : place'[m] = place[m]
               /\ Halves(hunk)'
    BY <1>1, <2>3, PutHalf
  <2> QED
    BY <1>1, <2>2, <2>3 DEF Halves
<1> QED
  BY <1>2 DEF IInv, TypeCorrect, Raising, Encoded, Encodable, Library, Written, Staged, Untouched,
     Writing, Undoing, Fixed, Replacement, Correction, Write, Put, history

LEMMA UndoKeeps == IInv /\ Undo => IInv'
<1> SUFFICES ASSUME IInv, Undo PROVE IInv'
  OBVIOUS
<1>1. Stock \in Hunk /\ Put(Stock) /\ Halves(Stock)
  BY HunksTyped DEF IInv, Written, Undo
<1>2. /\ place' \in [Places -> Hunk] /\ half' \in 0 .. 2
      /\ \A m \in Places \ {mapped} : place'[m] = place[m]
      /\ Halves(Stock)'
  BY <1>1, PutHalf DEF Halves
<1> QED
  BY <1>2 DEF IInv, TypeCorrect, Raising, Encoded, Encodable, Library, Written, Staged, Untouched,
     Writing, Undoing, Fixed, Replacement, Correction, Undo, Put, history

LEMMA EndWriteKeeps == IInv /\ EndWrite => IInv'
<1> SUFFICES ASSUME IInv, EndWrite PROVE IInv'
  OBVIOUS
<1>1. place[mapped] = Replacement
  BY HunksTyped, SameHunk DEF IInv, TypeCorrect, Written, Halves, EndWrite, Goto
<1> QED
  BY <1>1 DEF IInv, TypeCorrect, Raising, Encoded, Encodable, Library, Written, Staged, Untouched,
     Writing, Undoing, Fixed, Replacement, Correction, EndWrite, Goto, files, history

LEMMA EndUndoKeeps == IInv /\ EndUndo => IInv'
<1> SUFFICES ASSUME IInv, EndUndo PROVE IInv'
  OBVIOUS
<1>1. place[mapped] = Stock
  BY HunksTyped, SameHunk DEF IInv, TypeCorrect, Written, Halves, EndUndo, Goto
<1> QED
  BY <1>1 DEF IInv, TypeCorrect, Raising, Encoded, Encodable, Library, Written, Staged, Untouched,
     Writing, Undoing, Fixed, Replacement, Correction, EndUndo, Goto, files, history

LEMMA DiscardKeeps == IInv /\ Discard => IInv'
<1> SUFFICES ASSUME IInv, Discard PROVE IInv'
  OBVIOUS
<1>1. TypeCorrect' /\ Encoded' /\ Library' /\ Staged'
  BY DEF IInv, TypeCorrect, Raising, Encoded, Library, Staged, Writing, Discard, Goto, history
<1>2. place = base \/ place = Fixed \/ unverified \/ "caught" \in raised
  BY DEF IInv, Written, Discard, Goto
<1>3. Fixed' = Fixed
  BY DEF Fixed, Replacement, Correction, Discard
<1>4. half = 0
  BY DEF IInv, Written, Discard, Goto
<1> QED
  BY <1>1, <1>2, <1>3, <1>4 DEF IInv, Written, Untouched, Writing, Undoing, Discard, Goto, history

\* An exception: before the write nothing is there, during the write the
\* rollback comes next, and after a failure of the rollback nothing is claimed.
LEMMA FailKeeps == IInv /\ Fail => IInv'
<1> SUFFICES ASSUME IInv, Fail PROVE IInv'
  OBVIOUS
<1>0. raised' \subseteq Raising /\ pc \in Raising /\ pc \in raised' /\ raised \subseteq raised'
  BY DEF IInv, TypeCorrect, Fail
<1>1. CASE pc = "exists"
  <2>1. pc' = "failed"
    BY <1>1 DEF Fail, Handler
  <2> QED
    BY <1>0, <1>1, <2>1 DEF IInv, TypeCorrect, Raising, Encoded, Library, Written, Staged, Untouched,
       Writing, Undoing, Fail, files
<1>2. CASE pc \in Writing
  <2>1. pc' = "caught"
    BY <1>2 DEF Fail, Handler, Writing, Unguarded
  <2> QED
    BY <1>0, <1>2, <2>1 DEF IInv, TypeCorrect, Raising, Encoded, Library, Written, Halves, Staged,
       Untouched, Writing, Undoing, Fail, files
<1>3. CASE pc = "copy"
  <2>1. pc' = "release"
    BY <1>3 DEF Fail, Handler, Unguarded
  <2> QED
    BY <1>0, <1>3, <2>1 DEF IInv, TypeCorrect, Raising, Encoded, Library, Written, Halves, Staged,
       Untouched, Writing, Undoing, Fail, files
<1>4. unverified' \/ "caught" \in raised' \/ place \in {base, Fixed} \/ pc \in Writing
  BY <1>0 DEF IInv, Written, Raising, Writing, Undoing, Untouched, Fail
<1>5. Fixed' = Fixed
  BY DEF Fixed, Replacement, Correction, Fail, files
<1>6. CASE pc \in Unguarded
  <2>1. pc' = "failed"
    BY <1>6 DEF Fail, Handler, Unguarded
  <2>2. pc \in raised' \intersect Unguarded
    BY <1>0, <1>6
  <2>3. Staged'
    BY <1>6, <2>1, <2>2 DEF IInv, Staged, Fail, files, Unguarded
  <2>4. TypeCorrect' /\ Encoded' /\ Library'
    BY <1>0, <2>1 DEF IInv, TypeCorrect, Raising, Encoded, Library, Writing, Fail, files
  <2>5. pc \notin Writing
    BY <1>6 DEF Unguarded, Writing
  <2>6. Written'
    BY <1>4, <1>5, <2>1, <2>5 DEF Written, Untouched, Writing, Undoing, Fail, files
  <2> QED
    BY <2>3, <2>4, <2>6 DEF IInv
<1>7. CASE pc \in Raising \ (Writing \union Unguarded \union {"exists", "copy"})
  <2>1. pc' = "discard"
    BY <1>7 DEF Fail, Handler, Writing, Raising
  <2>2. Staged'
    BY <1>7, <2>1 DEF IInv, Staged, Fail, files, Raising
  <2>3. TypeCorrect' /\ Encoded' /\ Library'
    BY <1>0, <2>1 DEF IInv, TypeCorrect, Raising, Encoded, Library, Writing, Fail, files
  <2>4. Written'
    BY <1>4, <1>5, <1>7, <2>1 DEF Written, Untouched, Writing, Undoing, Fail, files
  <2> QED
    BY <2>2, <2>3, <2>4 DEF IInv
<1> QED
  BY <1>1, <1>2, <1>3, <1>6, <1>7 DEF Fail

LEMMA StutterKeeps == IInv /\ UNCHANGED vars => IInv'
BY DEF IInv, TypeCorrect, Encoded, Encodable, Library, Written, Halves, Staged, Fixed, Replacement,
   Correction, vars, files, history

LEMMA NextKeeps == IInv /\ [Next]_vars => IInv'
BY CheckAbsentKeeps, CreateKeeps, CopyKeeps, CloseKeeps, ReleaseKeeps, EncodeCorrectionKeeps,
   InspectKeeps, MapKeeps, ReopenKeeps, RecheckKeeps, WriteKeeps, EndWriteKeeps, SyncKeeps,
   VerifyKeeps, CatKeeps, CaughtKeeps, UndoKeeps, EndUndoKeeps, ResyncKeeps, ReverifyKeeps, FsckKeeps,
   ReturnKeeps, DiscardKeeps, FailKeeps, InterruptKeeps, ForeignAppearsKeeps, MeddleKeeps,
   StutterKeeps DEF Next

LEMMA SpecKeepsInv == Spec => []IInv
BY InitIsInv, NextKeeps, PTL DEF Spec
-----------------------------------------------------------------------------
(***************************************************************************)
(* When stage_jukebox_fix returns, the library in the stage has the        *)
(* correction of the p10 that was built, nothing else has changed, and the *)
(* two instructions subtract it from every total, for every width of the   *)
(* immediates and every correction that the encoder accepts.               *)
(***************************************************************************)
THEOREM CorrectedSuccess == Spec => []SuccessCorrects
<1>1. IInv => SuccessCorrects
  <2> SUFFICES ASSUME IInv, pc = "done"
               PROVE  /\ place = Fixed
                      /\ \A t \in 0 .. LowMod * HighMod - 1 :
                           Execute(place["target"], t) = (t - Correction) % (LowMod * HighMod)
    BY DEF SuccessCorrects, Fixed
  <2>1. place = Fixed /\ Encodable
    BY DEF IInv, Encoded, Written
  <2>2. place["target"] = Replacement
    BY <2>1 DEF Fixed, IInv, TypeCorrect, Places
  <2>3. Correction \in Nat \ {0}
    BY CorrectionType DEF IInv, TypeCorrect, Superblocks
  <2>4. LowMod * HighMod \in Nat
    BY JukeboxAssumption
  <2>5. (-Correction) \div LowMod \in -(ImmMod \div 2) .. ImmMod \div 2 - 1
    BY <2>1 DEF Encodable
  <2>6. \A t \in Nat : Execute(Replacement, t) = (t - Correction) % (LowMod * HighMod)
    BY <2>3, <2>5, Subtracts DEF Replacement
  <2>7. \A t \in 0 .. LowMod * HighMod - 1 : t \in Nat
    BY <2>4
  <2> QED
    BY <2>1, <2>2, <2>6, <2>7
<1> QED
  BY <1>1, SpecKeepsInv, PTL

(***************************************************************************)
(* However apply_jukebox_fix ends, the fix is there completely or not at   *)
(* all, unless the error says that the rollback could not be verified or a *)
(* signal kept it from beginning.                                          *)
(***************************************************************************)
THEOREM FixIsAtomic == Spec => []AllOrNothing
<1>1. IInv => AllOrNothing
  BY DEF IInv, Written, Fixed, AllOrNothing
<1> QED
  BY <1>1, SpecKeepsInv, PTL

(***************************************************************************)
(* A failed call leaves a stage of its own only when an exception was      *)
(* raised in the removal, in the close before it, or between the copy and  *)
(* the second try, and it does not touch a file that was at its name       *)
(* before.                                                                 *)
(***************************************************************************)
THEOREM NoStageIsLeft == Spec => []FailureLeavesNoStage
<1>1. IInv => FailureLeavesNoStage
  BY DEF IInv, Staged, FailureLeavesNoStage
<1> QED
  BY <1>1, SpecKeepsInv, PTL
=============================================================================
