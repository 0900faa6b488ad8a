----------------------------- MODULE UpdateProofs -----------------------------
(***************************************************************************)
(* UpdateInputs for any number of images, blocks, updates, writes and      *)
(* ticks of the clock; then UpdateCatalog for any catalog.                 *)
(***************************************************************************)
EXTENDS UpdateInputs, UpdateCatalog, SequenceTheorems, TLAPS

Opening == {"open", "crc", "recheck"}
Restoring == {"decode", "restore", "unlink"}
Working == Opening \union Restoring \union {"magic", "mkdtemp", "compile", "final", "yielded"}

TypeInv ==
  /\ block \in [Files -> [Pass -> Content]]
  /\ stamp \in [Files -> 0..MaxTime] /\ clock \in 0..MaxTime /\ writes \in Nat
  /\ pc \in Working \union {"catalog", "remove", "exited"}
  /\ i \in Files /\ k \in Nat \ {0}
  /\ identity \in [Files -> 0..NotOpened]
  /\ release \in Content /\ matches \in BOOLEAN /\ hasty \in SUBSET Files
  /\ stream \in [Pass -> Content] /\ restored \in [1..Images -> [Pass -> Content]]
  /\ refusal \in {"none", "input", "tool"}

PlaceInv ==
  /\ pc \in Opening \union Restoring => i \in 1..Images
  /\ pc \in {"crc", "decode", "restore"} => k <= Blocks + 1
  /\ pc = "decode" => i \in Encrypted
  /\ refusal # "none" => pc \in {"unlink", "remove", "exited"}

\* A file that was not opened hastily has an identity of the past: a write
\* since then gives it another stamp.
Opened(f) == identity[f] # NotOpened
TimeInv ==
  \A f \in Files :
    /\ stamp[f] <= clock
    /\ Opened(f) /\ f \notin hasty => identity[f] < clock /\ identity[f] <= stamp[f]

\* The identity tells that a file was not written to since it was opened.
Vouched(f) == f \notin hasty /\ Unchanged(f)

\* How far the passes over the images are.
OpenedUpTo == IF pc = "open" THEN i - 1 ELSE IF pc \in {"crc", "recheck"} THEN i ELSE Images
CheckedUpTo == IF pc \in {"open", "crc"} THEN i - 1 ELSE IF pc = "recheck" THEN i ELSE Images
RestoredUpTo ==
  CASE pc \in {"decode", "restore"} -> i - 1
    [] pc = "unlink" /\ refusal = "none" -> i
    [] pc \in {"final", "yielded"} -> Images
    [] OTHER -> 0

OpenInv == pc \in Working => \A f \in 0..OpenedUpTo : Opened(f)

\* What was read of a file that is vouched for belongs to the release.
CheckInv ==
  /\ pc \in Working => \A r \in 1..CheckedUpTo : Vouched(r) => block[r] = Whole(release)
  /\ pc = "crc" /\ Vouched(i) /\ matches => \A b \in 1..k - 1 : block[i][b] = release

RestoreInv ==
  /\ \A r \in 1..RestoredUpTo : Vouched(r) => restored[r] = Whole(release)
  /\ pc = "decode" /\ Vouched(i) => \A b \in 1..k - 1 : stream[b] = release
  /\ pc = "restore" /\ Vouched(i) =>
       /\ i \in Encrypted => stream = Whole(release)
       /\ \A b \in 1..k - 1 : restored[i][b] = release

\* What a final check has vouched for needs no vouching any more.
FinalInv ==
  \A r \in 1..Images :
    pc = "yielded" \/ (pc = "final" /\ r < i) => r \in hasty \/ restored[r] = Whole(release)

\* An update that is left alone.
Quiet(v) == writes = 0 /\ v \in Releases /\ \A f \in Files : block[f] = Whole(v)

QuietInv ==
  /\ writes = 0 => \A f \in Files : Opened(f) => Unchanged(f)
  /\ \A v \in Releases : Quiet(v) =>
       /\ refusal # "input"
       /\ pc \in Working => release = v
       /\ pc \in {"crc", "recheck"} => matches
       /\ pc = "decode" => \A b \in 1..k - 1 : stream[b] = v
       /\ pc = "restore" => /\ i \in Encrypted => stream = Whole(v)
                            /\ \A b \in 1..k - 1 : restored[i][b] = v

StreamInv ==
  /\ \A r, s \in streams : r = s
  /\ pc \notin {"remove", "exited"} =>
       streams \subseteq IF pc \in Restoring THEN {i} ELSE {}

IInv ==
  /\ TypeInv /\ PlaceInv /\ TimeInv /\ OpenInv
  /\ CheckInv /\ RestoreInv /\ FinalInv /\ QuietInv /\ StreamInv
-----------------------------------------------------------------------------
LEMMA Bounds ==
  /\ Images \in Nat \ {0} /\ Blocks \in Nat \ {0} /\ MaxTime \in Nat
  /\ Encrypted \subseteq 1..Images /\ 0 \in Files /\ 1..Images \subseteq Files
  /\ 1 \in Pass /\ Junk \notin Releases
BY UpdateInputsAssumption DEF Files, Pass

LEMMA WholeIsWhole ==
  ASSUME NEW v
  PROVE  /\ \A b \in Pass : Whole(v)[b] = v
         /\ \A w : Whole(v) = Whole(w) => v = w
<1>1. \A u : \A b \in Pass : Whole(u)[b] = u
  BY DEF Whole
<1>2. ASSUME NEW w, Whole(v) = Whole(w) PROVE v = w
  <2>1. Whole(v)[1] = v /\ Whole(w)[1] = w
    BY <1>1, Bounds
  <2> QED BY <1>2, <2>1
<1> QED BY <1>1, <1>2

\* A pass that has read all blocks has read the whole.
LEMMA AllBlocks ==
  ASSUME NEW s \in [Pass -> Content], NEW v, TypeInv, k > Blocks, \A b \in 1..k - 1 : s[b] = v
  PROVE  s = Whole(v)
<1>1. \A b \in Pass : s[b] = v
  BY Bounds DEF Pass, TypeInv
<1> QED BY <1>1 DEF Whole

LEMMA InitIsInv == ASSUME Init PROVE IInv
<1>1. TypeInv
  BY Bounds DEF Init, TypeInv, Files, Pass, Content, Whole, NoRelease, NotOpened, Working
<1>2. PlaceInv /\ TimeInv /\ OpenInv
  BY Bounds DEF Init, PlaceInv, TimeInv, OpenInv, Opened, Opening, Restoring, Working
<1>3. CheckInv /\ RestoreInv
  BY Bounds DEF Init, CheckInv, RestoreInv, RestoredUpTo, Opening, Restoring, Working
<1>4. FinalInv /\ QuietInv /\ StreamInv
  BY Bounds DEF Init, FinalInv, QuietInv, StreamInv, Opened, Opening, Restoring, Working
<1> QED BY <1>1, <1>2, <1>3, <1>4 DEF IInv

\* The program gives up, or leaves the context: nothing is vouched for any more.
LEMMA LeavingKeeps ==
  ASSUME IInv, pc' \in {"remove", "exited"}, UNCHANGED <<directory, checks, stream, restored>>,
         UNCHANGED <<i, k>>, streams' \subseteq streams,
         refusal' \in {"none", "input", "tool"},
         \A v \in Releases : Quiet(v) => refusal' # "input"
  PROVE  IInv'
<1> USE DEF directory, checks, Working, Opening, Restoring
<1>1. TypeInv' /\ PlaceInv' /\ TimeInv' /\ OpenInv'
  BY DEF IInv, TypeInv, PlaceInv, TimeInv, OpenInv, Opened
<1>2. CheckInv' /\ RestoreInv' /\ FinalInv' /\ StreamInv'
  BY DEF IInv, CheckInv, RestoreInv, RestoredUpTo, FinalInv, StreamInv
<1>3. QuietInv'
  BY DEF IInv, QuietInv, Quiet, Opened, Unchanged
<1> QED BY <1>1, <1>2, <1>3 DEF IInv

\* An identity that is recorded is the stamp, and of the past unless it is hasty.
LEMMA OpenKeepsTime ==
  ASSUME TypeInv, TimeInv, UNCHANGED directory, NEW f \in Files, Open(f)
  PROVE  /\ identity' \in [Files -> 0..NotOpened] /\ hasty' \in SUBSET Files /\ TimeInv'
         /\ Opened(f)' /\ Unchanged(f)'
         /\ \A g \in Files \ {f} : identity'[g] = identity[g] /\ (g \in hasty' <=> g \in hasty)
<1>1. stamp[f] \in 0..MaxTime /\ stamp[f] <= clock
  BY DEF TypeInv, TimeInv
<1>2. /\ identity' = [identity EXCEPT ![f] = stamp[f]]
      /\ hasty' = IF stamp[f] = clock THEN hasty \union {f} ELSE hasty
      /\ UNCHANGED <<stamp, clock>>
  BY DEF Open, directory
<1>3. identity' \in [Files -> 0..NotOpened] /\ hasty' \in SUBSET Files
  BY <1>1, <1>2, Bounds DEF TypeInv, NotOpened
<1>4. Opened(f)' /\ Unchanged(f)'
  BY <1>1, <1>2, Bounds DEF TypeInv, Opened, Unchanged, NotOpened
<1>5. \A g \in Files \ {f} : identity'[g] = identity[g] /\ (g \in hasty' <=> g \in hasty)
  BY <1>2 DEF TypeInv
<1>6. TimeInv'
  BY <1>1, <1>2, <1>4, <1>5 DEF TypeInv, TimeInv, Opened
<1> QED BY <1>3, <1>4, <1>5, <1>6

LEMMA ReadCatalogKeeps == ASSUME IInv, ReadCatalog PROVE IInv'
<1>1. CASE block[0] \in {Whole(v) : v \in Releases}
  <2>1. PICK v \in Releases : block[0] = Whole(v)
    BY <1>1
  <2>2. /\ release' = v /\ pc' = "open" /\ i' = 1 /\ k' = 1 /\ pc = "catalog"
        /\ Open(0) /\ UNCHANGED directory /\ UNCHANGED <<matches, results, refusal>>
    BY <1>1, <2>1, WholeIsWhole, Bounds DEF ReadCatalog, At, GotoImage
  <2>3. /\ identity' \in [Files -> 0..NotOpened] /\ hasty' \in SUBSET Files /\ TimeInv'
        /\ Opened(0)' /\ Unchanged(0)'
        /\ \A g \in Files \ {0} : identity'[g] = identity[g]
    BY <2>2, OpenKeepsTime, Bounds DEF IInv
  <2>4. TypeInv' /\ PlaceInv'
    <3>1. i' \in Files /\ k' \in Nat \ {0} /\ release' \in Content /\ pc' \in Working
      BY <2>2, Bounds DEF Files, Content, Working, Opening
    <3>2. TypeInv'
      BY <2>2, <2>3, <3>1 DEF IInv, TypeInv, directory, results
    <3>3. PlaceInv'
      BY <2>2, <2>3, Bounds DEF IInv, TypeInv, PlaceInv, Working, Opening, Restoring
    <3> QED BY <3>2, <3>3
  <2>5. OpenInv' /\ CheckInv'
    BY <2>2, <2>3 DEF OpenInv, CheckInv, OpenedUpTo, CheckedUpTo
  <2>6. RestoreInv' /\ FinalInv' /\ StreamInv'
    BY <2>2, Bounds DEF IInv, RestoreInv, RestoredUpTo, FinalInv, StreamInv, results, Working,
                Opening, Restoring
  <2>7. QuietInv'
    <3>1. \A w : Quiet(w)' => Quiet(w) /\ w = v
      BY <2>1, <2>2, WholeIsWhole, Bounds DEF Quiet, directory
    <3> QED BY <2>2, <2>3, <3>1 DEF IInv, QuietInv, directory, Opened, Unchanged
  <2> QED BY <2>3, <2>4, <2>5, <2>6, <2>7 DEF IInv
<1>2. CASE block[0] \notin {Whole(v) : v \in Releases}
  <2>1. \A v \in Releases : ~Quiet(v)
    BY <1>2, Bounds DEF Quiet
  <2> QED BY <1>2, <2>1, LeavingKeeps DEF ReadCatalog, Raise, Goto, results
<1> QED BY <1>1, <1>2

LEMMA OpenSourceKeeps == ASSUME IInv, OpenSource PROVE IInv'
<1>1. /\ pc = "open" /\ pc' = "crc" /\ i' = i /\ k' = 1 /\ matches' = TRUE
      /\ Open(i) /\ UNCHANGED directory /\ UNCHANGED <<release, results, refusal>>
  BY DEF OpenSource, At, GotoImage
<1>2. i \in 1..Images
  BY <1>1 DEF IInv, PlaceInv, Opening
<1>3. /\ identity' \in [Files -> 0..NotOpened] /\ hasty' \in SUBSET Files /\ TimeInv'
      /\ Opened(i)' /\ Unchanged(i)'
      /\ \A g \in Files \ {i} : identity'[g] = identity[g] /\ (g \in hasty' <=> g \in hasty)
  BY <1>1, <1>2, OpenKeepsTime, Bounds DEF IInv
<1>4. TypeInv' /\ PlaceInv'
  <2>1. k' \in Nat \ {0} /\ matches' \in BOOLEAN /\ pc' \in Working
    BY <1>1 DEF Working, Opening
  <2>2. TypeInv'
    BY <1>1, <1>2, <1>3, <2>1 DEF IInv, TypeInv, directory, results
  <2>3. PlaceInv'
    BY <1>1, <1>2, <1>3, Bounds DEF IInv, TypeInv, PlaceInv, Working, Opening, Restoring
  <2> QED BY <2>2, <2>3
<1>5. OpenInv'
  BY <1>1, <1>2, <1>3, Bounds DEF IInv, OpenInv, OpenedUpTo, Opened, Working, Opening, Files
<1>6. CheckInv'
  <2>1. \A r \in 1..i - 1 : r \in Files \ {i}
    BY <1>2, Bounds DEF Files
  <2>2. CheckedUpTo = i - 1 /\ CheckedUpTo' = i - 1 /\ pc \in Working
    BY <1>1 DEF CheckedUpTo, Working, Opening
  <2>3. \A r \in 1..i - 1 : Vouched(r)' => block[r] = Whole(release)
    BY <1>1, <1>3, <2>1, <2>2 DEF IInv, CheckInv, Vouched, Unchanged, directory
  <2> QED BY <1>1, <2>2, <2>3 DEF CheckInv, Whole, directory
<1>7. RestoreInv' /\ FinalInv' /\ StreamInv'
  BY <1>1, Bounds DEF IInv, RestoreInv, RestoredUpTo, FinalInv, StreamInv, results, Restoring
<1>8. QuietInv'
  BY <1>1, <1>2, <1>3, Bounds DEF IInv, QuietInv, Quiet, Opened, Unchanged, Working, Opening,
                                  directory
<1> QED BY <1>3, <1>4, <1>5, <1>6, <1>7, <1>8 DEF IInv

\* The stamps and identities do not change while no file is opened.
LEMMA NotOpening ==
  ASSUME IInv, UNCHANGED <<directory, identity, hasty>>
  PROVE  /\ TimeInv'
         /\ \A f \in Files : (Vouched(f)' <=> Vouched(f)) /\ (Opened(f)' <=> Opened(f))
         /\ \A v : Quiet(v)' <=> Quiet(v)
         /\ writes' = 0 => \A f \in Files : Opened(f)' => Unchanged(f)'
<1> USE DEF directory
<1>1. TimeInv'
  BY DEF IInv, TimeInv, Opened
<1>2. \A f \in Files : (Vouched(f)' <=> Vouched(f)) /\ (Opened(f)' <=> Opened(f))
  BY DEF Vouched, Unchanged, Opened
<1>3. \A v : Quiet(v)' <=> Quiet(v)
  BY DEF Quiet
<1>4. writes' = 0 => \A f \in Files : Opened(f)' => Unchanged(f)'
  BY DEF IInv, QuietInv, Opened, Unchanged
<1> QED BY <1>1, <1>2, <1>3, <1>4

LEMMA CrcChunkKeeps == ASSUME IInv, CrcChunk PROVE IInv'
<1>1. /\ pc = "crc" /\ k <= Blocks /\ matches' = (matches /\ block[i][k] = release)
      /\ k' = k + 1
      /\ UNCHANGED <<directory, pc, i, identity, release, hasty, results, refusal>>
  BY DEF CrcChunk, At
<1>2. i \in 1..Images /\ i \in Files /\ k \in Nat \ {0} /\ k \in Pass
  BY <1>1, Bounds DEF IInv, TypeInv, PlaceInv, Opening, Pass
<1>3. matches' \in BOOLEAN
  BY <1>1
<1>4. TypeInv' /\ PlaceInv'
  <2>1. k' \in Nat \ {0}
    BY <1>1, <1>2
  <2>2. TypeInv'
    BY <1>1, <1>2, <1>3, <2>1 DEF IInv, TypeInv, directory, results
  <2>3. PlaceInv'
    BY <1>1, <1>2, <1>3, Bounds DEF IInv, TypeInv, PlaceInv
  <2> QED BY <2>2, <2>3
<1>5. OpenInv' /\ RestoreInv' /\ FinalInv' /\ StreamInv'
  BY <1>1 DEF IInv, OpenInv, OpenedUpTo, Opened, RestoreInv, RestoredUpTo, FinalInv, StreamInv,
              results
<1>6. CheckInv'
  <2>1. \A b \in 1..k' - 1 : b \in 1..k - 1 \/ b = k
    BY <1>1, <1>2
  <2>2. matches' => matches /\ block[i][k] = release
    BY <1>1
  <2> QED BY <1>1, <1>2, <2>1, <2>2, NotOpening, Bounds
          DEF IInv, CheckInv, CheckedUpTo, directory, Files, Whole, Vouched, Unchanged
<1>7. QuietInv'
  <2>1. ASSUME NEW v \in Releases, Quiet(v) PROVE release = v /\ matches'
    <3>1. release = v /\ matches
      BY <1>1, <2>1 DEF IInv, QuietInv, Working, Opening
    <3>2. block[i][k] = v
      BY <1>2, <2>1, WholeIsWhole DEF Quiet
    <3> QED BY <1>1, <3>1, <3>2
  <2>2. \A v \in Releases : Quiet(v) => refusal' # "input"
    BY <1>1 DEF IInv, QuietInv
  <2> QED BY <1>1, <2>1, <2>2, NotOpening DEF QuietInv
<1> QED BY <1>1, <1>4, <1>5, <1>6, <1>7, NotOpening DEF IInv

LEMMA CrcEndKeeps == ASSUME IInv, CrcEnd PROVE IInv'
<1>1. pc = "crc" /\ k > Blocks /\ i \in 1..Images /\ i \in Files
  BY Bounds DEF CrcEnd, At, IInv, PlaceInv, Opening
<1>2. CASE matches
  <2>1. pc' = "recheck" /\ UNCHANGED <<i, k, directory, checks, results, refusal>>
    BY <1>2 DEF CrcEnd, Goto
  <2>2. TypeInv' /\ PlaceInv'
    BY <1>1, <2>1 DEF IInv, TypeInv, PlaceInv, directory, checks, results, Working, Opening
  <2>3. OpenInv' /\ RestoreInv' /\ FinalInv' /\ StreamInv'
    BY <1>1, <2>1 DEF IInv, OpenInv, OpenedUpTo, Opened, RestoreInv, RestoredUpTo, FinalInv,
                      StreamInv, Working, Opening, Restoring, checks, results
  <2>4. CheckInv'
    <3>1. Vouched(i) => block[i] = Whole(release)
      BY <1>1, <1>2, AllBlocks DEF IInv, TypeInv, CheckInv
    <3>2. \A r \in 1..i - 1 : Vouched(r) => block[r] = Whole(release)
      BY <1>1 DEF IInv, CheckInv, CheckedUpTo, Working, Opening
    <3>3. \A r \in 1..i : r \in 1..i - 1 \/ r = i
      BY <1>1, Bounds
    <3> QED BY <2>1, <3>1, <3>2, <3>3 DEF CheckInv, CheckedUpTo, Vouched, Unchanged, Whole,
                                          directory, checks
  <2>5. QuietInv'
    BY <1>1, <1>2, <2>1, NotOpening DEF IInv, QuietInv, checks, Working, Opening
  <2> QED BY <2>1, <2>2, <2>3, <2>4, <2>5, NotOpening DEF IInv, checks
<1>3. CASE ~matches
  <2>1. \A v \in Releases : ~Quiet(v)
    BY <1>1, <1>3 DEF IInv, QuietInv
  <2> QED BY <1>3, <2>1, LeavingKeeps DEF CrcEnd, Raise, Goto, results
<1> QED BY <1>2, <1>3

LEMMA RecheckKeeps == ASSUME IInv, Recheck PROVE IInv'
<1>1. pc = "recheck" /\ i \in 1..Images /\ i \in Files
  BY Bounds DEF Recheck, At, IInv, PlaceInv, Opening
<1>2. CASE Unchanged(i)
  <2>1. /\ \/ i < Images /\ pc' = "open" /\ i' = i + 1 /\ k' = 1
           \/ i = Images /\ pc' = "magic" /\ i' = i /\ k' = k
        /\ UNCHANGED <<directory, checks, results, refusal>>
    BY <1>1, <1>2, Bounds DEF Recheck, Goto, GotoImage
  <2>2. i' \in 1..Images /\ k' \in Nat \ {0}
    <3>1. k \in Nat \ {0}
      BY DEF IInv, TypeInv
    <3> QED BY <1>1, <2>1, <3>1, Bounds
  <2>3. TypeInv' /\ PlaceInv'
    <3>1. TypeInv'
      BY <1>1, <2>1, <2>2, Bounds DEF IInv, TypeInv, directory, checks, results, Working,
           Opening, Restoring
    <3>2. PlaceInv'
      BY <1>1, <2>1, <2>2, Bounds DEF IInv, TypeInv, PlaceInv, checks, Working, Opening,
           Restoring
    <3> QED BY <3>1, <3>2
  <2>4. OpenInv' /\ CheckInv'
    <3>1. OpenedUpTo' = i /\ CheckedUpTo' = i /\ pc' # "crc"
      BY <1>1, <2>1, Bounds DEF OpenedUpTo, CheckedUpTo
    <3>2. OpenedUpTo = i /\ CheckedUpTo = i /\ pc \in Working
      BY <1>1 DEF OpenedUpTo, CheckedUpTo, Working, Opening
    <3> QED BY <2>1, <3>1, <3>2 DEF IInv, OpenInv, CheckInv, Opened, Vouched, Unchanged, Whole,
                                    directory, checks
  <2>5. RestoreInv' /\ FinalInv' /\ StreamInv'
    BY <1>1, <2>1, Bounds DEF IInv, RestoreInv, RestoredUpTo, FinalInv, StreamInv, Restoring,
                              results
  <2>6. QuietInv'
    BY <1>1, <2>1, NotOpening DEF IInv, QuietInv, checks, Working, Opening
  <2> QED BY <2>1, <2>3, <2>4, <2>5, <2>6, NotOpening DEF IInv, checks
<1>3. CASE ~Unchanged(i)
  <2>1. Opened(i)
    BY <1>1, Bounds DEF IInv, OpenInv, OpenedUpTo, Working, Opening
  <2>2. \A v \in Releases : ~Quiet(v)
    BY <1>1, <1>3, <2>1 DEF IInv, QuietInv, Quiet
  <2> QED BY <1>3, <2>2, LeavingKeeps DEF Recheck, Raise, Goto, results
<1> QED BY <1>2, <1>3

\* From the magic to the first image: nothing is read but the magic.
LEMMA BeforeRestoringKeeps ==
  ASSUME IInv, CheckMagic \/ MakePreparation \/ CompileDecoder PROVE IInv'
<1> USE DEF Working, Opening, Restoring
<1>1. CASE CheckMagic /\ block[Images][1] = Junk
  <2>1. \A v \in Releases : ~Quiet(v)
    BY <1>1, WholeIsWhole, Bounds DEF Quiet, Files
  <2> QED BY <1>1, <2>1, LeavingKeeps DEF CheckMagic, Raise, Goto, results
<1>2. CASE ~(CheckMagic /\ block[Images][1] = Junk)
  <2>1. /\ \/ pc = "magic" /\ pc' = "mkdtemp" /\ UNCHANGED <<i, k>>
           \/ pc = "mkdtemp" /\ pc' = "compile" /\ UNCHANGED <<i, k>>
           \/ pc = "compile" /\ pc' = RestoreStep(1) /\ i' = 1 /\ k' = 1
        /\ UNCHANGED <<directory, checks, streams, stream, restored, refusal>>
    BY <1>2 DEF CheckMagic, MakePreparation, CompileDecoder, At, Goto, GotoImage, results
  <2>2. TypeInv' /\ PlaceInv'
    <3>1. TypeInv'
      <4>1. /\ pc' \in Working /\ i' \in Files /\ k' \in Nat \ {0}
        BY <2>1, Bounds DEF IInv, TypeInv, Working, Opening, Restoring, RestoreStep, Files
      <4> QED BY <2>1, <4>1 DEF IInv, TypeInv, directory, checks
    <3>2. PlaceInv'
      BY <2>1, Bounds DEF IInv, TypeInv, PlaceInv, checks, RestoreStep
    <3> QED BY <3>1, <3>2
  <2>3. OpenInv' /\ CheckInv' /\ StreamInv'
    BY <2>1 DEF IInv, OpenInv, OpenedUpTo, Opened, CheckInv, CheckedUpTo, Vouched, Unchanged,
                Whole, StreamInv, directory, checks, RestoreStep
  <2>4. RestoreInv' /\ FinalInv'
    BY <2>1, Bounds DEF IInv, RestoreInv, RestoredUpTo, FinalInv, RestoreStep
  <2>5. QuietInv'
    BY <2>1, NotOpening, Bounds DEF IInv, QuietInv, checks, RestoreStep
  <2> QED BY <2>1, <2>2, <2>3, <2>4, <2>5, NotOpening DEF IInv, checks
<1> QED BY <1>1, <1>2

LEMMA DecodeBlockKeeps == ASSUME IInv, DecodeBlock PROVE IInv'
<1> USE DEF Working, Opening, Restoring
<1>1. /\ pc = "decode" /\ k <= Blocks /\ stream' = [stream EXCEPT ![k] = block[i][k]]
      /\ streams' = streams \union {i} /\ k' = k + 1
      /\ UNCHANGED <<directory, pc, i, checks, restored, refusal>>
  BY DEF DecodeBlock, At
<1>2. i \in 1..Images /\ i \in Files /\ k \in Nat \ {0} /\ k \in Pass
  BY <1>1, Bounds DEF IInv, TypeInv, PlaceInv, Pass
<1>3. block[i] \in [Pass -> Content]
  BY <1>2 DEF IInv, TypeInv
<1>4. /\ stream' \in [Pass -> Content]
      /\ \A b \in 1..k : stream'[b] = IF b = k THEN block[i][k] ELSE stream[b]
  BY <1>1, <1>2, <1>3, Bounds DEF IInv, TypeInv, Pass
<1>5. TypeInv' /\ PlaceInv'
  <2>1. k' \in Nat \ {0}
    BY <1>1, <1>2
  <2>2. TypeInv'
    BY <1>1, <1>2, <1>4, <2>1 DEF IInv, TypeInv, directory, checks
  <2>3. PlaceInv'
    BY <1>1, <1>2, <1>4, Bounds DEF IInv, TypeInv, PlaceInv, checks
  <2> QED BY <2>2, <2>3
<1>6. OpenInv' /\ CheckInv' /\ FinalInv' /\ StreamInv'
  BY <1>1 DEF IInv, OpenInv, OpenedUpTo, Opened, CheckInv, CheckedUpTo, Vouched, Unchanged,
              Whole, FinalInv, StreamInv, directory, checks
<1>7. \A b \in 1..k' - 1 : b \in 1..k
  BY <1>1, <1>2
<1>8. RestoreInv'
  <2>1. Vouched(i) => block[i][k] = release
    BY <1>1, <1>2, WholeIsWhole, Bounds DEF IInv, CheckInv, CheckedUpTo
  <2>2. Vouched(i) => \A b \in 1..k : stream'[b] = release
    BY <1>1, <1>2, <1>4, <2>1 DEF IInv, RestoreInv
  <2>3. RestoredUpTo' = RestoredUpTo /\ \A r \in 1..RestoredUpTo : r \in Files
    BY <1>1, <1>2, Bounds DEF RestoredUpTo, Files
  <2> QED BY <1>1, <1>2, <1>7, <2>2, <2>3, NotOpening
          DEF IInv, RestoreInv, Whole, checks
<1>9. QuietInv'
  <2>1. ASSUME NEW v \in Releases, Quiet(v) PROVE \A b \in 1..k : stream'[b] = v
    <3>1. block[i][k] = v
      BY <1>2, <2>1, WholeIsWhole DEF Quiet
    <3> QED BY <1>1, <1>2, <1>4, <2>1, <3>1 DEF IInv, QuietInv
  <2> QED BY <1>1, <1>7, <2>1, NotOpening DEF IInv, QuietInv, checks
<1> QED BY <1>1, <1>5, <1>6, <1>8, <1>9, NotOpening DEF IInv, checks

LEMMA DecodeEndKeeps == ASSUME IInv, DecodeEnd PROVE IInv'
<1> USE DEF Working, Opening, Restoring
<1>1. pc = "decode" /\ k > Blocks /\ i \in 1..Images /\ i \in Encrypted
  BY DEF DecodeEnd, At, IInv, PlaceInv
<1>2. ASSUME NEW v, \A b \in 1..k - 1 : stream[b] = v PROVE stream = Whole(v)
  BY <1>1, <1>2, AllBlocks DEF IInv, TypeInv
<1>3. CASE stream \in {Whole(v) : v \in Releases}
  <2>1. /\ pc' = "restore" /\ i' = i /\ k' = 1
        /\ UNCHANGED <<directory, checks, results, refusal>>
    BY <1>3 DEF DecodeEnd, GotoImage
  <2>2. TypeInv' /\ PlaceInv'
    <3>1. TypeInv'
      BY <1>1, <2>1, Bounds DEF IInv, TypeInv, directory, checks, results
    <3>2. PlaceInv'
      BY <1>1, <2>1, Bounds DEF IInv, TypeInv, PlaceInv, checks
    <3> QED BY <3>1, <3>2
  <2>3. OpenInv' /\ CheckInv' /\ FinalInv' /\ StreamInv'
    BY <1>1, <2>1 DEF IInv, OpenInv, OpenedUpTo, Opened, CheckInv, CheckedUpTo, Vouched,
                Unchanged, Whole, FinalInv, StreamInv, directory, checks, results
  <2>4. RestoreInv'
    <3>1. Vouched(i) => stream = Whole(release)
      BY <1>1, <1>2 DEF IInv, RestoreInv
    <3>2. RestoredUpTo' = RestoredUpTo /\ \A r \in 1..RestoredUpTo : r \in Files
      BY <1>1, <2>1, Bounds DEF RestoredUpTo, Files
    <3> QED BY <1>1, <2>1, <3>1, <3>2, NotOpening, Bounds
            DEF IInv, RestoreInv, Whole, checks, results
  <2>5. QuietInv'
    <3>1. \A v \in Releases : Quiet(v) => stream = Whole(v)
      BY <1>1, <1>2 DEF IInv, QuietInv
    <3> QED BY <1>1, <2>1, <3>1, NotOpening DEF IInv, QuietInv, Whole, checks, results
  <2> QED BY <2>1, <2>2, <2>3, <2>4, <2>5, NotOpening DEF IInv, checks
<1>4. CASE stream \notin {Whole(v) : v \in Releases}
  <2>1. \A v \in Releases : ~Quiet(v)
    BY <1>1, <1>2, <1>4 DEF IInv, QuietInv
  <2> QED BY <1>4, <2>1, LeavingKeeps DEF DecodeEnd, Goto
<1> QED BY <1>3, <1>4

LEMMA RestoreBlockKeeps == ASSUME IInv, RestoreBlock PROVE IInv'
<1> USE DEF Working, Opening, Restoring
<1> DEFINE next == IF i \in Encrypted THEN stream[k] ELSE block[i][k]
<1>1. /\ pc = "restore" /\ k <= Blocks /\ restored' = [restored EXCEPT ![i][k] = next]
      /\ k' = k + 1 /\ UNCHANGED <<directory, pc, i, checks, streams, stream, refusal>>
  BY DEF RestoreBlock, At
<1>2. i \in 1..Images /\ i \in Files /\ k \in Nat \ {0} /\ k \in Pass
  BY <1>1, Bounds DEF IInv, TypeInv, PlaceInv, Pass
<1>3. /\ block[i] \in [Pass -> Content] /\ stream \in [Pass -> Content]
      /\ restored[i] \in [Pass -> Content]
  BY <1>2 DEF IInv, TypeInv
<1>4. next \in Content
  BY <1>2, <1>3
<1>5. [restored[i] EXCEPT ![k] = next] \in [Pass -> Content]
  BY <1>2, <1>3, <1>4
<1>6. /\ restored' = [restored EXCEPT ![i] = [restored[i] EXCEPT ![k] = next]]
      /\ restored' \in [1..Images -> [Pass -> Content]]
  BY <1>1, <1>2, <1>5 DEF IInv, TypeInv
<1>7. /\ \A r \in 1..Images : r # i => restored'[r] = restored[r]
      /\ \A b \in 1..k : restored'[i][b] = IF b = k THEN next ELSE restored[i][b]
  BY <1>2, <1>3, <1>6, Bounds DEF IInv, TypeInv, Pass
<1>8. TypeInv' /\ PlaceInv'
  <2>1. k' \in Nat \ {0}
    BY <1>1, <1>2
  <2>2. TypeInv'
    BY <1>1, <1>2, <1>6, <2>1 DEF IInv, TypeInv, directory, checks
  <2>3. PlaceInv'
    BY <1>1, <1>2, <1>6, Bounds DEF IInv, TypeInv, PlaceInv, checks
  <2> QED BY <2>2, <2>3
<1>9. OpenInv' /\ CheckInv' /\ FinalInv' /\ StreamInv'
  BY <1>1 DEF IInv, OpenInv, OpenedUpTo, Opened, CheckInv, CheckedUpTo, Vouched, Unchanged,
              Whole, FinalInv, StreamInv, directory, checks
<1>10. \A b \in 1..k' - 1 : b \in 1..k
  BY <1>1, <1>2
<1>11. RestoreInv'
  <2>1. Vouched(i) => next = release
    BY <1>1, <1>2, WholeIsWhole, Bounds DEF IInv, CheckInv, CheckedUpTo, RestoreInv
  <2>2. Vouched(i) => \A b \in 1..k : restored'[i][b] = release
    BY <1>1, <1>2, <1>7, <2>1 DEF IInv, RestoreInv
  <2>3. /\ RestoredUpTo' = RestoredUpTo
        /\ \A r \in 1..RestoredUpTo : r \in Files /\ restored'[r] = restored[r]
    BY <1>1, <1>2, <1>7, Bounds DEF RestoredUpTo, Files
  <2> QED BY <1>1, <1>2, <1>10, <2>2, <2>3, NotOpening DEF IInv, RestoreInv, Whole, checks
<1>12. QuietInv'
  <2>1. ASSUME NEW v \in Releases, Quiet(v) PROVE \A b \in 1..k : restored'[i][b] = v
    <3>1. next = v
      BY <1>1, <1>2, <2>1, WholeIsWhole DEF IInv, QuietInv, Quiet
    <3> QED BY <1>1, <1>2, <1>7, <2>1, <3>1 DEF IInv, QuietInv
  <2> QED BY <1>1, <1>10, <2>1, NotOpening DEF IInv, QuietInv, checks, Whole
<1> QED BY <1>1, <1>8, <1>9, <1>11, <1>12, NotOpening DEF IInv, checks

LEMMA RestoreEndKeeps == ASSUME IInv, RestoreEnd PROVE IInv'
<1> USE DEF Working, Opening, Restoring
<1>1. /\ pc = "restore" /\ k > Blocks /\ pc' = "unlink" /\ UNCHANGED <<i, k>>
      /\ refusal' = IF \E b \in Pass : restored[i][b] = Junk THEN "input" ELSE refusal
      /\ UNCHANGED <<directory, checks, results>>
  BY DEF RestoreEnd, At, Goto
<1>2. i \in 1..Images /\ restored[i] \in [Pass -> Content]
  BY <1>1 DEF IInv, TypeInv, PlaceInv
<1>3. ASSUME NEW v, \A b \in 1..k - 1 : restored[i][b] = v PROVE restored[i] = Whole(v)
  BY <1>1, <1>2, <1>3, AllBlocks DEF IInv
<1>4. TypeInv' /\ PlaceInv'
  BY <1>1, <1>2 DEF IInv, TypeInv, PlaceInv, directory, checks, results
<1>5. OpenInv' /\ CheckInv' /\ FinalInv' /\ StreamInv'
  BY <1>1 DEF IInv, OpenInv, OpenedUpTo, Opened, CheckInv, CheckedUpTo, Vouched, Unchanged,
              Whole, FinalInv, StreamInv, directory, checks, results
<1>6. RestoreInv'
  <2>1. Vouched(i) => restored[i] = Whole(release)
    BY <1>1, <1>3 DEF IInv, RestoreInv
  <2>2. \A r \in 1..i : r \in Files /\ (r \in 1..RestoredUpTo \/ r = i)
    BY <1>1, <1>2, Bounds DEF RestoredUpTo, Files
  <2>3. \A r \in 1..RestoredUpTo' : r \in 1..i
    BY <1>1, <1>2, Bounds DEF RestoredUpTo
  <2> QED BY <1>1, <2>1, <2>2, <2>3, NotOpening DEF IInv, RestoreInv, Whole, checks, results
<1>7. QuietInv'
  <2>1. ASSUME NEW v \in Releases, Quiet(v) PROVE refusal' # "input"
    <3>1. restored[i] = Whole(v)
      BY <1>1, <1>3, <2>1 DEF IInv, QuietInv
    <3>2. \A b \in Pass : restored[i][b] # Junk
      BY <3>1, WholeIsWhole, Bounds
    <3> QED BY <1>1, <2>1, <3>2 DEF IInv, QuietInv
  <2> QED BY <1>1, <2>1, NotOpening DEF IInv, QuietInv, checks
<1> QED BY <1>1, <1>4, <1>5, <1>6, <1>7, NotOpening DEF IInv, checks

LEMMA UnlinkStreamKeeps == ASSUME IInv, UnlinkStream PROVE IInv'
<1> USE DEF Working, Opening, Restoring
<1>1. /\ pc = "unlink" /\ streams' = streams \ {i} /\ NextImage
      /\ UNCHANGED <<directory, checks, stream, restored, refusal>>
  BY DEF UnlinkStream, At
<1>2. i \in 1..Images
  BY <1>1 DEF IInv, PlaceInv
<1>3. CASE refusal # "none"
  <2>1. pc' = "remove" /\ UNCHANGED <<i, k>>
    BY <1>1, <1>3 DEF NextImage, Goto
  <2>2. refusal' \in {"none", "input", "tool"}
    BY <1>1 DEF IInv, TypeInv
  <2>3. \A v \in Releases : Quiet(v) => refusal' # "input"
    BY <1>1 DEF IInv, QuietInv
  <2> QED BY <1>1, <2>1, <2>2, <2>3, LeavingKeeps
<1>4. CASE refusal = "none"
  <2>1. /\ \/ i < Images /\ pc' = RestoreStep(i + 1) /\ i' = i + 1
           \/ i = Images /\ pc' = "final" /\ i' = 0
        /\ k' = 1
    BY <1>1, <1>2, <1>4, Bounds DEF NextImage, GotoImage
  <2>2. /\ pc' \in {"decode", "restore", "final"} /\ i' \in Files
        /\ pc' = "decode" => i' \in Encrypted
        /\ pc' # "final" => i' \in 1..Images
    BY <1>2, <2>1, Bounds DEF RestoreStep, Files
  <2>3. TypeInv' /\ PlaceInv'
    <3>1. TypeInv'
      BY <1>1, <1>4, <2>1, <2>2, Bounds DEF IInv, TypeInv, directory, checks
    <3>2. PlaceInv'
      BY <1>1, <1>4, <2>1, <2>2, Bounds DEF IInv, TypeInv, PlaceInv, checks
    <3> QED BY <3>1, <3>2
  <2>4. StreamInv'
    BY <1>1, <2>2 DEF IInv, StreamInv
  <2>5. OpenInv' /\ CheckInv'
    BY <1>1, <2>2 DEF IInv, OpenInv, OpenedUpTo, Opened, CheckInv, CheckedUpTo, Vouched,
                Unchanged, Whole, directory, checks
  <2>6. RestoreInv'
    <3>1. RestoredUpTo = i /\ RestoredUpTo' = i /\ \A r \in 1..i : r \in Files
      BY <1>1, <1>2, <1>4, <2>1, Bounds DEF RestoredUpTo, RestoreStep, Files
    <3> QED BY <1>1, <2>1, <3>1, NotOpening, Bounds DEF IInv, RestoreInv, Whole, checks,
                                                        RestoreStep
  <2>7. FinalInv'
    BY <1>1, <2>1, <2>2, Bounds DEF FinalInv, RestoreStep
  <2>8. QuietInv'
    BY <1>1, <2>1, <2>2, NotOpening, Bounds DEF IInv, QuietInv, checks, RestoreStep
  <2> QED BY <1>1, <2>3, <2>4, <2>5, <2>6, <2>7, <2>8, NotOpening DEF IInv, checks
<1> QED BY <1>3, <1>4

LEMMA FinalCheckKeeps == ASSUME IInv, FinalCheck PROVE IInv'
<1> USE DEF Working, Opening, Restoring
<1>1. pc = "final" /\ i \in Files
  BY DEF FinalCheck, At, IInv, TypeInv
<1>2. CASE Unchanged(i)
  <2>1. /\ \/ i < Images /\ pc' = "final" /\ i' = i + 1 /\ k' = 1
           \/ i = Images /\ pc' = "yielded" /\ i' = i /\ k' = k
        /\ UNCHANGED <<directory, checks, results, refusal>>
    BY <1>1, <1>2, Bounds DEF FinalCheck, Goto, GotoImage, Files
  <2>2. i' \in Files /\ k' \in Nat \ {0}
    BY <1>1, <2>1, Bounds DEF IInv, TypeInv, Files
  <2>3. TypeInv' /\ PlaceInv'
    BY <1>1, <2>1, <2>2 DEF IInv, TypeInv, PlaceInv, directory, checks, results
  <2>4. OpenInv' /\ CheckInv' /\ StreamInv'
    BY <1>1, <2>1 DEF IInv, OpenInv, OpenedUpTo, Opened, CheckInv, CheckedUpTo, Vouched,
                Unchanged, Whole, StreamInv, directory, checks, results
  <2>5. RestoreInv'
    BY <1>1, <2>1, Bounds DEF IInv, RestoreInv, RestoredUpTo, Vouched, Unchanged, Whole,
                              directory, checks, results
  <2>6. FinalInv'
    <3>1. i \in 1..Images => i \in hasty \/ restored[i] = Whole(release)
      BY <1>1, <1>2 DEF IInv, RestoreInv, RestoredUpTo, Vouched
    <3>2. \A r \in 1..Images : r < i => r \in hasty \/ restored[r] = Whole(release)
      BY <1>1 DEF IInv, FinalInv
    <3>3. \A r \in 1..Images : pc' = "yielded" \/ r < i' => r < i \/ r = i
      BY <1>1, <2>1, Bounds DEF Files
    <3> QED BY <2>1, <3>1, <3>2, <3>3 DEF FinalInv, Whole, checks, results
  <2>7. QuietInv'
    BY <1>1, <2>1, NotOpening DEF IInv, QuietInv, checks
  <2> QED BY <2>1, <2>3, <2>4, <2>5, <2>6, <2>7, NotOpening DEF IInv, checks
<1>3. CASE ~Unchanged(i)
  <2>1. Opened(i)
    BY <1>1, Bounds DEF IInv, OpenInv, OpenedUpTo, Files
  <2>2. \A v \in Releases : ~Quiet(v)
    BY <1>1, <1>3, <2>1 DEF IInv, QuietInv, Quiet
  <2> QED BY <1>3, <2>2, LeavingKeeps DEF FinalCheck, Raise, Goto, results
<1> QED BY <1>2, <1>3

LEMMA LeaveOrRemoveKeeps == ASSUME IInv, LeaveContext \/ RemovePreparation PROVE IInv'
<1>1. /\ pc' \in {"remove", "exited"}
      /\ UNCHANGED <<directory, checks, stream, restored>> /\ UNCHANGED <<i, k>>
      /\ streams' \subseteq streams /\ refusal' = refusal
  BY DEF LeaveContext, RemovePreparation, Goto, results
<1>2. refusal' \in {"none", "input", "tool"} /\ \A v \in Releases : Quiet(v) => refusal' # "input"
  BY <1>1 DEF IInv, TypeInv, QuietInv
<1> QED BY <1>1, <1>2, LeavingKeeps

LEMMA FailKeeps == ASSUME IInv, Fail PROVE IInv'
<1> USE DEF Working, Opening, Restoring
<1>1. refusal' = "tool" /\ UNCHANGED <<directory, checks, results>> /\ UNCHANGED <<i, k>>
  BY DEF Fail, Goto
<1>2. CASE pc = "restore"
  <2>1. pc' = "unlink" /\ i \in 1..Images
    BY <1>2 DEF Fail, Goto, IInv, PlaceInv
  <2>2. TypeInv' /\ PlaceInv'
    BY <1>1, <2>1 DEF IInv, TypeInv, PlaceInv, directory, checks, results
  <2>3. OpenInv' /\ CheckInv' /\ FinalInv' /\ StreamInv'
    BY <1>1, <1>2, <2>1 DEF IInv, OpenInv, OpenedUpTo, Opened, CheckInv, CheckedUpTo,
            Vouched, Unchanged, Whole, FinalInv, StreamInv, directory, checks, results
  <2>4. RestoreInv'
    BY <1>1, <2>1 DEF RestoreInv, RestoredUpTo
  <2>5. QuietInv'
    BY <1>1, <1>2, <2>1, NotOpening DEF IInv, QuietInv, checks
  <2> QED BY <1>1, <2>2, <2>3, <2>4, <2>5, NotOpening DEF IInv, checks
<1>3. CASE pc # "restore"
  BY <1>1, <1>3, LeavingKeeps DEF Fail, Goto, results
<1> QED BY <1>2, <1>3

\* A file that is written to is not vouched for any more, unless it was opened
\* hastily.
LEMMA OverwriteKeeps == ASSUME IInv, NEW f \in Files, Overwrite(f) PROVE IInv'
<1> USE DEF Working, Opening, Restoring
<1>1. PICK b \in Pass, v \in Content : block' = [block EXCEPT ![f][b] = v]
  BY DEF Overwrite
<1>2. /\ stamp' = [stamp EXCEPT ![f] = clock] /\ writes' = writes + 1
      /\ UNCHANGED <<clock, counters, checks, results, refusal>>
  BY DEF Overwrite
<1>3. block[f] \in [Pass -> Content] /\ clock \in 0..MaxTime
  BY DEF IInv, TypeInv
<1>4. [block[f] EXCEPT ![b] = v] \in [Pass -> Content]
  BY <1>3
<1>5. /\ block' \in [Files -> [Pass -> Content]] /\ stamp' \in [Files -> 0..MaxTime]
      /\ \A g \in Files : g # f => block'[g] = block[g] /\ stamp'[g] = stamp[g]
      /\ stamp'[f] = clock
  BY <1>1, <1>2, <1>3, <1>4 DEF IInv, TypeInv
<1>6. TypeInv' /\ PlaceInv'
  BY <1>2, <1>5 DEF IInv, TypeInv, PlaceInv, counters, checks, results
<1>7. TimeInv' /\ OpenInv' /\ FinalInv' /\ StreamInv'
  <2>1. TimeInv'
    BY <1>2, <1>3, <1>5 DEF IInv, TypeInv, TimeInv, Opened, checks
  <2>2. OpenInv' /\ FinalInv' /\ StreamInv'
    BY <1>2 DEF IInv, OpenInv, OpenedUpTo, Opened, FinalInv, Whole, StreamInv, counters,
                checks, results
  <2> QED BY <2>1, <2>2
<1>8. ~Vouched(f)' /\ \A g \in Files : Vouched(g)' => Vouched(g) /\ block'[g] = block[g]
  <2>1. f \notin hasty => identity[f] # clock
    BY <1>3, Bounds DEF IInv, TimeInv, Opened, NotOpened
  <2> QED BY <1>2, <1>5, <2>1 DEF Vouched, Unchanged, checks
<1>9. pc \in {"crc", "decode", "restore"} => i \in Files
  BY DEF IInv, TypeInv
<1>10. CheckInv'
  <2>1. pc \in Working => \A r \in 1..CheckedUpTo : r \in Files
    BY Bounds DEF IInv, PlaceInv, CheckedUpTo, Files
  <2> QED BY <1>2, <1>8, <1>9, <2>1 DEF IInv, CheckInv, CheckedUpTo, Whole, counters, checks
<1>11. RestoreInv'
  <2>1. \A r \in 1..RestoredUpTo : r \in Files
    BY Bounds DEF IInv, PlaceInv, RestoredUpTo, Files
  <2> QED BY <1>2, <1>8, <1>9, <2>1 DEF IInv, RestoreInv, RestoredUpTo, Whole, counters,
                                        checks, results
<1>12. QuietInv'
  BY <1>2 DEF IInv, TypeInv, QuietInv, Quiet
<1> QED BY <1>6, <1>7, <1>10, <1>11, <1>12 DEF IInv

\* What does not depend on the clock stays.
LEMMA ClockAside ==
  ASSUME IInv, UNCHANGED <<block, stamp, writes, counters, checks, results, refusal>>
  PROVE  /\ PlaceInv' /\ OpenInv' /\ CheckInv' /\ RestoreInv' /\ FinalInv' /\ QuietInv'
         /\ StreamInv'
<1> USE DEF counters, checks, results
<1>1. PlaceInv' /\ OpenInv' /\ FinalInv' /\ StreamInv'
  BY DEF IInv, PlaceInv, OpenInv, OpenedUpTo, Opened, FinalInv, Whole, StreamInv
<1>2. CheckInv' /\ RestoreInv'
  BY DEF IInv, CheckInv, CheckedUpTo, RestoreInv, RestoredUpTo, Vouched, Unchanged, Whole
<1>3. QuietInv'
  BY DEF IInv, QuietInv, Quiet, Opened, Unchanged, Whole
<1> QED BY <1>1, <1>2, <1>3

LEMMA TickKeeps == ASSUME IInv, Tick PROVE IInv'
<1>1. /\ clock' = clock + 1 /\ clock < MaxTime
      /\ UNCHANGED <<block, stamp, writes, counters, checks, results, refusal>>
  BY DEF Tick
<1>2. /\ clock \in 0..MaxTime
      /\ \A f \in Files : stamp[f] \in 0..MaxTime /\ identity[f] \in 0..NotOpened
  BY DEF IInv, TypeInv
<1>3. TypeInv' /\ TimeInv'
  <2>1. TypeInv'
    BY <1>1, <1>2, Bounds DEF IInv, TypeInv, counters, checks, results
  <2>2. TimeInv'
    BY <1>1, <1>2, Bounds DEF IInv, TimeInv, Opened, NotOpened, counters, checks, results
  <2> QED BY <2>1, <2>2
<1> QED BY <1>1, <1>3, ClockAside DEF IInv

LEMMA NextKeepsInv == ASSUME IInv, [Next]_vars PROVE IInv'
<1>1. CASE Prepare
  BY <1>1, ReadCatalogKeeps, OpenSourceKeeps, CrcChunkKeeps, CrcEndKeeps, RecheckKeeps,
     BeforeRestoringKeeps, DecodeBlockKeeps, DecodeEndKeeps, RestoreBlockKeeps,
     RestoreEndKeeps, UnlinkStreamKeeps, FinalCheckKeeps, LeaveOrRemoveKeeps, FailKeeps
  DEF Prepare
<1>2. CASE Tick
  BY <1>2, TickKeeps
<1>3. CASE \E f \in Files : Overwrite(f)
  BY <1>3, OverwriteKeeps
<1>4. CASE UNCHANGED vars
  <2>1. UNCHANGED <<block, stamp, writes, counters, checks, results, refusal>>
        /\ UNCHANGED clock
    BY <1>4 DEF vars, directory
  <2>2. TypeInv' /\ TimeInv'
    BY <2>1 DEF IInv, TypeInv, TimeInv, Opened, counters, checks, results
  <2> QED BY <2>1, <2>2, ClockAside DEF IInv
<1> QED BY <1>1, <1>2, <1>3, <1>4 DEF Next

LEMMA SpecKeepsInv == Spec => []IInv
BY InitIsInv, NextKeepsInv, PTL DEF Spec
-----------------------------------------------------------------------------
(***************************************************************************)
(* _prepare_update_inputs yields images of the one update that the catalog *)
(* vouches for, whatever is written to the directory and at whatever       *)
(* moment, as far as the times of files can tell; and it refuses no whole  *)
(* update that is left alone.                                              *)
(***************************************************************************)
THEOREM OneUpdateIsDelivered == Spec => []DeliversOneUpdate
<1>1. ASSUME IInv PROVE OneRelease
  BY <1>1 DEF IInv, FinalInv, OneRelease, At
<1>2. ASSUME IInv PROVE RefusedForAReason
  <2>1. writes \in Nat
    BY <1>2 DEF IInv, TypeInv
  <2> QED BY <1>2, <2>1 DEF IInv, QuietInv, Quiet, RefusedForAReason
<1>3. ASSUME IInv PROVE DeliversOneUpdate
  BY <1>1, <1>2, <1>3 DEF DeliversOneUpdate
<1> QED BY <1>3, SpecKeepsInv, PTL

(***************************************************************************)
(* The finally block of the restoring keeps at most one decrypted image,   *)
(* and none while the caller builds.                                       *)
(***************************************************************************)
THEOREM OneStreamAtMost == Spec => []AtMostOneStream
<1>1. ASSUME IInv PROVE AtMostOneStream
  BY <1>1 DEF IInv, StreamInv, AtMostOneStream, At, Restoring
<1> QED BY <1>1, SpecKeepsInv, PTL
-----------------------------------------------------------------------------
(***************************************************************************)
(* UpdateCatalog.  What the table holds when the loop has come to line n.  *)
(***************************************************************************)
Paths == Seq(STRING)

Sound(line) == SafePath(line) /\ Numbers(line)

\* A line that has been read is in the table, and its path and number are its
\* own among the lines so far.
ReadInv ==
  /\ \A m \in 1 .. n - 1 :
       /\ Sound(catalog.lines[m])
       /\ Normalized(catalog.lines[m]) \in DOMAIN records
       /\ records[Normalized(catalog.lines[m])] = Record(catalog.lines[m])
       /\ catalog.lines[m].id \in ids
  /\ \A l, m \in 1 .. n - 1 :
       Normalized(catalog.lines[l]) = Normalized(catalog.lines[m]) => l = m
  /\ \A p \in DOMAIN records : \E m \in 1 .. n - 1 : p = Normalized(catalog.lines[m])
  /\ \A id \in ids : \E m \in 1 .. n - 1 : id = catalog.lines[m].id

CatalogInv ==
  /\ catalog.package \in {Package, "another"} /\ catalog.lines \in Seq(Lines)
  /\ n \in 1 .. Len(catalog.lines) + 1
  /\ place \in {"header", "line", "parsed", "refused", "matches", "differs"}
  /\ place = "header" => n = 1
  /\ place \notin {"header", "refused"} => catalog.package = Package
  /\ place # "refused" => ReadInv
  /\ Accepted => n = Len(catalog.lines) + 1 /\ Required \subseteq DOMAIN records
  /\ SameBits /\ CatalogRefusedForAReason
-----------------------------------------------------------------------------
(***************************************************************************)
(* A safe line names a file if that is its path without the package.       *)
(***************************************************************************)
LEMMA NamesItsPath ==
  ASSUME NEW line \in Lines, catalog.package = Package, SafePath(line)
  PROVE  /\ Normalized(line) \in Paths
         /\ \A p \in Paths : Names(line, p) <=> p = Normalized(line)
<1>1. line.parts \in Seq(STRING) /\ line.parts # <<>> /\ line.name \in STRING
  BY LinesAssumption
<1>2. Tail(line.parts) \in Paths
  BY <1>1, HeadTailProperties DEF Paths
<1>3. /\ Normalized(line) = Tail(line.parts) \o <<line.name>>
      /\ Normalized(line) \in Paths
  <2>1. Normalized(line) = Tail(line.parts) \o <<line.name>>
    BY <1>1, <1>2, AppendIsConcat, Zenon DEF Normalized, Paths
  <2> QED BY <1>1, <1>2, <2>1, AppendProperties, Zenon DEF Normalized, Paths
<1>4. line.parts = <<Package>> \o Tail(line.parts) /\ <<Package>> \in Seq(STRING)
  BY <1>1, LinesAssumption DEF SafePath
<1>5. line.parts \o <<line.name>> = <<Package>> \o Normalized(line)
  <2>1. <<line.name>> \in Seq(STRING)
    BY <1>1
  <2>2. (<<Package>> \o Tail(line.parts)) \o <<line.name>>
          = <<Package>> \o (Tail(line.parts) \o <<line.name>>)
    <3> DEFINE s == <<Package>>
               t == Tail(line.parts)
               u == <<line.name>>
    <3>1. s \in Seq(STRING) /\ t \in Seq(STRING) /\ u \in Seq(STRING) /\ line.parts = s \o t
      BY <1>2, <1>4, <2>1 DEF Paths
    <3> HIDE DEF s, t, u
    <3>2. (s \o t) \o u = s \o (t \o u)
      BY ONLY <3>1, ConcatAssociative
    <3> QED BY <3>1, <3>2 DEF s, t, u
  <2> QED BY <1>3, <1>4, <2>2, Zenon
<1>6. ASSUME NEW p \in Paths, NEW q \in Paths, <<Package>> \o p = <<Package>> \o q PROVE p = q
  <2>1. Tail(<<Package>> \o p) = p /\ Tail(<<Package>> \o q) = q
    BY <1>4 DEF Paths
  <2> QED BY <1>6, <2>1
<1> QED BY <1>3, <1>5, <1>6 DEF Names
-----------------------------------------------------------------------------
(***************************************************************************)
(* The lines that have been read before line n are lines of the catalog.   *)
(***************************************************************************)
LEMMA LinesAreLines ==
  ASSUME CatalogInv
  PROVE  /\ \A m \in DOMAIN catalog.lines : catalog.lines[m] \in Lines
         /\ DOMAIN catalog.lines = 1 .. Len(catalog.lines)
         /\ Len(catalog.lines) \in Nat
         /\ 1 .. n - 1 \subseteq DOMAIN catalog.lines
BY DEF CatalogInv

(***************************************************************************)
(* A step that leaves the table alone keeps what it holds.                 *)
(***************************************************************************)
LEMMA TableStays ==
  ASSUME ReadInv, UNCHANGED <<catalog, records, ids, n>> PROVE ReadInv'
<1>1. catalog' = catalog /\ records' = records /\ ids' = ids /\ n' = n
  OBVIOUS
<1>2. ASSUME NEW m
      PROVE  /\ Sound(catalog.lines[m])' = Sound(catalog.lines[m])
             /\ Normalized(catalog.lines[m])' = Normalized(catalog.lines[m])
             /\ Record(catalog.lines[m])' = Record(catalog.lines[m])
  BY <1>1, Zenon DEF Sound, SafePath, Numbers, Normalized, Record
<1> QED BY <1>1, <1>2 DEF ReadInv

(***************************************************************************)
(* A line that is read enters the table; its path and number are new.      *)
(***************************************************************************)
LEMMA ReadingKeepsReadInv ==
  ASSUME CatalogInv, place = "line", n <= Len(catalog.lines), Sound(catalog.lines[n]),
         NEW p, p = Normalized(catalog.lines[n]), p \notin DOMAIN records,
         catalog.lines[n].id \notin ids,
         records' = [q \in DOMAIN records \union {p} |->
                       IF q = p THEN Record(catalog.lines[n]) ELSE records[q]],
         ids' = ids \union {catalog.lines[n].id}, n' = n + 1, UNCHANGED catalog
  PROVE  ReadInv'
<1>1. ReadInv /\ n \in Nat \ {0}
  BY DEF CatalogInv
<1>2. 1 .. n' - 1 = 1 .. n - 1 \union {n} /\ n \notin 1 .. n - 1
  BY <1>1
<1>3. ASSUME NEW m \in 1 .. n' - 1
      PROVE  /\ Sound(catalog.lines[m])'
             /\ Normalized(catalog.lines[m])' \in DOMAIN records'
             /\ records'[Normalized(catalog.lines[m])'] = Record(catalog.lines[m])'
             /\ catalog.lines[m].id \in ids'
  <2>1. /\ Sound(catalog.lines[m])' = Sound(catalog.lines[m])
        /\ Normalized(catalog.lines[m])' = Normalized(catalog.lines[m])
        /\ Record(catalog.lines[m])' = Record(catalog.lines[m])
    BY Zenon DEF Sound, SafePath, Numbers, Normalized, Record
  <2>2. CASE m = n
    BY <2>1, <2>2
  <2>3. CASE m \in 1 .. n - 1
    <3>1. /\ Sound(catalog.lines[m]) /\ Normalized(catalog.lines[m]) \in DOMAIN records
          /\ records[Normalized(catalog.lines[m])] = Record(catalog.lines[m])
          /\ catalog.lines[m].id \in ids
      BY <1>1, <2>3 DEF ReadInv
    <3> QED BY <2>1, <3>1
  <2> QED BY <1>2, <2>2, <2>3
<1>4. \A m : Normalized(catalog.lines[m])' = Normalized(catalog.lines[m])
  BY Zenon DEF Normalized
<1>5. ASSUME NEW l \in 1 .. n' - 1, NEW m \in 1 .. n' - 1,
             Normalized(catalog.lines[l]) = Normalized(catalog.lines[m])
      PROVE  l = m
  <2>1. \A j \in 1 .. n - 1 : Normalized(catalog.lines[j]) # p
    BY <1>1 DEF ReadInv
  <2>2. \A j, h \in 1 .. n - 1 :
          Normalized(catalog.lines[j]) = Normalized(catalog.lines[h]) => j = h
    BY <1>1 DEF ReadInv
  <2> QED BY <1>2, <1>5, <2>1, <2>2
<1>6. ASSUME NEW q \in DOMAIN records'
      PROVE  \E m \in 1 .. n' - 1 : q = Normalized(catalog.lines[m])
  <2>1. q \in DOMAIN records \/ q = p
    OBVIOUS
  <2>2. q \in DOMAIN records => \E m \in 1 .. n - 1 : q = Normalized(catalog.lines[m])
    BY <1>1 DEF ReadInv
  <2> QED BY <1>2, <2>1, <2>2
<1>7. ASSUME NEW id \in ids'
      PROVE  \E m \in 1 .. n' - 1 : id = catalog.lines[m].id
  BY <1>1, <1>2 DEF ReadInv
<1>8. \A l, m \in 1 .. n' - 1 :
        Normalized(catalog.lines[l])' = Normalized(catalog.lines[m])' => l = m
  BY <1>4, <1>5, Zenon
<1>9. \A q \in DOMAIN records' : \E m \in 1 .. n' - 1 : q = Normalized(catalog.lines[m])'
  BY <1>4, <1>6, Zenon
<1>10. \A id \in ids' : \E m \in 1 .. n' - 1 : id = (catalog.lines[m].id)'
  BY <1>7, Zenon
<1> QED BY <1>3, <1>8, <1>9, <1>10, Zenon DEF ReadInv

(***************************************************************************)
(* CatalogRefusedForAReason: a refusal has one of four reasons, and they   *)
(* stay while the catalog and the table do.                                *)
(***************************************************************************)
Reason ==
  \/ catalog.package # Package
  \/ \E j \in DOMAIN catalog.lines : ~SafePath(catalog.lines[j]) \/ ~Numbers(catalog.lines[j])
  \/ \E j, h \in DOMAIN catalog.lines :
       /\ j # h
       /\ \/ catalog.lines[j].id = catalog.lines[h].id
          \/ \E p \in Required \union DOMAIN records :
               Names(catalog.lines[j], p) /\ Names(catalog.lines[h], p)
  \/ \E p \in Required : \A j \in DOMAIN catalog.lines : ~Names(catalog.lines[j], p)

LEMMA ReasonStays ==
  ASSUME UNCHANGED <<catalog, records>>, Reason PROVE CatalogRefusedForAReason'
<1>1. catalog' = catalog /\ records' = records
  OBVIOUS
<1>2. ASSUME NEW j
      PROVE  /\ SafePath(catalog.lines[j])' = SafePath(catalog.lines[j])
             /\ Numbers(catalog.lines[j])' = Numbers(catalog.lines[j])
             /\ \A p : Names(catalog.lines[j], p)' = Names(catalog.lines[j], p)
  BY <1>1, Zenon DEF SafePath, Numbers, Names
<1>3. CASE catalog.package # Package
  BY <1>1, <1>3, Zenon DEF CatalogRefusedForAReason
<1>4. CASE \E j \in DOMAIN catalog.lines : ~SafePath(catalog.lines[j]) \/ ~Numbers(catalog.lines[j])
  BY <1>1, <1>2, <1>4, Zenon DEF CatalogRefusedForAReason
<1>5. CASE \E j, h \in DOMAIN catalog.lines :
             /\ j # h
             /\ \/ catalog.lines[j].id = catalog.lines[h].id
                \/ \E p \in Required \union DOMAIN records :
                     Names(catalog.lines[j], p) /\ Names(catalog.lines[h], p)
  BY <1>1, <1>2, <1>5, Zenon DEF CatalogRefusedForAReason
<1>6. CASE \E p \in Required : \A j \in DOMAIN catalog.lines : ~Names(catalog.lines[j], p)
  BY <1>1, <1>2, <1>6, Zenon DEF CatalogRefusedForAReason
<1> QED BY <1>3, <1>4, <1>5, <1>6 DEF Reason

(***************************************************************************)
(* A statement that refuses for a reason keeps the invariant.              *)
(***************************************************************************)
LEMMA RefusedWell ==
  ASSUME CatalogInv, Refuse, CatalogRefusedForAReason' PROVE CatalogInv'
BY Zenon DEF CatalogInv, Refuse, MoveTo, SameBits, Accepted

LEMMA InitReads ==
  CatalogInit => CatalogInv
<1> SUFFICES ASSUME CatalogInit PROVE CatalogInv
  OBVIOUS
<1>1. catalog.package \in {Package, "another"} /\ catalog.lines \in BoundedSeq(Lines, MaxLines)
  BY DEF CatalogInit
<1>2. catalog.lines \in Seq(Lines)
  BY <1>1, LinesAssumption DEF BoundedSeq, SeqOf
<1>3. ReadInv
  BY DEF CatalogInit, ReadInv, NoRecords
<1>4. n \in 1 .. Len(catalog.lines) + 1
  BY <1>2 DEF CatalogInit
<1> QED BY <1>1, <1>2, <1>3, <1>4
        DEF CatalogInit, CatalogInv, SameBits, CatalogRefusedForAReason, Accepted

LEMMA HeaderKeepsCatalogInv ==
  ASSUME CatalogInv, ParseHeader PROVE CatalogInv'
<1>1. CASE catalog.package = Package /\ catalog.lines # <<>>
  <2>1. n' = n /\ place' = "line" /\ UNCHANGED <<catalog, records, ids, compared>>
    BY <1>1 DEF ParseHeader, MoveTo, CatalogInv
  <2>2. ReadInv'
    <3>1. ReadInv
      BY DEF CatalogInv, ParseHeader
    <3> QED BY <2>1, <3>1, TableStays
  <2> QED BY <1>1, <2>1, <2>2
          DEF CatalogInv, ParseHeader, SameBits, CatalogRefusedForAReason, Accepted, compared
<1>2. CASE ~(catalog.package = Package /\ catalog.lines # <<>>)
  <2>1. Refuse
    BY <1>2 DEF ParseHeader
  <2>2. Reason
    <3>1. CASE catalog.package # Package
      BY <3>1 DEF Reason
    <3>2. CASE catalog.lines = <<>>
      <4>1. PICK p \in Required : TRUE
        BY LinesAssumption
      <4>2. \A j \in DOMAIN catalog.lines : FALSE
        BY <3>2
      <4> QED BY <4>1, <4>2, Zenon DEF Reason
    <3> QED BY <1>2, <3>1, <3>2
  <2> QED BY <2>1, <2>2, ReasonStays, RefusedWell DEF Refuse
<1> QED BY <1>1, <1>2

LEMMA LineKeepsCatalogInv ==
  ASSUME CatalogInv, ParseLine PROVE CatalogInv'
<1> DEFINE line == catalog.lines[n]
<1>0. /\ n \in DOMAIN catalog.lines /\ line \in Lines /\ ReadInv
      /\ catalog.package = Package /\ n \in 1 .. Len(catalog.lines) /\ place = "line"
  BY LinesAreLines DEF CatalogInv, ParseLine
<1>1. CASE Sound(line) /\ Normalized(line) \notin DOMAIN records /\ line.id \notin ids
  <2>1. /\ records' = [p \in DOMAIN records \union {Normalized(line)} |->
                         IF p = Normalized(line) THEN Record(line) ELSE records[p]]
        /\ ids' = ids \union {line.id} /\ n' = n + 1 /\ place' = "line"
        /\ UNCHANGED <<catalog, compared>>
    BY <1>1, Zenon DEF ParseLine, MoveTo, Sound
  <2>2. ReadInv'
    BY <1>0, <1>1, <2>1, ReadingKeepsReadInv
  <2> HIDE DEF line
  <2> QED BY <1>0, <2>1, <2>2
          DEF CatalogInv, SameBits, CatalogRefusedForAReason, Accepted, compared
<1>2. CASE ~(Sound(line) /\ Normalized(line) \notin DOMAIN records /\ line.id \notin ids)
  <2>1. Refuse
    BY <1>2, Zenon DEF ParseLine, Sound
  <2>2. Reason
    <3>1. CASE ~Sound(line)
      BY <1>0, <3>1, Zenon DEF Sound, Reason
    <3>2. CASE Sound(line) /\ Normalized(line) \in DOMAIN records
      <4>1. PICK m \in 1 .. n - 1 : Normalized(line) = Normalized(catalog.lines[m])
        BY <1>0, <3>2 DEF ReadInv
      <4>2. m \in DOMAIN catalog.lines /\ m # n /\ catalog.lines[m] \in Lines /\ Sound(catalog.lines[m])
        BY <1>0, LinesAreLines DEF ReadInv
      <4>3. Names(line, Normalized(line)) /\ Names(catalog.lines[m], Normalized(line))
        BY <1>0, <3>2, <4>1, <4>2, NamesItsPath DEF Sound
      <4> QED BY <1>0, <4>2, <4>3, <3>2 DEF Reason
    <3>3. CASE line.id \in ids
      <4>1. PICK m \in 1 .. n - 1 : line.id = catalog.lines[m].id
        BY <1>0, <3>3 DEF ReadInv
      <4>2. m \in DOMAIN catalog.lines /\ m # n
        BY <1>0, LinesAreLines
      <4> QED BY <1>0, <4>1, <4>2, Zenon DEF Reason
    <3> QED BY <1>2, <3>1, <3>2, <3>3
  <2> QED BY <2>1, <2>2, ReasonStays, RefusedWell DEF Refuse
<1> QED BY <1>1, <1>2

LEMMA MissingKeepsCatalogInv ==
  ASSUME CatalogInv, CheckMissing PROVE CatalogInv'
<1>0. /\ place = "line" /\ n = Len(catalog.lines) + 1 /\ ReadInv /\ catalog.package = Package
      /\ DOMAIN catalog.lines = 1 .. n - 1
  BY LinesAreLines DEF CatalogInv, CheckMissing
<1>1. CASE Required \subseteq DOMAIN records
  <2>1. n' = n /\ place' = "parsed" /\ UNCHANGED <<catalog, records, ids, compared>>
    BY <1>1 DEF CheckMissing, MoveTo
  <2>2. ReadInv'
    BY <1>0, <2>1, TableStays
  <2> QED BY <1>0, <1>1, <2>1, <2>2
          DEF CatalogInv, SameBits, CatalogRefusedForAReason, Accepted, compared
<1>2. CASE ~(Required \subseteq DOMAIN records)
  <2>1. Refuse
    BY <1>2 DEF CheckMissing
  <2>2. PICK p \in Required : p \notin DOMAIN records
    BY <1>2
  <2>3. ASSUME NEW j \in DOMAIN catalog.lines PROVE ~Names(catalog.lines[j], p)
    <3>1. catalog.lines[j] \in Lines /\ Sound(catalog.lines[j])
          /\ Normalized(catalog.lines[j]) \in DOMAIN records
      BY <1>0, LinesAreLines DEF ReadInv
    <3>2. p \in Paths
      BY LinesAssumption DEF Paths
    <3> QED BY <1>0, <2>2, <3>1, <3>2, NamesItsPath DEF Sound
  <2> QED BY <2>1, <2>3, ReasonStays, RefusedWell DEF Reason, Refuse
<1> QED BY <1>1, <1>2

(***************************************************************************)
(* A signed number is the CRC with its bits.                               *)
(***************************************************************************)
LEMMA SignedBits ==
  ASSUME NEW c \in Crcs, NEW r \in -Half .. Half - 1
  PROVE  SignedCrc32(c) = r <=> c = r % CrcMod
<1>1. /\ CrcMod \in Nat /\ CrcMod > 0 /\ Half \in Nat /\ CrcMod = 2 * Half
      /\ c \in Int /\ 0 <= c /\ c < CrcMod /\ r \in Int /\ -Half <= r /\ r < Half
  BY LinesAssumption DEF Half, Crcs
<1>2. /\ r >= 0 => r % CrcMod = r
      /\ r < 0 => r % CrcMod = r + CrcMod
  <2> HIDE DEF Half
  <2>1. /\ r % CrcMod \in 0 .. CrcMod - 1 /\ r = CrcMod * (r \div CrcMod) + (r % CrcMod)
        /\ r \div CrcMod \in Int
    BY <1>1
  <2> DEFINE q == r \div CrcMod
             m == r % CrcMod
  <2>2. q \in Int /\ m \in Int /\ 0 <= m /\ m < CrcMod /\ r = CrcMod * q + m
    BY <2>1, <1>1
  <2> HIDE DEF q, m
  <2>3. q \in {-1, 0}
    BY <1>1, <2>2
  <2>4. r >= 0 => q = 0
    BY <1>1, <2>2, <2>3
  <2>5. r < 0 => q = -1
    BY <1>1, <2>2, <2>3
  <2>6. (r >= 0 => m = r) /\ (r < 0 => m = r + CrcMod)
    BY <1>1, <2>2, <2>4, <2>5
  <2> QED BY <2>6 DEF m
<1> HIDE DEF Half
<1> QED BY <1>1, <1>2 DEF SignedCrc32, SignedFrom

LEMMA CompareKeepsCatalogInv ==
  ASSUME CatalogInv, CompareCrc PROVE CatalogInv'
<1>1. PICK p \in Required, c \in Crcs :
        /\ path' = p /\ crc' = c /\ n' = n
        /\ place' = IF SignedCrc32(c) = records[p].crc THEN "matches" ELSE "differs"
        /\ UNCHANGED <<catalog, records, ids>>
  BY Zenon DEF CompareCrc, MoveTo
<1>2. ReadInv /\ Required \subseteq DOMAIN records
  BY DEF CatalogInv, CompareCrc, Accepted
<1>3. records[p].crc \in -Half .. Half - 1
  <2>1. PICK m \in 1 .. n - 1 : p = Normalized(catalog.lines[m])
    BY <1>2 DEF ReadInv
  <2>2. Sound(catalog.lines[m]) /\ records[p] = Record(catalog.lines[m])
    BY <1>2, <2>1 DEF ReadInv
  <2> QED BY <2>2 DEF Sound, Numbers, Record
<1>4. SameBits'
  BY <1>1, <1>3, SignedBits DEF SameBits
<1>5. ReadInv'
  BY <1>1, <1>2, TableStays
<1> QED BY <1>1, <1>2, <1>4, <1>5 DEF CatalogInv, CompareCrc, CatalogRefusedForAReason, Accepted

(***************************************************************************)
(* The line of a file is the one whose path it is.                         *)
(***************************************************************************)
LEMMA ReadTableVouches ==
  CatalogInv => OneVoucher
<1> SUFFICES ASSUME CatalogInv, Accepted, NEW p \in Required \union DOMAIN records
             PROVE  \E h \in DOMAIN catalog.lines :
                      /\ Names(catalog.lines[h], p) /\ records[p] = Record(catalog.lines[h])
                      /\ \A j \in DOMAIN catalog.lines : Names(catalog.lines[j], p) => j = h
  BY DEF OneVoucher
<1>1. /\ ReadInv /\ catalog.package = Package /\ DOMAIN catalog.lines = 1 .. n - 1
      /\ p \in DOMAIN records
  BY LinesAreLines DEF CatalogInv, Accepted
<1>2. PICK h \in 1 .. n - 1 : p = Normalized(catalog.lines[h])
  BY <1>1 DEF ReadInv
<1>3. ASSUME NEW j \in 1 .. n - 1
      PROVE  catalog.lines[j] \in Lines /\ Sound(catalog.lines[j])
  BY <1>1, LinesAreLines DEF ReadInv
<1>4. p \in Paths
  BY <1>1, <1>2, <1>3, NamesItsPath DEF Sound
<1>5. ASSUME NEW j \in 1 .. n - 1
      PROVE  Names(catalog.lines[j], p) <=> p = Normalized(catalog.lines[j])
  BY <1>1, <1>3, <1>4, NamesItsPath DEF Sound
<1>6. records[p] = Record(catalog.lines[h])
  BY <1>1, <1>2 DEF ReadInv
<1>7. \A j \in 1 .. n - 1 : Normalized(catalog.lines[j]) = p => j = h
  BY <1>1, <1>2 DEF ReadInv
<1> QED BY <1>1, <1>2, <1>5, <1>6, <1>7

(***************************************************************************)
(* CatalogVouches for any catalog: of an accepted one, one line vouches    *)
(* for each file in whichever spelling, a file matches exactly when the    *)
(* bits of its CRC are the recorded ones, and a refusal has a reason.      *)
(***************************************************************************)
THEOREM CatalogIsTrusted ==
  CatalogSpec => []CatalogVouches
<1>1. CatalogInv /\ [CatalogNext]_catalogVars => CatalogInv'
  <2> SUFFICES ASSUME CatalogInv, [CatalogNext]_catalogVars PROVE CatalogInv'
    OBVIOUS
  <2>1. CASE ParseHeader
    BY <2>1, HeaderKeepsCatalogInv
  <2>2. CASE ParseLine
    BY <2>2, LineKeepsCatalogInv
  <2>3. CASE CheckMissing
    BY <2>3, MissingKeepsCatalogInv
  <2>4. CASE CompareCrc
    BY <2>4, CompareKeepsCatalogInv
  <2>5. CASE UNCHANGED catalogVars
    <3>1. place # "refused" => ReadInv'
      BY <2>5, TableStays DEF catalogVars, CatalogInv
    <3>2. CatalogRefusedForAReason'
      BY <2>5, ReasonStays DEF catalogVars, CatalogInv, CatalogRefusedForAReason, Reason
    <3> QED BY <2>5, <3>1, <3>2 DEF catalogVars, compared, CatalogInv, SameBits, Accepted
  <2> QED BY <2>1, <2>2, <2>3, <2>4, <2>5 DEF CatalogNext
<1>2. CatalogInv => CatalogVouches
  BY ReadTableVouches DEF CatalogInv, CatalogVouches
<1> QED BY <1>1, <1>2, InitReads, PTL DEF CatalogSpec
=============================================================================
