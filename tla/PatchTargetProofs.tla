-------------------------- MODULE PatchTargetProofs --------------------------
(***************************************************************************)
(* PatchTarget for every file size, every byte set and list of hunks.      *)
(***************************************************************************)
EXTENDS PatchTarget, SequenceTheorems, TLAPS

Positions == 0 .. FileSize - 1

\* Bytes of the file outside the first n hunks.
Outside(n, x) == \A i \in 1..n : x \notin Span(hunks[i])

(***************************************************************************)
(* The invariants of the three loops.                                      *)
(***************************************************************************)
ScanInv ==
  pc = "scan" =>
    /\ previousEnd = IF k = 1 THEN 0 ELSE HunkEnd(hunks[k - 1])
    /\ \A i \in 1 .. k - 1 : HunkEnd(hunks[i]) <= previousEnd
    /\ \A i, j \in 1 .. k - 1 :
         i # j => Span(hunks[i]) \intersect Span(hunks[j]) = {}
    /\ desired = data

Scanned ==
  pc \in {"inspect", "reconstruct", "write", "done"} => Disjoint(hunks)

InspectInv ==
  pc \in {"inspect", "reconstruct"} =>
    /\ \A i \in 1 .. k - 1 :
         /\ \/ Reads(data, hunks[i], hunks[i].before)
            \/ Reads(data, hunks[i], hunks[i].after)
         /\ Reads(desired, hunks[i], hunks[i].before)
    /\ \A x \in Positions : Outside(k - 1, x) => desired[x] = data[x]
    /\ pc = "reconstruct" => k = Len(hunks) + 1

WriteInv ==
  pc \in {"write", "done"} =>
    /\ Mixture(data, source, hunks)
    /\ \A i \in 1 .. k - 1 : Reads(desired, hunks[i], hunks[i].after)
    /\ \A x \in Positions : Outside(k - 1, x) => desired[x] = source[x]
    /\ pc = "done" => k = Len(hunks) + 1

IInv ==
  /\ TypeOK /\ ScanInv /\ Scanned /\ InspectInv /\ WriteInv /\ RefusesNoMixture

(***************************************************************************)
(* Facts about hunks and Overwrite.                                        *)
(***************************************************************************)
LEMMA HunkFacts ==
  ASSUME NEW h \in Hunk
  PROVE  /\ h.offset \in Nat /\ HunkEnd(h) \in Nat
         /\ h.offset < HunkEnd(h) /\ HunkEnd(h) <= FileSize
         /\ h.before \in [1 .. HunkEnd(h) - h.offset -> Byte]
         /\ h.after \in [1 .. HunkEnd(h) - h.offset -> Byte]
<1>1. PICK n \in 1..FileSize :
        h \in [offset : 0 .. FileSize - n,
               before : [1..n -> Byte], after : [1..n -> Byte]]
  BY DEF Hunk
<1>2. h.before \in Seq(Byte) /\ Len(h.before) = n
  BY <1>1, FileSizeAssumption
<1>3. QED
  BY <1>1, <1>2, FileSizeAssumption DEF HunkEnd

LEMMA SpanInFile == \A h \in Hunk : Span(h) \subseteq Positions
  BY HunkFacts, FileSizeAssumption DEF Span, Positions

LEMMA HunksFacts ==
  ASSUME hunks \in SortedHunks
  PROVE  /\ Len(hunks) \in Nat /\ DOMAIN hunks = 1 .. Len(hunks)
         /\ \A i \in 1 .. Len(hunks) : hunks[i] \in Hunk
         /\ \A i, j \in 1 .. Len(hunks) : i < j => hunks[i].offset <= hunks[j].offset
<1>1. PICK n \in 1..MaxHunks : hunks \in [1..n -> Hunk]
  BY DEF SortedHunks
<1>2. hunks \in Seq(Hunk) /\ Len(hunks) = n
  BY <1>1, MaxHunksAssumption
<1>3. QED
  BY <1>1, <1>2, MaxHunksAssumption DEF SortedHunks

LEMMA OverwriteFacts ==
  ASSUME NEW f \in File, NEW h \in Hunk,
         NEW bytes \in [1 .. HunkEnd(h) - h.offset -> Byte]
  PROVE  /\ Overwrite(f, h, bytes) \in File
         /\ Reads(Overwrite(f, h, bytes), h, bytes)
         /\ \A x \in Positions \ Span(h) : Overwrite(f, h, bytes)[x] = f[x]
<1>1. \A x \in Span(h) : x - h.offset + 1 \in 1 .. HunkEnd(h) - h.offset
  BY HunkFacts DEF Span
<1>2. QED
  BY <1>1, SpanInFile DEF Overwrite, Reads, File, Positions

\* A slice that shares no byte with what is overwritten reads as before.
LEMMA OverwriteKeeps ==
  ASSUME NEW f \in File, NEW h \in Hunk, NEW g \in Hunk, NEW other,
         NEW bytes \in [1 .. HunkEnd(h) - h.offset -> Byte],
         Span(g) \intersect Span(h) = {}, Reads(f, g, other)
  PROVE  Reads(Overwrite(f, h, bytes), g, other)
  BY OverwriteFacts, SpanInFile DEF Reads

LEMMA CoveredIsNotOutside ==
  ASSUME hunks \in SortedHunks, NEW x
  PROVE  Covered(hunks, x) <=> ~Outside(Len(hunks), x)
  BY HunksFacts DEF Covered, Outside

\* Two overlapping spans share the first byte of the later one.
LEMMA OverlapIsReal ==
  ASSUME hunks \in SortedHunks, NEW i \in 1 .. Len(hunks), NEW j \in 1 .. Len(hunks),
         i < j, hunks[j].offset < HunkEnd(hunks[i])
  PROVE  ~Disjoint(hunks)
<1>1. hunks[i].offset <= hunks[j].offset
  BY HunksFacts
<1>2. hunks[j].offset \in Span(hunks[i]) \intersect Span(hunks[j])
  BY <1>1, HunksFacts, HunkFacts DEF Span
<1>3. QED
  BY <1>2, HunksFacts DEF Disjoint

\* Hunks read as stock wherever the copy was reverted, so a mixture is always
\* reconstructed.
LEMMA MixtureReconstructs ==
  ASSUME TypeOK, Mixture(data, source, hunks),
         \A i \in 1 .. Len(hunks) : Reads(desired, hunks[i], hunks[i].before),
         \A x \in Positions : Outside(Len(hunks), x) => desired[x] = data[x]
  PROVE  desired = source
<1>1. \A x \in Positions : desired[x] = source[x]
  <2> SUFFICES ASSUME NEW x \in Positions PROVE desired[x] = source[x]
    OBVIOUS
  <2>1. CASE Covered(hunks, x)
    <3>1. PICK i \in DOMAIN hunks : x \in Span(hunks[i])
      BY <2>1 DEF Covered
    <3>2. Reads(source, hunks[i], hunks[i].before)
      BY <3>1 DEF Mixture
    <3>3. Reads(desired, hunks[i], hunks[i].before)
      BY <3>1, HunksFacts DEF TypeOK
    <3>4. QED
      BY <3>1, <3>2, <3>3 DEF Reads
  <2>2. CASE ~Covered(hunks, x)
    BY <2>2, CoveredIsNotOutside DEF TypeOK, Mixture, File, Positions
  <2>3. QED
    BY <2>1, <2>2
<1>2. desired \in [Positions -> Byte] /\ source \in [Positions -> Byte]
  BY DEF TypeOK, File, Positions
<1>3. QED
  BY <1>1, <1>2

\* And what reconstructs is a mixture.
LEMMA ReconstructedIsMixture ==
  ASSUME TypeOK, desired = source,
         \A i \in 1 .. Len(hunks) :
           /\ \/ Reads(data, hunks[i], hunks[i].before)
              \/ Reads(data, hunks[i], hunks[i].after)
           /\ Reads(desired, hunks[i], hunks[i].before),
         \A x \in Positions : Outside(Len(hunks), x) => desired[x] = data[x]
  PROVE  Mixture(data, source, hunks)
  BY CoveredIsNotOutside, HunksFacts DEF Mixture, TypeOK, File, Positions

LEMMA TypeStep == TypeOK /\ ScanInv /\ [Next]_vars => TypeOK'
<1> SUFFICES ASSUME TypeOK, ScanInv, [Next]_vars PROVE TypeOK'
  OBVIOUS
<1>0. Len(hunks) \in Nat /\ (k <= Len(hunks) => hunks[k] \in Hunk)
  BY HunksFacts DEF TypeOK
<1>1. CASE RefuseOverlap \/ RefuseUnrecognized \/ RefuseSource
  BY <1>1 DEF RefuseOverlap, RefuseUnrecognized, RefuseSource, Refuse, inputs, TypeOK
<1>2. CASE ScanHunk
  <2>1. HunkEnd(hunks[k]) \in 0..FileSize
    BY <1>0, <1>2, HunkFacts, FileSizeAssumption DEF ScanHunk, TypeOK
  <2>2. QED
    BY <1>0, <1>2, <2>1 DEF ScanHunk, inputs, TypeOK
<1>3. CASE EndScan \/ EndInspect \/ AcceptSource \/ EndWrite
  BY <1>0, <1>3 DEF EndScan, EndInspect, AcceptSource, EndWrite, inputs, TypeOK
<1>4. CASE InspectStock
  BY <1>0, <1>4 DEF InspectStock, inputs, TypeOK
<1>5. CASE InspectReplacement
  <2>1. desired' \in File
    BY <1>0, <1>5, HunkFacts, OverwriteFacts DEF InspectReplacement, TypeOK
  <2>2. QED
    BY <1>0, <1>5, <2>1 DEF InspectReplacement, inputs, TypeOK
<1>6. CASE WriteHunk
  <2>1. desired' \in File
    BY <1>0, <1>6, HunkFacts, OverwriteFacts DEF WriteHunk, TypeOK
  <2>2. QED
    BY <1>0, <1>6, <2>1 DEF WriteHunk, inputs, TypeOK
<1>7. CASE UNCHANGED vars
  BY <1>7 DEF vars, TypeOK
<1>8. QED
  BY <1>1, <1>2, <1>3, <1>4, <1>5, <1>6, <1>7 DEF Next

LEMMA ScanStep == IInv /\ [Next]_vars => ScanInv' /\ Scanned'
<1> SUFFICES ASSUME IInv, [Next]_vars PROVE ScanInv' /\ Scanned'
  OBVIOUS
<1> USE DEF IInv, TypeOK, ScanInv, Scanned, inputs
<1>0. Len(hunks) \in Nat /\ DOMAIN hunks = 1 .. Len(hunks)
      /\ \A i \in 1 .. Len(hunks) : hunks[i] \in Hunk
  BY HunksFacts
<1>1. CASE RefuseOverlap \/ RefuseUnrecognized \/ RefuseSource
  BY <1>1 DEF RefuseOverlap, RefuseUnrecognized, RefuseSource, Refuse
<1>2. CASE ScanHunk
  <2>1. /\ pc = "scan" /\ k \in 1 .. Len(hunks) /\ previousEnd <= hunks[k].offset
        /\ k' = k + 1 /\ previousEnd' = HunkEnd(hunks[k])
        /\ UNCHANGED <<data, source, hunks, pc, desired, states>>
    BY <1>0, <1>2, HunkFacts DEF ScanHunk, Overlaps
  <2>2. \A i \in 1 .. k - 1 : HunkEnd(hunks[i]) <= hunks[k].offset
    BY <1>0, <2>1, HunkFacts
  <2>3. \A i \in 1 .. k - 1 : Span(hunks[i]) \intersect Span(hunks[k]) = {}
    BY <1>0, <2>1, <2>2, HunkFacts DEF Span
  <2>4. \A i \in 1..k : HunkEnd(hunks[i]) <= HunkEnd(hunks[k])
    BY <1>0, <2>1, <2>2, HunkFacts
  <2>5. ASSUME NEW i \in 1..k, NEW j \in 1..k, i # j
        PROVE  Span(hunks[i]) \intersect Span(hunks[j]) = {}
    <3>1. CASE i = k
      BY <2>3, <2>5, <3>1
    <3>2. CASE j = k
      BY <2>3, <2>5, <3>2
    <3>3. CASE i \in 1 .. k - 1 /\ j \in 1 .. k - 1
      BY <2>1, <2>5, <3>3
    <3>4. QED
      BY <2>5, <3>1, <3>2, <3>3
  <2>6. k' # 1 /\ k' - 1 = k
    BY <2>1
  <2>7. QED
    BY <2>1, <2>4, <2>5, <2>6
<1>3. CASE EndScan
  <2>1. pc = "scan" /\ pc' = "inspect" /\ hunks' = hunks /\ k - 1 = Len(hunks)
    BY <1>0, <1>3 DEF EndScan
  <2>2. Disjoint(hunks)
    BY <1>0, <2>1 DEF Disjoint
  <2>3. QED
    BY <2>1, <2>2 DEF Disjoint
<1>4. CASE InspectStock \/ InspectReplacement \/ EndInspect \/ AcceptSource
           \/ WriteHunk \/ EndWrite
  BY <1>4 DEF InspectStock, InspectReplacement, EndInspect, AcceptSource,
              WriteHunk, EndWrite
<1>5. CASE UNCHANGED vars
  BY <1>5 DEF vars
<1>6. QED
  BY <1>1, <1>2, <1>3, <1>4, <1>5 DEF Next

LEMMA InspectStep == IInv /\ [Next]_vars => InspectInv'
<1> SUFFICES ASSUME IInv, [Next]_vars PROVE InspectInv'
  OBVIOUS
<1> USE DEF InspectInv, inputs
<1>0. /\ TypeOK
      /\ Len(hunks) \in Nat /\ DOMAIN hunks = 1 .. Len(hunks)
      /\ \A i \in 1 .. Len(hunks) : hunks[i] \in Hunk
  BY HunksFacts DEF IInv, TypeOK
<1>1. CASE RefuseOverlap \/ RefuseUnrecognized \/ RefuseSource
  BY <1>1 DEF RefuseOverlap, RefuseUnrecognized, RefuseSource, Refuse
<1>2. CASE ScanHunk \/ AcceptSource \/ WriteHunk \/ EndWrite
  BY <1>2 DEF ScanHunk, AcceptSource, WriteHunk, EndWrite
<1>3. CASE EndScan
  BY <1>3 DEF EndScan, IInv, ScanInv
<1>4. CASE InspectStock
  <2>1. /\ pc = "inspect" /\ k \in 1 .. Len(hunks) /\ Disjoint(hunks)
        /\ Reads(data, hunks[k], hunks[k].before)
        /\ k' = k + 1 /\ UNCHANGED <<data, source, hunks, pc, desired>>
    BY <1>0, <1>4 DEF InspectStock, IInv, Scanned, TypeOK
  <2>2. \A x \in Span(hunks[k]) : x \in Positions /\ Outside(k - 1, x)
    BY <1>0, <2>1, SpanInFile DEF Disjoint, Outside
  <2>3. Reads(desired, hunks[k], hunks[k].before)
    BY <2>1, <2>2 DEF Reads, IInv
  <2>4. \A x \in Positions : Outside(k, x) => desired[x] = data[x]
    BY <2>1 DEF Outside, IInv
  <2>5. k' - 1 = k /\ \A i \in 1..k : i = k \/ i \in 1 .. k - 1
    BY <2>1
  <2>6. \A i \in 1..k :
          /\ \/ Reads(data, hunks[i], hunks[i].before)
             \/ Reads(data, hunks[i], hunks[i].after)
          /\ Reads(desired, hunks[i], hunks[i].before)
    BY <2>1, <2>3, <2>5 DEF IInv
  <2>7. QED
    BY <2>1, <2>4, <2>5, <2>6 DEF Outside, Reads
<1>5. CASE InspectReplacement
  <2>1. /\ pc = "inspect" /\ k \in 1 .. Len(hunks) /\ Disjoint(hunks)
        /\ Reads(data, hunks[k], hunks[k].after)
        /\ desired' = Overwrite(desired, hunks[k], hunks[k].before)
        /\ k' = k + 1 /\ UNCHANGED <<data, source, hunks, pc>>
    BY <1>0, <1>5 DEF InspectReplacement, IInv, Scanned, TypeOK
  <2>2. /\ desired \in File /\ hunks[k] \in Hunk
        /\ hunks[k].before \in [1 .. HunkEnd(hunks[k]) - hunks[k].offset -> Byte]
    BY <1>0, <2>1, HunkFacts DEF TypeOK
  <2>3. Reads(desired', hunks[k], hunks[k].before)
    BY <2>1, <2>2, OverwriteFacts
  <2>4. \A i \in 1 .. k - 1 : Reads(desired', hunks[i], hunks[i].before)
    <3> SUFFICES ASSUME NEW i \in 1 .. k - 1
                 PROVE Reads(desired', hunks[i], hunks[i].before)
      OBVIOUS
    <3>1. Reads(desired, hunks[i], hunks[i].before)
      BY <2>1 DEF IInv
    <3>2. Span(hunks[i]) \intersect Span(hunks[k]) = {} /\ hunks[i] \in Hunk
      BY <1>0, <2>1 DEF Disjoint
    <3>3. QED
      BY <2>1, <2>2, <3>1, <3>2, OverwriteKeeps
  <2>5. \A x \in Positions : Outside(k, x) => desired'[x] = data[x]
    <3>1. \A x : Outside(k, x) => Outside(k - 1, x) /\ x \notin Span(hunks[k])
      BY <2>1 DEF Outside
    <3>2. QED
      BY <2>1, <2>2, <3>1, OverwriteFacts DEF IInv
  <2>6. QED
    BY <2>1, <2>3, <2>4, <2>5 DEF IInv, TypeOK, Outside
<1>6. CASE EndInspect
  BY <1>0, <1>6 DEF EndInspect, IInv, TypeOK, Outside
<1>7. CASE UNCHANGED vars
  BY <1>7 DEF vars, IInv, Outside
<1>8. QED
  BY <1>1, <1>2, <1>3, <1>4, <1>5, <1>6, <1>7 DEF Next

LEMMA WriteStep == IInv /\ [Next]_vars => WriteInv'
<1> SUFFICES ASSUME IInv, [Next]_vars PROVE WriteInv'
  OBVIOUS
<1> USE DEF WriteInv, inputs
<1>0. /\ TypeOK
      /\ Len(hunks) \in Nat /\ DOMAIN hunks = 1 .. Len(hunks)
      /\ \A i \in 1 .. Len(hunks) : hunks[i] \in Hunk
  BY HunksFacts DEF IInv, TypeOK
<1>1. CASE RefuseOverlap \/ RefuseUnrecognized \/ RefuseSource
  BY <1>1 DEF RefuseOverlap, RefuseUnrecognized, RefuseSource, Refuse
<1>2. CASE ScanHunk \/ EndScan \/ InspectStock \/ InspectReplacement \/ EndInspect
  BY <1>2 DEF ScanHunk, EndScan, InspectStock, InspectReplacement, EndInspect
<1>3. CASE AcceptSource
  <2>1. /\ pc = "reconstruct" /\ desired = source /\ k' = 1 /\ pc' = "write"
        /\ UNCHANGED <<data, source, hunks, desired>>
    BY <1>3 DEF AcceptSource
  <2>2. Mixture(data, source, hunks)
    BY <1>0, <2>1, ReconstructedIsMixture DEF IInv, InspectInv
  <2>3. QED
    BY <2>1, <2>2
<1>4. CASE WriteHunk
  <2>1. /\ pc = "write" /\ k \in 1 .. Len(hunks) /\ Disjoint(hunks)
        /\ Mixture(data, source, hunks)
        /\ desired' = Overwrite(desired, hunks[k], hunks[k].after)
        /\ k' = k + 1 /\ UNCHANGED <<data, source, hunks, pc>>
    BY <1>0, <1>4 DEF WriteHunk, IInv, Scanned, TypeOK
  <2>2. /\ desired \in File /\ hunks[k] \in Hunk
        /\ hunks[k].after \in [1 .. HunkEnd(hunks[k]) - hunks[k].offset -> Byte]
    BY <1>0, <2>1, HunkFacts DEF TypeOK
  <2>3. Reads(desired', hunks[k], hunks[k].after)
    BY <2>1, <2>2, OverwriteFacts
  <2>4. \A i \in 1 .. k - 1 : Reads(desired', hunks[i], hunks[i].after)
    <3> SUFFICES ASSUME NEW i \in 1 .. k - 1
                 PROVE Reads(desired', hunks[i], hunks[i].after)
      OBVIOUS
    <3>1. Reads(desired, hunks[i], hunks[i].after)
      BY <2>1 DEF IInv
    <3>2. Span(hunks[i]) \intersect Span(hunks[k]) = {} /\ hunks[i] \in Hunk
      BY <1>0, <2>1 DEF Disjoint
    <3>3. QED
      BY <2>1, <2>2, <3>1, <3>2, OverwriteKeeps
  <2>5. \A x \in Positions : Outside(k, x) => desired'[x] = source[x]
    <3>1. \A x : Outside(k, x) => Outside(k - 1, x) /\ x \notin Span(hunks[k])
      BY <2>1 DEF Outside
    <3>2. QED
      BY <2>1, <2>2, <3>1, OverwriteFacts DEF IInv
  <2>6. QED
    BY <2>1, <2>3, <2>4, <2>5 DEF TypeOK, Outside, Mixture, Reads, Covered
<1>5. CASE EndWrite
  BY <1>0, <1>5 DEF EndWrite, IInv, TypeOK, Outside, Mixture, Covered
<1>6. CASE UNCHANGED vars
  BY <1>6 DEF vars, IInv, Outside, Mixture, Covered
<1>7. QED
  BY <1>1, <1>2, <1>3, <1>4, <1>5, <1>6 DEF Next

LEMMA RefuseStep == IInv /\ [Next]_vars => RefusesNoMixture'
<1> SUFFICES ASSUME IInv, [Next]_vars PROVE RefusesNoMixture'
  OBVIOUS
<1> USE DEF RefusesNoMixture, inputs
<1>0. /\ TypeOK
      /\ Len(hunks) \in Nat /\ DOMAIN hunks = 1 .. Len(hunks)
      /\ \A i \in 1 .. Len(hunks) : hunks[i] \in Hunk
  BY HunksFacts DEF IInv, TypeOK
<1>1. CASE RefuseOverlap
  <2>1. pc = "scan" /\ k \in 1 .. Len(hunks) /\ hunks[k].offset < previousEnd
        /\ hunks' = hunks
    BY <1>0, <1>1 DEF RefuseOverlap, Overlaps, Refuse, TypeOK
  <2>2. k # 1 /\ previousEnd = HunkEnd(hunks[k - 1])
    BY <1>0, <2>1, HunkFacts DEF IInv, ScanInv
  <2>3. ~Disjoint(hunks)
    BY <1>0, <2>1, <2>2, OverlapIsReal DEF TypeOK
  <2>4. QED
    BY <2>1, <2>3 DEF Disjoint
<1>2. CASE RefuseUnrecognized
  <2>1. /\ k \in DOMAIN hunks /\ UNCHANGED <<data, source, hunks>>
        /\ ~Reads(data, hunks[k], hunks[k].before)
        /\ ~Reads(data, hunks[k], hunks[k].after)
    BY <1>0, <1>2 DEF RefuseUnrecognized, Refuse, TypeOK
  <2>2. ~Mixture(data, source, hunks)
    BY <2>1 DEF Mixture
  <2>3. QED
    BY <2>1, <2>2 DEF Mixture, Reads, Covered
<1>3. CASE RefuseSource
  <2>1. pc = "reconstruct" /\ desired # source /\ UNCHANGED <<data, source, hunks>>
    BY <1>3 DEF RefuseSource, Refuse
  <2>2. ~Mixture(data, source, hunks)
    BY <1>0, <2>1, MixtureReconstructs DEF IInv, InspectInv
  <2>3. QED
    BY <2>1, <2>2 DEF Mixture, Reads, Covered
<1>4. CASE ScanHunk \/ EndScan \/ InspectStock \/ InspectReplacement \/ EndInspect
           \/ AcceptSource \/ WriteHunk \/ EndWrite
  BY <1>4 DEF IInv, TypeOK, ScanHunk, EndScan, InspectStock, InspectReplacement,
              EndInspect, AcceptSource, WriteHunk, EndWrite
<1>5. CASE UNCHANGED vars
  BY <1>5 DEF vars, IInv, Disjoint, Mixture, Reads, Covered
<1>6. QED
  BY <1>1, <1>2, <1>3, <1>4, <1>5 DEF Next

LEMMA InitIInv == Init => IInv
<1> SUFFICES ASSUME Init PROVE IInv
  OBVIOUS
<1>1. Len(hunks) \in Nat
  BY HunksFacts DEF Init
<1>2. TypeOK
  BY <1>1, FileSizeAssumption DEF Init, TypeOK
<1>3. QED
  BY <1>2 DEF Init, IInv, ScanInv, Scanned, InspectInv, WriteInv, RefusesNoMixture

THEOREM Invariance == Spec => []IInv
<1>1. IInv /\ [Next]_vars => IInv'
  BY TypeStep, ScanStep, InspectStep, WriteStep, RefuseStep DEF IInv
<1>2. QED
  BY InitIInv, <1>1, PTL DEF Spec

\* _transform_target computes the source file with every hunk replaced,
\* whichever hunks the file already carried, for files and hunks of any size.
THEOREM PatchedResult == Spec => []ResultIsPatched
<1>1. IInv => ResultIsPatched
  <2> SUFFICES ASSUME IInv, pc = "done" PROVE Patched(desired, source, hunks)
    BY DEF ResultIsPatched
  <2>1. /\ desired \in File /\ source \in File /\ hunks \in SortedHunks
        /\ k - 1 = Len(hunks)
    BY HunksFacts DEF IInv, TypeOK, WriteInv
  <2>2. \A i \in DOMAIN hunks : Reads(desired, hunks[i], hunks[i].after)
    BY <2>1, HunksFacts DEF IInv, WriteInv
  <2>3. \A x \in Positions : Covered(hunks, x) \/ desired[x] = source[x]
    BY <2>1, CoveredIsNotOutside DEF IInv, WriteInv
  <2>4. QED
    BY <2>1, <2>2, <2>3 DEF Patched, File, Positions
<1>2. QED
  BY Invariance, <1>1, PTL

\* A file that is not the supported source under disjoint hunks is refused.
THEOREM OnlyMixtures == Spec => []AcceptsOnlyMixtures
<1>1. IInv => AcceptsOnlyMixtures
  BY DEF IInv, Scanned, WriteInv, AcceptsOnlyMixtures
<1>2. QED
  BY Invariance, <1>1, PTL

\* A supported file is never refused: together with OnlyMixtures, the loops
\* accept exactly the mixtures of disjoint hunks.
THEOREM NoFalseRefusal == Spec => []RefusesNoMixture
<1>1. IInv => RefusesNoMixture
  BY DEF IInv
<1>2. QED
  BY Invariance, <1>1, PTL

\* There is one patched file, and patching it again changes nothing: a build on
\* an image that is already customized gives the same file.
THEOREM PatchedIsFixed ==
  ASSUME NEW f \in File, NEW g \in File, NEW src \in File, NEW hs,
         Patched(f, src, hs), \A i \in DOMAIN hs : Reads(src, hs[i], hs[i].before)
  PROVE  /\ Mixture(f, src, hs)
         /\ Patched(g, src, hs) => g = f
<1>1. Mixture(f, src, hs)
  BY DEF Mixture, Patched
<1>2. ASSUME Patched(g, src, hs) PROVE g = f
  <2>1. \A x \in Positions : g[x] = f[x]
    BY <1>2 DEF Patched, Reads, Covered, File, Positions
  <2>2. f \in [Positions -> Byte] /\ g \in [Positions -> Byte]
    BY DEF File, Positions
  <2>3. QED
    BY <2>1, <2>2
<1>3. QED
  BY <1>1, <1>2
=============================================================================
