--------------------------- MODULE DecoderProofs ---------------------------
(***************************************************************************)
(* Decoder for payloads, blocks, chunks and counters of every size.        *)
(***************************************************************************)
EXTENDS Decoder, TLAPS

Looping == {"read", "digest", "write"}
Complete == {"compare", "sync", "close"}

\* Chunks start at block boundaries; offset, got and put by the statement.
Progress ==
  /\ \E q \in Nat : offset = q * BlockSize \/ offset = size
  /\ pc \in Looping => offset < size /\ \E q \in Nat : offset = q * BlockSize
  /\ pc \in {"trailer", "create"} => offset = 0 /\ got = 0 /\ put = 0
  /\ pc = "create" => size > 0
  /\ pc \in {"read", "digest"} => put = offset
  /\ pc \in {"digest", "write"} => got = ChunkEnd
  /\ pc = "write" => \A x \in offset .. ChunkEnd - 1 : digest[x] = buffer[x]
  /\ pc \in Complete => offset = size /\ put = size

BlockOf(x) == (x \div BlockSize) % Counters

Written ==
  \A x \in Positions : x < put =>
    out[x].byte = digest[x] /\ out[x].counter = BlockOf(x)

Sealed == digest = [x \in Positions |-> "sealed"]

Validated ==
  /\ pc \in {"sync", "close"} => Sealed
  /\ pc = "close" => synced
  /\ status = "success" => Sealed /\ put = size /\ synced /\ file = "created"
  /\ status = "success" => pc \in {"done", "exited"} /\ ~created

Output ==
  /\ pc \in {"trailer", "create"} => file = file0 /\ ~created
  /\ pc \in Looping \union Complete => created
  /\ created /\ pc # "exited" => file = "created"
  /\ created => file0 = "absent"
  /\ pc = "exited" /\ status = "failure" /\ ~stuck => file = file0
  /\ pc = "done" /\ ~created /\ status = "failure" => file = file0

IInv == TypeOK /\ Progress /\ Written /\ Validated /\ Output

\* The counter of a position does not depend on where its chunk started.
LEMMA CounterFacts ==
  ASSUME NEW q \in Nat, NEW j \in Nat
  PROVE  (q * BlockSize) \div BlockSize + j \div BlockSize
           = (q * BlockSize + j) \div BlockSize
BY DecoderAssumption

LEMMA NextChunk ==
  ASSUME NEW q \in Nat
  PROVE  /\ q * BlockSize + ChunkBlocks * BlockSize = (q + ChunkBlocks) * BlockSize
         /\ ChunkBlocks * BlockSize \in Nat \ {0}
         /\ q + ChunkBlocks \in Nat
BY DecoderAssumption

LEMMA ChunkFacts ==
  ASSUME TypeOK
  PROVE  /\ size \in Nat /\ offset \in Nat /\ got \in Nat /\ put \in Nat
         /\ ChunkEnd \in offset .. size
         /\ offset < size => offset < ChunkEnd
<1>1. ChunkBlocks * BlockSize \in Nat \ {0}
  BY DecoderAssumption
<1>2. size \in Nat /\ offset \in Nat /\ offset <= size
  BY DecoderAssumption DEF TypeOK
<1>3. ChunkEnd \in offset .. size /\ (offset < size => offset < ChunkEnd)
  BY <1>1, <1>2 DEF ChunkEnd
<1>4. QED
  BY <1>2, <1>3 DEF TypeOK

LEMMA InitIInv == Init => IInv
<1> SUFFICES ASSUME Init PROVE IInv
  OBVIOUS
<1>1. TypeOK
  <2>1. 0 \in 0 .. Counters - 1
    BY DecoderAssumption
  <2>2. size \in Nat /\ ChunkBlocks * BlockSize \in Nat
    BY DecoderAssumption DEF Init
  <2>3. ChunkEnd \in 0 .. size
    BY <2>2 DEF ChunkEnd, Init
  <2>4. /\ buffer \in [Positions -> Byte \union {Nothing}]
        /\ digest \in [Positions -> Byte \union {Nothing}]
        /\ out \in [Positions -> Plain]
    BY <2>1 DEF Init, Plain
  <2>5. /\ offset \in 0..size /\ got \in offset .. ChunkEnd /\ put \in offset .. got
    BY <2>2, <2>3 DEF Init
  <2>6. /\ trailer \in BOOLEAN /\ created \in BOOLEAN /\ synced \in BOOLEAN
        /\ stuck \in BOOLEAN
    BY Zenon DEF Init
  <2>7. QED
    BY <2>4, <2>5, <2>6 DEF Init, TypeOK, Pcs
<1>2. Progress /\ Validated /\ Output
  <2>1. 0 = 0 * BlockSize
    BY DecoderAssumption
  <2>2. Validated /\ Output
    BY DEF Init, Validated, Output, Looping, Complete
  <2>3. Progress
    BY <2>1 DEF Init, Progress, Looping, Complete
  <2>4. QED
    BY <2>2, <2>3
<1>3. Written
  BY <1>1 DEF Init, Written, Positions, TypeOK
<1>4. QED
  BY <1>1, <1>2, <1>3 DEF IInv

THEOREM Invariance == Spec => []IInv
<1>1. IInv /\ [Next]_vars => IInv'
  <2> SUFFICES ASSUME IInv, [Next]_vars PROVE IInv'
    OBVIOUS
  <2> USE ChunkFacts
      DEF IInv, TypeOK, Progress, Written, Validated, Output, Looping, Complete, Sealed
  <2>1. CASE CheckTrailer
    <3>1. /\ pc = "trailer" /\ pc' = "create" /\ size > 0
          /\ UNCHANGED <<container, chunk, digest, out, target, exit>>
      BY <2>1 DEF CheckTrailer, Goto
    <3>2. TypeOK'
      BY <3>1 DEF container, chunk, target, exit, Pcs, ChunkEnd, Positions
    <3>3. Progress'
      BY <3>1 DEF container, chunk, ChunkEnd
    <3>4. Written' /\ Validated' /\ Output'
      BY <3>1 DEF container, chunk, target, exit, Positions, BlockOf
    <3>5. QED
      BY <3>2, <3>3, <3>4
  <2>2. CASE Create
    <3>1. /\ file = "absent" /\ pc = "create" /\ pc' = "read"
          /\ file' = "created" /\ created' = TRUE
          /\ UNCHANGED <<container, chunk, digest, out, file0, synced, exit>>
      BY <2>2 DEF Create, Goto
    <3>2. TypeOK'
      BY <3>1 DEF container, chunk, exit, Pcs, ChunkEnd, Positions
    <3>3. Progress'
      <4>1. offset = 0 * BlockSize
        BY <3>1, DecoderAssumption
      <4>2. QED
        BY <3>1, <4>1 DEF container, chunk, ChunkEnd
    <3>4. Written' /\ Validated' /\ Output'
      BY <3>1 DEF container, chunk, exit, Positions, BlockOf
    <3>5. QED
      BY <3>2, <3>3, <3>4
  <2>3. CASE ReadSome
    BY <2>3 DEF ReadSome, Goto, container, chunk, target, exit, Pcs, ChunkEnd, Positions
  <2>4. CASE EndRead
    BY <2>4 DEF EndRead, Goto, container, chunk, target, exit, Pcs, ChunkEnd, Positions
  <2>5. CASE Digest
    BY <2>5 DEF Digest, Goto, container, chunk, target, exit, Pcs, ChunkEnd, Positions
  <2>6. CASE WriteSome
    <3>1. PICK n \in put + 1 .. ChunkEnd :
            /\ put' = n
            /\ out' = [x \in Positions |->
                         IF x \in put .. n - 1
                           THEN [byte |-> buffer[x], counter |-> Counter(x)]
                           ELSE out[x]]
      BY <2>6 DEF WriteSome
    <3>2. /\ pc = "write" /\ UNCHANGED <<container, pc, offset, got, buffer, digest, target, exit>>
      BY <2>6 DEF WriteSome
    <3>3. \A x \in Positions : x >= offset => Counter(x) = BlockOf(x) /\ Counter(x) \in 0 .. Counters - 1
      <4>1. PICK q \in Nat : offset = q * BlockSize
        BY <3>2
      <4>2. TAKE x \in Positions
      <4>3. HAVE x >= offset
      <4>4. x - offset \in Nat /\ offset + (x - offset) = x
        BY <4>3 DEF Positions
      <4>5. offset \div BlockSize + (x - offset) \div BlockSize = x \div BlockSize
        BY <4>1, <4>4, CounterFacts
      <4>6. x \div BlockSize \in Int
        BY DecoderAssumption DEF Positions
      <4>7. QED
        BY <4>5, <4>6, DecoderAssumption DEF Counter, BlockOf
    <3>4. \A x \in Positions : x < put' =>
            out'[x].byte = digest[x] /\ out'[x].counter = BlockOf(x)
      BY <3>1, <3>2, <3>3 DEF Positions
    <3>5. out' \in [Positions -> Plain]
      BY <3>1, <3>3 DEF Plain, Positions
    <3>6. TypeOK'
      BY <3>1, <3>2, <3>5 DEF container, target, exit, ChunkEnd, Positions
    <3>7. Written'
      BY <3>1, <3>2, <3>4 DEF container, Positions, BlockOf
    <3>8. Progress' /\ Validated' /\ Output'
      BY <3>1, <3>2 DEF container, target, exit, ChunkEnd, Positions
    <3>9. QED
      BY <3>6, <3>7, <3>8
  <2>7. CASE EndWrite
    <3>1. /\ put = ChunkEnd /\ pc = "write" /\ offset' = ChunkEnd
          /\ pc' = IF ChunkEnd < size THEN "read" ELSE "compare"
          /\ UNCHANGED <<container, got, put, buffer, digest, out, target, exit>>
      BY <2>7 DEF EndWrite, Goto
    <3>2. ChunkEnd' \in ChunkEnd .. size /\ offset' \in 0 .. size /\ offset' = put /\ got = put
      <4>1. ChunkBlocks * BlockSize \in Nat
        BY DecoderAssumption
      <4>2. QED
        BY <3>1, <4>1 DEF ChunkEnd, container
    <3>3. ChunkEnd < size => \E q \in Nat : ChunkEnd = q * BlockSize
      <4>1. HAVE ChunkEnd < size
      <4>2. PICK q \in Nat : offset = q * BlockSize
        BY <3>1
      <4>3. ChunkEnd = offset + ChunkBlocks * BlockSize
        BY <4>1 DEF ChunkEnd
      <4>4. ChunkEnd = (q + ChunkBlocks) * BlockSize /\ q + ChunkBlocks \in Nat
        BY <4>2, <4>3, NextChunk
      <4>5. QED
        BY <4>4
    <3>4. TypeOK'
      BY <3>1, <3>2 DEF container, target, exit, Positions, Pcs
    <3>5. Progress'
      BY <3>1, <3>2, <3>3 DEF container
    <3>6. Written' /\ Validated' /\ Output'
      BY <3>1 DEF container, target, exit, Positions, BlockOf
    <3>7. QED
      BY <3>4, <3>5, <3>6
  <2>8. CASE Compare
    BY <2>8 DEF Compare, Goto, container, chunk, target, exit, Pcs, ChunkEnd, Positions
  <2>9. CASE Sync
    BY <2>9 DEF Sync, Goto, container, chunk, target, exit, Pcs, ChunkEnd, Positions
  <2>10. CASE Close
    BY <2>10 DEF Close, Goto, container, chunk, target, exit, Pcs, ChunkEnd, Positions
  <2>11. CASE Fail
    BY <2>11 DEF Fail, Goto, container, chunk, target, exit, Pcs, ChunkEnd, Positions
  <2>12. CASE CleanUp
    BY <2>12 DEF CleanUp, Goto, container, chunk, target, exit, Pcs, ChunkEnd, Positions
  <2>13. CASE Modify
    BY <2>13 DEF Modify, Goto, container, chunk, target, exit, Pcs, ChunkEnd, Positions
  <2>14. CASE UNCHANGED vars
    BY <2>14 DEF vars, container, chunk, target, exit, ChunkEnd, Positions
  <2>15. QED
    BY <2>1, <2>2, <2>3, <2>4, <2>5, <2>6, <2>7, <2>8, <2>9, <2>10, <2>11,
       <2>12, <2>13, <2>14 DEF Next
<1>2. QED
  BY InitIInv, <1>1, PTL DEF Spec

\* Types, for payloads, blocks, chunks and counters of every size.
THEOREM TypeCorrect == Spec => []TypeOK
<1>1. IInv => TypeOK
  BY DEF IInv
<1>2. QED
  BY Invariance, <1>1, PTL

\* A process that exits with 0 left the decryption of exactly the payload the
\* trailer vouches for, whatever was written to the input meanwhile.
THEOREM SealedSuccess == Spec => []SuccessIsSealed
<1>1. IInv => SuccessIsSealed
  <2> SUFFICES ASSUME IInv, status = "success" PROVE
        /\ file = "created" /\ synced
        /\ out = [x \in Positions |->
                     [byte |-> "sealed", counter |-> (x \div BlockSize) % Counters]]
    BY DEF SuccessIsSealed
  <2>1. file = "created" /\ synced /\ put = size /\ Sealed
    BY DEF IInv, Validated
  <2>2. \A x \in Positions : out[x].byte = "sealed" /\ out[x].counter = BlockOf(x)
    BY <2>1 DEF IInv, Written, Sealed, Positions, TypeOK
  <2>3. out \in [Positions -> [byte : Byte \union {Nothing}, counter : 0 .. Counters - 1]]
    BY DEF IInv, TypeOK, Plain
  <2>4. \A x \in Positions :
          out[x] = [byte |-> "sealed", counter |-> (x \div BlockSize) % Counters]
    BY <2>2, <2>3 DEF BlockOf
  <2>5. QED
    BY <2>1, <2>3, <2>4
<1>2. QED
  BY Invariance, <1>1, PTL

\* What is written is what is digested.
THEOREM DigestedWrites == Spec => []WrittenIsDigested
<1>1. IInv => WrittenIsDigested
  BY DEF IInv, Written, WrittenIsDigested
<1>2. QED
  BY Invariance, <1>1, PTL

\* A process that fails leaves the output path as it was.
THEOREM CleanFailure == Spec => []FailureLeavesNothing
<1>1. IInv => FailureLeavesNothing
  BY DEF IInv, Output, FailureLeavesNothing
<1>2. QED
  BY Invariance, <1>1, PTL

\* The bounds check of select_bytes never fires for the two calls the program
\* makes: whatever the seed, both stay in the region they start in.
THEOREM SelectionStaysInRegion ==
  \A r \in 0..11 :
    /\ Selected(0, r, 512) \subseteq 0 .. RegionSize - 1
    /\ Selected(RegionSize, r, 518) \subseteq RegionSize .. 2 * RegionSize - 1
<1>1. ASSUME NEW r \in 0..11, NEW x \in Selected(0, r, 512)
      PROVE  x \in 0 .. RegionSize - 1
  <2>1. PICK i \in 0 .. 512 - 1 : x = 0 + r + 8 + i * (r + 4)
    BY <1>1 DEF Selected
  <2>2. CASE r \in 0..3
    <3>1. r = 0 \/ r = 1 \/ r = 2 \/ r = 3
      BY <2>2
    <3>2. QED
      BY <2>1, <3>1 DEF RegionSize
  <2>3. CASE r \in 4..7
    <3>1. r = 4 \/ r = 5 \/ r = 6 \/ r = 7
      BY <2>3
    <3>2. QED
      BY <2>1, <3>1 DEF RegionSize
  <2>4. CASE r \in 8..11
    <3>1. r = 8 \/ r = 9 \/ r = 10 \/ r = 11
      BY <2>4
    <3>2. QED
      BY <2>1, <3>1 DEF RegionSize
  <2>5. QED
    BY <1>1, <2>2, <2>3, <2>4
<1>2. ASSUME NEW r \in 0..11, NEW x \in Selected(RegionSize, r, 518)
      PROVE  x \in RegionSize .. 2 * RegionSize - 1
  <2>1. PICK i \in 0 .. 518 - 1 : x = RegionSize + r + 8 + i * (r + 4)
    BY <1>2 DEF Selected
  <2>2. CASE r \in 0..3
    <3>1. r = 0 \/ r = 1 \/ r = 2 \/ r = 3
      BY <2>2
    <3>2. QED
      BY <2>1, <3>1 DEF RegionSize
  <2>3. CASE r \in 4..7
    <3>1. r = 4 \/ r = 5 \/ r = 6 \/ r = 7
      BY <2>3
    <3>2. QED
      BY <2>1, <3>1 DEF RegionSize
  <2>4. CASE r \in 8..11
    <3>1. r = 8 \/ r = 9 \/ r = 10 \/ r = 11
      BY <2>4
    <3>2. QED
      BY <2>1, <3>1 DEF RegionSize
  <2>5. QED
    BY <1>2, <2>2, <2>3, <2>4
<1>3. QED
  BY <1>1, <1>2
=============================================================================
