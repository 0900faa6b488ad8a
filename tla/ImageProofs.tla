------------------------------ MODULE ImageProofs ----------------------------
(***************************************************************************)
(* What the image is put together from: the sparse copies, the assembly    *)
(* with its checks, the geometry of the disk, the file systems made fresh  *)
(* and the directories and links of these, each for every value of its     *)
(* constants.  The five share no state.                                    *)
(***************************************************************************)
EXTENDS ImageAssembly, SparseCopy, Geometry, FreshFilesystem, Skeleton, FiniteSetTheorems,
        WellFoundedInduction, TLAPS

(***************************************************************************)
(* SparseCopy, for files of every size, every chunk, all extents a file    *)
(* system may name, and any number of destinations.                        *)
(***************************************************************************)

(***************************************************************************)
(* The invariant.  It says how far the loops are (IndexInv), what has been *)
(* found to be zero by then (CheckInv), and what each unit of a target     *)
(* holds by then: the source's unit behind, zero ahead (CopyInv).          *)
(***************************************************************************)
Active == at \in {"data", "hole", "extent", "write"}

IndexInv ==
  /\ at \in {"bounds", "data", "hole", "extent", "write", "done", "raised"}
  /\ phase \in {"check", "copy"} /\ begun \in BOOLEAN
  /\ call \in Calls /\ DOMAIN dest = 0 .. DestUnits - 1
  /\ position \in Int /\ start \in Int /\ end \in Int
  /\ got \in Int /\ put \in Int /\ j \in Int
  /\ at = "bounds" => phase = "check" /\ position = call.from /\ begun = FALSE
  /\ Active => InBounds(call) /\ call.from <= position
  /\ at = "hole" => position <= start /\ start < Limit
  /\ at \in {"extent", "write"} =>
       /\ call.from <= start /\ start <= end /\ end = Lesser(position, Limit)
       /\ begun = TRUE
  /\ at = "write" =>
       /\ phase = "copy" /\ 1 <= j /\ j <= Len(call.offsets) + 1
       /\ 0 <= put /\ put < got /\ start + got <= end
  /\ Active /\ phase = "copy" /\ begun = FALSE => position = call.from

HolesInv ==
  /\ \A u \in sourceHoles : source[u] = 0
  /\ \A d \in destHoles : dest0[d] = 0
  /\ ~call.range \/ phase = "copy" => \A d \in Places(call) : dest0[d] = 0

CheckInv ==
  phase = "check" =>
    /\ dest = dest0
    /\ Active =>
         \A u \in InRange(call) :
           u < (IF at = "data" THEN position ELSE start) => dest[DestUnit(u)] = 0

Front == IF at \in {"data", "hole"} THEN position ELSE start
Moved(u, n) ==
  at = "write" /\ start <= u /\ \/ n < j /\ u < start + got
                                \/ n = j /\ u < start + put

CopyInv ==
  phase = "copy" /\ Active =>
    /\ \A u \in InRange(call), n \in DOMAIN call.offsets :
         dest[u + call.offsets[n]] = IF u < Front \/ Moved(u, n) THEN source[u] ELSE 0
    /\ at = "hole" => \A u \in InRange(call) : position <= u /\ u < start => source[u] = 0

CopyIInv ==
  /\ IndexInv /\ HolesInv /\ CheckInv /\ CopyInv
  /\ NothingElseWritten /\ Exact
  /\ at = "done" => phase = "copy"

-----------------------------------------------------------------------------
(***************************************************************************)
(* Facts about calls.                                                      *)
(***************************************************************************)
LEMMA CallFacts ==
  ASSUME Granted, call \in Calls
  PROVE  /\ call.from \in Nat /\ call.length \in Nat
         /\ call.from + call.length = Limit /\ Limit \in Nat
         /\ Len(call.offsets) \in Nat /\ Len(call.offsets) > 0
         /\ DOMAIN call.offsets = 1 .. Len(call.offsets)
         /\ \A n \in DOMAIN call.offsets : call.offsets[n] \in Int
         /\ call.range \in BOOLEAN /\ call.range => Len(call.offsets) = 1
<1> DEFINE offsets == call.offsets
<1>1. /\ call.from \in Nat /\ call.length \in Nat /\ call.range \in BOOLEAN
      /\ offsets \in Seq(Int) /\ Len(offsets) > 0
      /\ call.range => Len(offsets) = 1
  BY DEF Granted
<1>2. /\ Len(offsets) \in Nat /\ DOMAIN offsets = 1 .. Len(offsets)
      /\ \A n \in DOMAIN offsets : offsets[n] \in Int
  <2> HIDE DEF offsets
  <2> QED BY <1>1
<1>3. Limit = call.from + call.length /\ Limit \in Nat
  BY <1>1 DEF Limit
<1>4. QED
  BY <1>1, <1>2, <1>3

LEMMA InFile ==
  ASSUME Granted, call \in Calls, InBounds(call),
         NEW u \in InRange(call), NEW n \in DOMAIN call.offsets
  PROVE  /\ u \in Int /\ call.from <= u /\ u < Limit /\ u \in Units
         /\ u + call.offsets[n] \in Places(call)
         /\ u + call.offsets[n] \in 0 .. DestUnits - 1
<1>1. /\ u \in Int /\ call.from <= u /\ u < call.from + call.length
      /\ call.offsets[n] \in Int
  BY CallFacts DEF InRange
<1>2. u \in Units
  <2>1. call.from \in Nat /\ call.length \in Nat
    BY CallFacts
  <2>2. call.from + call.length <= SourceUnits
    BY DEF InBounds
  <2>3. SourceUnits \in Nat
    BY DEF Granted
  <2> QED BY <1>1, <2>1, <2>2, <2>3 DEF Units
<1>3. u + call.offsets[n] \in 0 .. DestUnits - 1
  <2>1. /\ call.from + call.offsets[n] >= 0
        /\ call.from + call.length + call.offsets[n] <= DestUnits
    BY DEF InBounds
  <2>2. call.from \in Nat /\ call.length \in Nat /\ DestUnits \in Nat
    BY CallFacts DEF Granted
  <2>3. QED
    BY <1>1, <2>1, <2>2
<1>4. u + call.offsets[n] \in Places(call)
  BY <1>3 DEF Places
<1>5. QED
  BY <1>1, <1>2, <1>3, <1>4, CallFacts

LEMMA FirstDestination ==
  ASSUME Granted, call \in Calls
  PROVE  /\ 1 \in DOMAIN call.offsets
         /\ call.range => \A n \in DOMAIN call.offsets : n = 1
<1> DEFINE l == Len(call.offsets)
           D == DOMAIN call.offsets
<1>1. l \in Nat /\ l > 0 /\ D = 1 .. l /\ (call.range => l = 1)
  BY CallFacts
<1> HIDE DEF l, D
<1>2. 1 \in D /\ (call.range => \A n \in D : n = 1)
  BY <1>1
<1>3. QED
  BY <1>2 DEF D

\* Nothing of two destinations is the same place.
LEMMA PlacesDiffer ==
  ASSUME Granted, call \in Calls,
         NEW u \in InRange(call), NEW w \in InRange(call),
         NEW m \in DOMAIN call.offsets, NEW n \in DOMAIN call.offsets,
         u + call.offsets[m] = w + call.offsets[n]
  PROVE  u = w /\ m = n
<1>1. /\ u \in Int /\ w \in Int /\ call.offsets[m] \in Int /\ call.offsets[n] \in Int
      /\ call.from <= u /\ u < call.from + call.length
      /\ call.from <= w /\ w < call.from + call.length
      /\ call.from \in Nat /\ call.length \in Nat
  <2>1. call.from \in Nat /\ call.length \in Nat
    BY CallFacts
  <2>2. call.offsets[m] \in Int /\ call.offsets[n] \in Int
    BY CallFacts
  <2>3. QED
    BY <2>1, <2>2 DEF InRange
<1> m \in Int /\ n \in Int
  BY CallFacts
<1>2. \A k, l \in DOMAIN call.offsets :
        k < l => \/ call.offsets[k] + call.length <= call.offsets[l]
                 \/ call.offsets[l] + call.length <= call.offsets[k]
  BY DEF Granted, Apart
<1>3. ~(m < n) /\ ~(n < m)
  BY <1>1, <1>2
<1>4. QED
  BY <1>1, <1>3

-----------------------------------------------------------------------------
(***************************************************************************)
(* Every step keeps the invariant.                                         *)
(***************************************************************************)
LEMMA FilesStay ==
  [CopyNext]_copyVars =>
    /\ call' = call /\ source' = source /\ dest0' = dest0
    /\ sourceHoles' = sourceHoles /\ destHoles' = destHoles /\ Limit' = Limit
  BY DEF CopyNext, copyVars, files, CheckBounds, SeekData, SeekHole, FallBack, CallFails, EndExtent,
         CheckChunk, ReadChunk, WriteSome, EndChunk, EndOfExtents, Extent, Raise, Limit

LEMMA RaiseFacts ==
  Raise =>
    /\ at' = "raised" /\ UNCHANGED <<dest, phase, position, start, end, begun, skip, got, put, j>>
  BY DEF Raise, Go, files, extent, chunk

\* The file that is searched does not end within the range.
LEMMA EndIsBeyond ==
  ASSUME Granted, IndexInv, Active
  PROVE  SearchEnd \in Int /\ Limit \in Int /\ Limit <= SearchEnd
<1>1. Limit \in Nat /\ Limit = call.from + call.length /\ SourceUnits \in Nat
  BY CallFacts DEF IndexInv, Granted
<1>2. Limit <= SourceUnits
  BY <1>1 DEF IndexInv, InBounds
<1>3. QED
  BY <1>1, <1>2 DEF SearchEnd

\* One write moves the units of the chunk that it names, to the jth offset.
LEMMA WriteFacts ==
  ASSUME Granted, IndexInv, WriteSome
  PROVE  /\ at = "write" /\ at' = "write" /\ phase = "copy" /\ phase' = "copy"
         /\ start' = start /\ got' = got /\ DOMAIN dest' = DOMAIN dest
         /\ start \in Int /\ got \in Int /\ put \in Int /\ j \in Int
         /\ put' \in Int /\ j' \in Int /\ 0 <= put /\ put < got
         /\ j \in DOMAIN call.offsets
         /\ \E m \in Int :
              /\ put < m /\ m <= got
              /\ dest' = Written(dest, start + put, start + m, call.offsets[j], source)
              /\ IF m = got THEN put' = 0 /\ j' = j + 1 ELSE put' = m /\ j' = j
         /\ \A w \in Int : start <= w /\ w < start + got => w \in InRange(call)
<1>1. /\ at = "write" /\ j <= Len(call.offsets) /\ phase = "copy"
      /\ start \in Int /\ got \in Int /\ put \in Int /\ j \in Int /\ end \in Int
      /\ 1 <= j /\ 0 <= put /\ put < got /\ start + got <= end
      /\ call.from <= start /\ end = Lesser(position, Limit) /\ position \in Int
  BY DEF WriteSome, IndexInv
<1>2. PICK n \in 1 .. got - put :
        /\ dest' = Written(dest, start + put, start + put + n, call.offsets[j], source)
        /\ IF put + n = got THEN put' = 0 /\ j' = j + 1
                            ELSE put' = put + n /\ UNCHANGED j
  BY DEF WriteSome
<1>3. n \in Int /\ put < put + n /\ put + n <= got /\ put + n \in Int
      /\ start + (put + n) = start + put + n
  BY <1>1, <1>2
<1>4. j \in DOMAIN call.offsets
  BY <1>1, CallFacts DEF IndexInv
<1>5. at' = "write" /\ phase' = "copy" /\ start' = start /\ got' = got
  BY <1>1 DEF WriteSome, extent
<1>6. DOMAIN dest' = DOMAIN dest
  BY <1>2 DEF Written
<1>7. put' \in Int /\ j' \in Int
  <2>1. CASE put + n = got
    BY <1>1, <1>2, <2>1
  <2>2. CASE put + n # got
    BY <1>1, <1>2, <1>3, <2>2
  <2>3. QED
    BY <2>1, <2>2
<1>8. \E m \in Int :
        /\ put < m /\ m <= got
        /\ dest' = Written(dest, start + put, start + m, call.offsets[j], source)
        /\ IF m = got THEN put' = 0 /\ j' = j + 1 ELSE put' = m /\ j' = j
  <2>1. dest' = Written(dest, start + put, start + (put + n), call.offsets[j], source)
    BY <1>2, <1>3
  <2>2. IF put + n = got THEN put' = 0 /\ j' = j + 1 ELSE put' = put + n /\ j' = j
    BY <1>2
  <2>3. QED
    BY <1>3, <2>1, <2>2
<1>9. ASSUME NEW w \in Int, start <= w, w < start + got
      PROVE  w \in InRange(call)
  <2>1. /\ call.from \in Nat /\ call.length \in Nat /\ Limit = call.from + call.length
        /\ end <= Limit
    BY <1>1, CallFacts DEF IndexInv, Lesser
  <2>2. call.from <= w /\ w < call.from + call.length
    BY <1>1, <1>9, <2>1
  <2>3. QED
    BY <2>1, <2>2 DEF InRange
<1>10. QED
  BY <1>1, <1>4, <1>5, <1>6, <1>7, <1>8, <1>9

LEMMA WriteIndex ==
  ASSUME Granted, IndexInv, WriteSome
  PROVE  /\ 0 <= put' /\ put' < got /\ put' \in Int
         /\ 1 <= j' /\ j' <= Len(call.offsets) + 1 /\ j' \in Int
         /\ UNCHANGED <<position, end, begun>>
<1>1. PICK m \in Int :
        /\ put < m /\ m <= got
        /\ IF m = got THEN put' = 0 /\ j' = j + 1 ELSE put' = m /\ j' = j
  BY WriteFacts
<1>2. /\ put \in Int /\ got \in Int /\ 0 <= put /\ put < got /\ j \in Int
  BY WriteFacts
<1>3. 1 <= j /\ j <= Len(call.offsets) /\ Len(call.offsets) \in Int
  BY CallFacts DEF WriteSome, IndexInv
<1>4. UNCHANGED <<position, end, begun>>
  BY DEF WriteSome, extent
<1>5. CASE m = got
  BY <1>1, <1>2, <1>3, <1>4, <1>5
<1>6. CASE m # got
  BY <1>1, <1>2, <1>3, <1>4, <1>6
<1>7. QED
  BY <1>5, <1>6

LEMMA IndexStep ==
  ASSUME Granted, IndexInv, [CopyNext]_copyVars
  PROVE  IndexInv'
<1>a. WriteSome =>
        /\ at = "write" /\ at' = "write" /\ phase' = "copy"
        /\ start' = start /\ got' = got /\ DOMAIN dest' = DOMAIN dest
  BY WriteFacts
<1>b. WriteSome =>
        /\ 0 <= put' /\ put' < got /\ put' \in Int
        /\ 1 <= j' /\ j' <= Len(call.offsets) + 1 /\ j' \in Int
        /\ UNCHANGED <<position, end, begun>>
  BY WriteIndex
<1>0. Active => SearchEnd \in Int /\ Limit \in Int /\ Limit <= SearchEnd
  BY EndIsBeyond
<1> USE DEF IndexInv, Active, Go, files, extent, chunk
<1>1. /\ call \in Calls /\ call.from \in Nat /\ Limit \in Nat
      /\ call' = call /\ Limit' = Limit /\ call.from <= Limit
      /\ Len(call.offsets) \in Nat
  BY CallFacts, FilesStay
<1>2. CASE CheckBounds
  BY <1>1, <1>2 DEF CheckBounds
<1>3. CASE SeekData
  <2>1. CASE position < Limit /\ \E u \in DataFrom(position) : u < Limit
    <3>1. PICK u \in DataFrom(position) : IsFirst(u, DataFrom(position)) /\ start' = u
      BY <1>3, <2>1 DEF SeekData
    <3>2. PICK w \in DataFrom(position) : w < Limit
      BY <2>1
    <3>3. u \in Int /\ w \in Int /\ position <= u /\ u <= w
      BY <3>1 DEF IsFirst, DataFrom
    <3>4. /\ at = "data" /\ at' = "hole" /\ start' \in Int
          /\ position <= start' /\ start' < Limit
          /\ UNCHANGED <<dest, phase, position, end, begun, got, put, j>>
      BY <1>1, <1>3, <2>1, <3>1, <3>2, <3>3 DEF SeekData
    <3>5. QED
      BY <1>1, <3>4
  <2>2. CASE ~(position < Limit /\ \E u \in DataFrom(position) : u < Limit)
    <3>1. CASE phase = "copy"
      BY <1>1, <1>3, <2>2, <3>1 DEF SeekData, EndOfExtents
    <3>2. CASE phase = "check"
      <4>1. /\ at = "data" /\ at' = "data" /\ phase' = "copy"
            /\ position' = call.from /\ begun' = FALSE
            /\ UNCHANGED <<dest, start, end, got, put, j>>
        BY <1>3, <2>2, <3>2 DEF SeekData, EndOfExtents
      <4>2. position' = call'.from /\ position' \in Int /\ call'.from <= position'
        BY <1>1, <4>1
      <4>3. InBounds(call')
        BY <1>1, <4>1
      <4>4. QED
        BY <1>1, <4>1, <4>2, <4>3
    <3>3. QED
      BY <3>1, <3>2
  <2>3. QED
    BY <2>1, <2>2
<1>4. CASE SeekHole
  <2>1. CASE Raise
    BY <1>1, <2>1, RaiseFacts
  <2>2. ASSUME NEW hole \in HolesFrom(start), Extent(hole)
        PROVE  IndexInv'
    <3>1. hole \in Int /\ start <= hole
      <4>1. Active /\ start \in Int /\ start < Limit
        BY <1>4 DEF SeekHole
      <4>2. SearchEnd \in Int /\ start <= SearchEnd
        BY <1>0, <4>1
      <4>3. QED
        BY <4>1, <4>2 DEF HolesFrom
    <3>2. QED
      BY <1>1, <1>4, <2>2, <3>1 DEF SeekHole, Extent, Lesser
  <2>3. QED
    BY <1>4, <2>1, <2>2 DEF SeekHole
<1>5. CASE FallBack
  <2>1. CASE Raise
    BY <1>1, <2>1, RaiseFacts
  <2>2. CASE ~Raise
    <3>1. /\ at \in {"data", "hole"} /\ position < Limit
          /\ start' = call.from /\ end' = Limit /\ position' = Limit
          /\ begun' = TRUE /\ at' = "extent"
          /\ UNCHANGED <<dest, phase, got, put, j>>
      BY <1>5, <2>2 DEF FallBack
    <3>2. QED
      BY <1>1, <3>1 DEF Lesser
  <2>3. QED
    BY <2>1, <2>2
<1>6. CASE CallFails
  BY <1>1, <1>6, RaiseFacts DEF CallFails
<1>7. CASE EndExtent
  BY <1>1, <1>7 DEF EndExtent
<1>8. CASE CheckChunk
  <2>1. CASE Raise
    BY <1>1, <2>1, RaiseFacts
  <2>2. CASE ~Raise
    <3>1. PICK n \in 1 .. Lesser(Chunk, end - start) :
            /\ start' = start + n
            /\ UNCHANGED <<dest, at, phase, position, end, begun, got, put, j>>
      BY <1>8, <2>2 DEF CheckChunk
    <3>2. n \in Int /\ 0 < n /\ n <= end - start
      BY <1>8, <3>1 DEF CheckChunk, Lesser, Granted
    <3>3. QED
      BY <1>1, <1>8, <3>1, <3>2 DEF CheckChunk
  <2>3. QED
    BY <2>1, <2>2
<1>9. CASE ReadChunk
  <2>1. PICK n \in 1 .. Lesser(Chunk, end - start) :
          IF skip /\ Zeros(n)
            THEN /\ start' = start + n
                 /\ UNCHANGED <<files, dest, at, phase, position, end, begun, skip, chunk>>
            ELSE /\ got' = n /\ put' = 0 /\ j' = 1
                 /\ Go("write")
                 /\ UNCHANGED <<files, dest, phase, extent>>
    BY <1>9 DEF ReadChunk
  <2>2. n \in Int /\ 0 < n /\ n <= end - start
    BY <1>9, <2>1 DEF ReadChunk, Lesser, Granted
  <2>3. CASE skip /\ Zeros(n)
    BY <1>1, <1>9, <2>1, <2>2, <2>3 DEF ReadChunk
  <2>4. CASE ~(skip /\ Zeros(n))
    <3>1. /\ at = "extent" /\ phase = "copy" /\ start < end
          /\ got' = n /\ put' = 0 /\ j' = 1 /\ at' = "write"
          /\ UNCHANGED <<dest, phase, position, start, end, begun>>
      BY <1>9, <2>1, <2>4 DEF ReadChunk
    <3>2. start' + got' <= end' /\ 1 <= Len(call.offsets) + 1
      BY <1>1, <2>2, <3>1
    <3>3. QED
      BY <1>1, <2>2, <3>1, <3>2
  <2>5. QED
    BY <2>3, <2>4
<1>10. CASE WriteSome
  BY <1>1, <1>10, <1>a, <1>b
<1>11. CASE EndChunk
  BY <1>1, <1>11 DEF EndChunk
<1>12. CASE UNCHANGED copyVars
  BY <1>1, <1>12 DEF copyVars
<1>13. QED
  BY <1>2, <1>3, <1>4, <1>5, <1>6, <1>7, <1>8, <1>9, <1>10, <1>11, <1>12 DEF CopyNext

\* What a search passes over, or does not reach, is a hole.
LEMMA PassedIsHole ==
  ASSUME Granted, IndexInv, at = "data", NEW u \in InRange(call), position <= u,
         \/ ~(position < Limit /\ \E w \in DataFrom(position) : w < Limit)
         \/ \E w \in DataFrom(position) : IsFirst(w, DataFrom(position)) /\ u < w
  PROVE  IsHole(u)
<1>1. u \in Int /\ u < Limit
  BY CallFacts DEF InRange, IndexInv
<1>2. position \in Int /\ SearchEnd \in Int /\ Limit \in Int /\ Limit <= SearchEnd
  BY EndIsBeyond DEF IndexInv, Active
<1>3. ~IsHole(u) => u \in DataFrom(position)
  BY <1>1, <1>2 DEF DataFrom
<1>4. \A w \in DataFrom(position) : w \in Int
  BY <1>2 DEF DataFrom
<1>5. QED
  BY <1>1, <1>2, <1>3, <1>4 DEF IsFirst

LEMMA HoleIsZero ==
  ASSUME IndexInv, HolesInv, CheckInv, NEW u, IsHole(u)
  PROVE  IF phase = "copy" THEN source[u] = 0 ELSE dest[DestUnit(u)] = 0
  BY DEF IndexInv, HolesInv, CheckInv, IsHole

\* The actions that differ in nothing but the place they go to.
LEMMA SeekHoleFacts ==
  ASSUME Granted, IndexInv, SeekHole
  PROVE  \/ Raise
         \/ /\ at = "hole" /\ at' = "extent"
            /\ UNCHANGED <<dest, phase, start>>
  BY DEF SeekHole, Extent, Go, files, chunk

LEMMA FallBackFacts ==
  ASSUME IndexInv, FallBack
  PROVE  \/ Raise
         \/ /\ at \in {"data", "hole"} /\ at' = "extent"
            /\ phase = "check" \/ position = call.from
            /\ start' = call.from
            /\ UNCHANGED <<dest, phase>>
<1>1. CASE phase = "copy" /\ begun
  BY <1>1 DEF FallBack
<1>2. CASE ~(phase = "copy" /\ begun)
  <2>1. /\ at \in {"data", "hole"} /\ at' = "extent" /\ start' = call.from
        /\ UNCHANGED <<dest, phase>>
    BY <1>2 DEF FallBack, Go, files, chunk
  <2>2. phase = "check" \/ position = call.from
    BY <1>2, <2>1 DEF IndexInv, Active
  <2>3. QED
    BY <2>1, <2>2
<1>3. QED
  BY <1>1, <1>2

LEMMA EndExtentFacts ==
  ASSUME Granted, IndexInv, EndExtent
  PROVE  /\ at = "extent" /\ at' = "data" /\ UNCHANGED <<dest, phase, position>>
         /\ \A u \in InRange(call) : u < position <=> u < start
<1>1. /\ at = "extent" /\ at' = "data" /\ UNCHANGED <<dest, phase, position>>
      /\ start >= end
  BY DEF EndExtent, Go, files, extent, chunk
<1>2. /\ start \in Int /\ end \in Int /\ position \in Int /\ Limit \in Int
      /\ start = end /\ end = Lesser(position, Limit)
  BY <1>1, EndIsBeyond DEF IndexInv, Active
<1>3. \A u \in InRange(call) : u \in Int /\ u < Limit
  BY CallFacts DEF InRange, IndexInv
<1>4. QED
  BY <1>1, <1>2, <1>3 DEF Lesser

LEMMA CheckChunkFacts ==
  ASSUME Granted, IndexInv, CheckChunk
  PROVE  \/ Raise
         \/ /\ at = "extent" /\ UNCHANGED <<dest, at, phase>> /\ phase = "check"
            /\ start' \in Int
            /\ \A u \in InRange(call) :
                 start <= u /\ u < start' => dest[DestUnit(u)] = 0
<1>1. CASE Raise
  BY <1>1
<1>2. CASE ~Raise
  <2>1. PICK n \in 1 .. Lesser(Chunk, end - start) :
          /\ Zeros(n) /\ start' = start + n
          /\ UNCHANGED <<dest, at, phase>>
    BY <1>2 DEF CheckChunk, files, chunk
  <2>2. at = "extent" /\ phase = "check" /\ start \in Int /\ n \in Int
    BY <2>1 DEF CheckChunk, IndexInv
  <2>3. ASSUME NEW u \in InRange(call), start <= u, u < start'
        PROVE  dest[DestUnit(u)] = 0
    <3>1. u \in start .. start + n - 1
      BY <2>1, <2>2, <2>3, CallFacts DEF InRange, IndexInv
    <3>2. Searched[u] = 0
      BY <2>1, <3>1 DEF Zeros
    <3>3. Searched[u] = dest[DestUnit(u)]
      BY <2>2, <2>3 DEF Searched
    <3>4. QED
      BY <3>2, <3>3
  <2>4. QED
    BY <2>1, <2>2, <2>3
<1>3. QED
  BY <1>1, <1>2

\* The end of the check is where copy_sparse_range learns of its range.
LEMMA CheckedIsZero ==
  ASSUME Granted, IndexInv, HolesInv, CheckInv, at = "data", phase = "check",
         ~(position < Limit /\ \E w \in DataFrom(position) : w < Limit),
         NEW u \in InRange(call)
  PROVE  dest[DestUnit(u)] = 0
<1>1. CASE position <= u
  <2>1. IsHole(u)
    BY <1>1, PassedIsHole
  <2>2. QED
    BY <2>1, HoleIsZero DEF IndexInv
<1>2. CASE u < position
  BY <1>2 DEF CheckInv, Active
<1>3. position \in Int /\ u \in Int
  BY CallFacts DEF IndexInv, InRange
<1>4. QED
  BY <1>1, <1>2, <1>3

LEMMA HolesStep ==
  ASSUME Granted, IndexInv, HolesInv, CheckInv, [CopyNext]_copyVars
  PROVE  HolesInv'
<1>1. /\ call' = call /\ source' = source /\ dest0' = dest0
      /\ sourceHoles' = sourceHoles /\ destHoles' = destHoles
      /\ Places(call)' = Places(call)
  BY FilesStay DEF Places, InRange
<1>2. SUFFICES ASSUME call.range, phase # "copy", phase' = "copy",
                      NEW d \in Places(call)
               PROVE  dest0[d] = 0
  BY <1>1 DEF HolesInv
<1>3. SeekData /\ EndOfExtents
  BY <1>2, RaiseFacts
     DEF CopyNext, copyVars, CheckBounds, SeekData, SeekHole, FallBack, CallFails, EndExtent,
         CheckChunk, ReadChunk, WriteSome, EndChunk, Extent
<1>4. /\ at = "data" /\ phase = "check"
      /\ ~(position < Limit /\ \E w \in DataFrom(position) : w < Limit)
  BY <1>2, <1>3 DEF SeekData, IndexInv
<1>5. PICK u \in InRange(call), n \in DOMAIN call.offsets : d = u + call.offsets[n]
  BY <1>2 DEF Places
<1>6. n = 1
  BY <1>2, FirstDestination DEF IndexInv
<1>7. dest[d] = 0 /\ dest = dest0
  BY <1>4, <1>5, <1>6, CheckedIsZero DEF DestUnit, CheckInv
<1>8. QED
  BY <1>7

LEMMA CheckStep ==
  ASSUME Granted, IndexInv, HolesInv, CheckInv, [CopyNext]_copyVars
  PROVE  CheckInv'
<1> DEFINE Reached == IF at = "data" THEN position ELSE start
<1>1. /\ call' = call /\ dest0' = dest0 /\ InRange(call)' = InRange(call)
      /\ \A u \in InRange(call) : u \in Int /\ call.from <= u
      /\ position \in Int /\ start \in Int /\ call.from \in Int
  BY FilesStay, CallFacts DEF InRange, IndexInv
<1>2. SUFFICES ASSUME phase' = "check"
               PROVE  /\ dest' = dest0
                      /\ Active' => \A u \in InRange(call) :
                                      u < Reached' => dest'[u + call.offsets[1]] = 0
  BY <1>1 DEF CheckInv, DestUnit
<1>3. phase = "check"
  BY <1>2, RaiseFacts
     DEF CopyNext, copyVars, CheckBounds, SeekData, SeekHole, FallBack, CallFails, EndExtent,
         CheckChunk, ReadChunk, WriteSome, EndChunk, Extent, EndOfExtents, IndexInv, Go,
         chunk, files
<1>4. /\ dest = dest0
      /\ Active => \A u \in InRange(call) : u < Reached => dest[u + call.offsets[1]] = 0
  BY <1>3 DEF CheckInv, DestUnit
<1>5. CASE Raise
  BY <1>4, <1>5, RaiseFacts DEF Active
<1>6. CASE CheckBounds
  BY <1>1, <1>4, <1>6 DEF CheckBounds, IndexInv, Active, Go, extent
<1>7. CASE SeekData
  <2>1. PICK w \in DataFrom(position) : IsFirst(w, DataFrom(position)) /\ start' = w
    BY <1>2, <1>3, <1>7 DEF SeekData, EndOfExtents
  <2>2. at = "data" /\ at' = "hole" /\ dest' = dest
    BY <1>2, <1>3, <1>7 DEF SeekData, EndOfExtents, Go
  <2>3. ASSUME NEW u \in InRange(call), u < w, position <= u
        PROVE  dest[u + call.offsets[1]] = 0
    BY <1>3, <2>1, <2>2, <2>3, PassedIsHole, HoleIsZero DEF DestUnit
  <2>4. QED
    BY <1>1, <1>4, <2>1, <2>2, <2>3 DEF Active
<1>8. CASE SeekHole
  BY <1>4, <1>5, <1>8, SeekHoleFacts DEF Active
<1>9. CASE FallBack
  BY <1>1, <1>4, <1>5, <1>9, FallBackFacts DEF Active
<1>10. CASE CallFails
  BY <1>5, <1>10 DEF CallFails
<1>11. CASE EndExtent
  BY <1>4, <1>11, EndExtentFacts DEF Active
<1>12. CASE CheckChunk
  BY <1>1, <1>4, <1>5, <1>12, CheckChunkFacts DEF Active, DestUnit
<1>13. CASE ReadChunk \/ WriteSome \/ EndChunk
  BY <1>3, <1>13 DEF ReadChunk, WriteSome, EndChunk, IndexInv
<1>14. CASE UNCHANGED copyVars
  BY <1>1, <1>4, <1>14 DEF copyVars, extent, chunk, Active
<1>15. QED
  BY <1>6, <1>7, <1>8, <1>9, <1>10, <1>11, <1>12, <1>13, <1>14 DEF CopyNext

LEMMA WrittenAt ==
  ASSUME NEW f, NEW s \in Int, NEW e \in Int, NEW offset \in Int, NEW w,
         NEW x \in Int, x \in DOMAIN f
  PROVE  Written(f, s, e, offset, w)[x] =
           IF x - offset \in s .. e - 1 THEN w[x - offset] ELSE f[x]
  BY DEF Written

LEMMA CopyWrite ==
  ASSUME Granted, IndexInv, CopyInv, WriteSome, call' = call, source' = source,
         NEW u \in InRange(call), NEW n \in DOMAIN call.offsets
  PROVE  dest'[u + call.offsets[n]] =
           IF u < start \/ Moved(u, n)' THEN source[u] ELSE 0
<1>1. PICK m \in Int :
        /\ put < m /\ m <= got
        /\ dest' = Written(dest, start + put, start + m, call.offsets[j], source)
        /\ IF m = got THEN put' = 0 /\ j' = j + 1 ELSE put' = m /\ j' = j
  BY WriteFacts
<1>2. /\ u \in Int /\ n \in Int /\ call.offsets[n] \in Int /\ call.offsets[j] \in Int
      /\ u + call.offsets[n] \in DOMAIN dest
  <2>1. InBounds(call) /\ call \in Calls /\ DOMAIN dest = 0 .. DestUnits - 1
    BY WriteFacts DEF IndexInv, Active
  <2>2. u \in Int /\ u + call.offsets[n] \in 0 .. DestUnits - 1
    BY <2>1, InFile
  <2>3. n \in Int /\ call.offsets[n] \in Int /\ call.offsets[j] \in Int
    <3>1. j \in DOMAIN call.offsets
      BY WriteFacts
    <3>2. \A i \in DOMAIN call.offsets : call.offsets[i] \in Int
      BY <2>1, CallFacts
    <3>3. DOMAIN call.offsets = 1 .. Len(call.offsets) /\ Len(call.offsets) \in Nat
      BY <2>1, CallFacts
    <3>4. n \in Int
      BY <3>3
    <3>5. QED
      BY <3>1, <3>2, <3>4
  <2>4. QED
    BY <2>1, <2>2, <2>3
<1>3. /\ at = "write" /\ at' = "write" /\ start' = start /\ got' = got
      /\ start \in Int /\ got \in Int /\ put \in Int /\ j \in Int
      /\ put' \in Int /\ j' \in Int /\ 0 <= put /\ put < got
      /\ j \in DOMAIN call.offsets
  BY WriteFacts
<1>4. dest[u + call.offsets[n]] = IF u < start \/ Moved(u, n) THEN source[u] ELSE 0
  BY <1>3, WriteFacts DEF CopyInv, Active, Front
<1> DEFINE offset == call.offsets[j]
           d == u + call.offsets[n]
           new == start + put .. (start + m) - 1
<1>5. \A x \in Int : x \in DOMAIN dest =>
        dest'[x] = IF x - offset \in new THEN source[x - offset] ELSE dest[x]
  <2>1. start + put \in Int /\ start + m \in Int /\ offset \in Int
    BY <1>2, <1>3
  <2>2. dest' = Written(dest, start + put, start + m, offset, source)
    BY <1>1
  <2> DEFINE after == Written(dest, start + put, start + m, offset, source)
  <2> HIDE DEF offset
  <2>3. SUFFICES ASSUME NEW x \in Int, x \in DOMAIN dest
                 PROVE  after[x] = IF x - offset \in new THEN source[x - offset] ELSE dest[x]
    BY <2>2
  <2>4. QED
    BY <2>1, <2>3, WrittenAt
<1>6. ASSUME d - offset \in new
      PROVE  d - offset = u /\ n = j
  <2>1. d - offset \in InRange(call)
    BY <1>1, <1>2, <1>3, <1>6, WriteFacts
  <2>2. u + call.offsets[n] = (d - offset) + call.offsets[j]
    BY <1>2
  <2>3. QED
    BY <1>3, <2>1, <2>2, PlacesDiffer DEF IndexInv
<1>7. n = j => d - offset = u
  BY <1>2
<1>8. d \in Int /\ d \in DOMAIN dest
  BY <1>2
<1>9. dest[d] = IF u < start \/ Moved(u, n) THEN source[u] ELSE 0
  BY <1>4
<1>10. u \in new <=> start + put <= u /\ u < start + m
  BY <1>1, <1>2, <1>3
<1> HIDE DEF d, offset, new
<1>11. dest'[d] = IF n = j /\ u \in new THEN source[u] ELSE dest[d]
  BY <1>5, <1>6, <1>7, <1>8
<1>12. Moved(u, n)' <=> Moved(u, n) \/ (n = j /\ start + put <= u /\ u < start + m)
  <2>1. CASE m = got
    <3>1. Moved(u, n)' <=> start <= u /\ n <= j /\ u < start + got
      BY <1>1, <1>2, <1>3, <2>1 DEF Moved
    <3>2. Moved(u, n) <=>
            start <= u /\ ((n < j /\ u < start + got) \/ (n = j /\ u < start + put))
      BY <1>3 DEF Moved
    <3>3. QED
      BY <1>2, <1>3, <2>1, <3>1, <3>2
  <2>2. CASE m # got
    BY <1>1, <1>2, <1>3, <2>2 DEF Moved
  <2>3. QED
    BY <2>1, <2>2
<1>13. dest'[d] = IF u < start \/ Moved(u, n)' THEN source[u] ELSE 0
  BY <1>9, <1>10, <1>11, <1>12
<1>14. QED
  BY <1>13 DEF d

LEMMA ReadChunkFacts ==
  ASSUME Granted, IndexInv, ReadChunk
  PROVE  /\ at = "extent" /\ phase = "copy" /\ UNCHANGED <<dest, phase>>
         /\ \/ /\ at' = "extent" /\ start' \in Int
               /\ \A u \in InRange(call) : start <= u /\ u < start' => source[u] = 0
               /\ start <= start'
            \/ at' = "write" /\ start' = start /\ put' = 0 /\ j' = 1
<1>1. PICK n \in 1 .. Lesser(Chunk, end - start) :
        IF skip /\ Zeros(n)
          THEN /\ start' = start + n
               /\ UNCHANGED <<files, dest, at, phase, position, end, begun, skip, chunk>>
          ELSE /\ got' = n /\ put' = 0 /\ j' = 1
               /\ Go("write")
               /\ UNCHANGED <<files, dest, phase, extent>>
  BY DEF ReadChunk
<1>2. at = "extent" /\ phase = "copy" /\ start \in Int /\ n \in Int /\ 0 < n
  BY <1>1 DEF ReadChunk, IndexInv
<1>3. CASE skip /\ Zeros(n)
  <2>1. start' = start + n /\ at' = "extent" /\ UNCHANGED <<dest, phase>>
    BY <1>1, <1>2, <1>3
  <2>2. ASSUME NEW u \in InRange(call), start <= u, u < start'
        PROVE  source[u] = 0
    <3>1. u \in start .. start + n - 1
      BY <1>2, <2>1, <2>2, CallFacts DEF InRange, IndexInv
    <3>2. Searched[u] = 0
      BY <1>3, <3>1 DEF Zeros
    <3>3. QED
      BY <1>2, <3>2 DEF Searched
  <2>3. QED
    BY <1>2, <2>1, <2>2
<1>4. CASE ~(skip /\ Zeros(n))
  BY <1>1, <1>2, <1>4 DEF Go, extent
<1>5. QED
  BY <1>3, <1>4

LEMMA CopyStep ==
  ASSUME Granted, IndexInv, HolesInv, CheckInv, CopyInv, [CopyNext]_copyVars, IndexInv', HolesInv'
  PROVE  CopyInv'
<1> DEFINE Holds(u, n) ==
             dest[u + call.offsets[n]] = IF u < Front \/ Moved(u, n) THEN source[u] ELSE 0
<1>1. /\ call' = call /\ source' = source /\ dest0' = dest0 /\ Limit' = Limit
      /\ InRange(call)' = InRange(call) /\ Places(call)' = Places(call)
      /\ call \in Calls /\ call.from \in Int
      /\ \A u \in InRange(call) : u \in Int /\ call.from <= u
      /\ \A n \in DOMAIN call.offsets : n \in Int /\ 1 <= n /\ n <= Len(call.offsets)
      /\ Len(call.offsets) \in Int
  <2>1. /\ call' = call /\ source' = source /\ dest0' = dest0 /\ Limit' = Limit
        /\ InRange(call)' = InRange(call) /\ Places(call)' = Places(call)
    BY FilesStay DEF InRange, Places
  <2>2. /\ call \in Calls /\ call.from \in Int
        /\ \A u \in InRange(call) : u \in Int /\ call.from <= u
    BY CallFacts DEF InRange, IndexInv
  <2>3. /\ DOMAIN call.offsets = 1 .. Len(call.offsets) /\ Len(call.offsets) \in Nat
    BY <2>2, CallFacts
  <2>4. \A n \in 1 .. Len(call.offsets) : n \in Int /\ 1 <= n /\ n <= Len(call.offsets)
    BY <2>3
  <2>5. QED
    BY <2>1, <2>2, <2>3, <2>4
<1>2. /\ position \in Int /\ start \in Int /\ got \in Int /\ put \in Int /\ j \in Int
      /\ position' \in Int /\ start' \in Int
  BY DEF IndexInv
<1>3. SUFFICES
        ASSUME phase' = "copy", Active'
        PROVE  /\ \A u \in InRange(call), n \in DOMAIN call.offsets : Holds(u, n)'
               /\ at' = "hole" =>
                    \A u \in InRange(call) : position' <= u /\ u < start' => source[u] = 0
  BY <1>1 DEF CopyInv
<1>4. ASSUME phase = "copy", Active, NEW u \in InRange(call), NEW n \in DOMAIN call.offsets
      PROVE  Holds(u, n)
  BY <1>4 DEF CopyInv
\* Where the copy begins, nothing is written yet.
<1>5. ASSUME dest' = dest0, at' = "data", position' = call.from
      PROVE  \A u \in InRange(call), n \in DOMAIN call.offsets : Holds(u, n)'
  <2>1. SUFFICES ASSUME NEW u \in InRange(call), NEW n \in DOMAIN call.offsets
                 PROVE  Holds(u, n)'
    OBVIOUS
  <2>2. InBounds(call)
    BY <1>1, <1>3 DEF IndexInv
  <2>3. u + call.offsets[n] \in Places(call)
    BY <1>1, <2>2, InFile
  <2>4. dest0[u + call.offsets[n]] = 0
    BY <1>1, <1>3, <2>3 DEF HolesInv
  <2>5. ~(u < Front)' /\ ~Moved(u, n)'
    BY <1>1, <1>2, <1>5 DEF Front, Moved
  <2>6. QED
    BY <1>1, <1>5, <2>4, <2>5
<1>6. CASE Raise
  BY <1>3, <1>6, RaiseFacts DEF Active
<1>7. CASE CheckBounds
  <2>1. /\ dest' = dest /\ at' = "data" /\ at = "bounds" /\ position' = position
    BY <1>3, <1>7 DEF CheckBounds, Go, extent, Active
  <2>2. position' = call.from /\ dest' = dest0
    BY <2>1 DEF IndexInv, CheckInv
  <2>3. QED
    BY <1>5, <2>1, <2>2
<1>8. CASE SeekData /\ EndOfExtents
  <2>1. /\ at = "data" /\ phase = "check" /\ at' = "data" /\ dest' = dest
        /\ position' = call.from
    BY <1>3, <1>8 DEF SeekData, EndOfExtents, IndexInv, Active, Go
  <2>2. dest' = dest0
    BY <2>1 DEF CheckInv
  <2>3. QED
    BY <1>5, <2>1, <2>2
<1>9. CASE SeekData /\ ~EndOfExtents
  <2>1. PICK w \in DataFrom(position) : IsFirst(w, DataFrom(position)) /\ start' = w
    BY <1>9 DEF SeekData
  <2>2. /\ at = "data" /\ at' = "hole" /\ phase = "copy"
        /\ dest' = dest /\ position' = position
    BY <1>3, <1>9 DEF SeekData, Go
  <2>3. ASSUME NEW u \in InRange(call), position' <= u, u < start'
        PROVE  source[u] = 0
    BY <2>1, <2>2, <2>3, PassedIsHole, HoleIsZero
  <2>4. ASSUME NEW u \in InRange(call), NEW n \in DOMAIN call.offsets
        PROVE  Holds(u, n)'
    BY <1>1, <1>4, <2>2 DEF Active, Front, Moved
  <2>5. QED
    BY <2>3, <2>4
<1>10. CASE SeekHole
  <2>1. /\ at = "hole" /\ at' = "extent" /\ phase = "copy"
        /\ dest' = dest /\ start' = start /\ position <= start
    BY <1>3, <1>6, <1>10, SeekHoleFacts, RaiseFacts DEF Active, IndexInv
  <2>2. \A u \in InRange(call) : position <= u /\ u < start => source[u] = 0
    BY <2>1 DEF CopyInv, Active
  <2>3. ASSUME NEW u \in InRange(call), NEW n \in DOMAIN call.offsets
        PROVE  Holds(u, n)'
    <3>1. dest[u + call.offsets[n]] = IF u < position THEN source[u] ELSE 0
      BY <1>4, <2>1 DEF Active, Front, Moved
    <3>2. dest[u + call.offsets[n]] = IF u < start THEN source[u] ELSE 0
      BY <1>1, <1>2, <2>1, <2>2, <3>1
    <3>3. QED
      BY <1>1, <2>1, <3>2 DEF Front, Moved
  <2>4. QED
    BY <2>1, <2>3
<1>11. CASE FallBack
  <2>1. /\ at \in {"data", "hole"} /\ at' = "extent" /\ phase = "copy"
        /\ position = call.from /\ start' = call.from /\ dest' = dest
    BY <1>3, <1>11, FallBackFacts, RaiseFacts DEF Active
  <2>2. ASSUME NEW u \in InRange(call), NEW n \in DOMAIN call.offsets
        PROVE  Holds(u, n)'
    BY <1>1, <1>4, <2>1 DEF Active, Front, Moved
  <2>3. QED
    BY <2>1, <2>2
<1>12. CASE CallFails
  BY <1>6, <1>12 DEF CallFails
<1>13. CASE EndExtent
  <2>1. /\ at = "extent" /\ at' = "data" /\ phase = "copy" /\ dest' = dest
        /\ position' = position /\ \A u \in InRange(call) : u < position <=> u < start
    BY <1>3, <1>13, EndExtentFacts
  <2>2. ASSUME NEW u \in InRange(call), NEW n \in DOMAIN call.offsets
        PROVE  Holds(u, n)'
    BY <1>1, <1>4, <2>1 DEF Active, Front, Moved
  <2>3. QED
    BY <2>1, <2>2
<1>14. CASE CheckChunk
  BY <1>3, <1>6, <1>14, CheckChunkFacts
<1>15. CASE ReadChunk
  <2>1. at = "extent" /\ phase = "copy" /\ dest' = dest
    BY <1>15, ReadChunkFacts
  <2>2. ASSUME NEW u \in InRange(call), NEW n \in DOMAIN call.offsets
        PROVE  Holds(u, n)'
    <3>1. dest[u + call.offsets[n]] = IF u < start THEN source[u] ELSE 0
      BY <1>4, <2>1 DEF Active, Front, Moved
    <3>2. CASE /\ at' = "extent" /\ start <= start'
               /\ \A w \in InRange(call) : start <= w /\ w < start' => source[w] = 0
      <4>1. dest[u + call.offsets[n]] = IF u < start' THEN source[u] ELSE 0
        BY <1>1, <1>2, <3>1, <3>2
      <4>2. QED
        BY <1>1, <2>1, <3>2, <4>1 DEF Front, Moved
    <3>3. CASE at' = "write" /\ start' = start /\ put' = 0 /\ j' = 1
      <4>1. ~Moved(u, n)'
        BY <1>1, <1>2, <3>3 DEF Moved
      <4>2. QED
        BY <1>1, <2>1, <3>1, <3>3, <4>1 DEF Front
    <3>4. QED
      BY <1>15, <3>2, <3>3, ReadChunkFacts
  <2>3. QED
    BY <1>15, <2>2, ReadChunkFacts
<1>16. CASE WriteSome
  <2>1. at' = "write" /\ start' = start
    BY <1>16, WriteFacts
  <2>2. ASSUME NEW u \in InRange(call), NEW n \in DOMAIN call.offsets
        PROVE  Holds(u, n)'
    BY <1>1, <1>16, <2>1, CopyWrite DEF Front
  <2>3. QED
    BY <2>1, <2>2
<1>17. CASE EndChunk
  <2>1. /\ at = "write" /\ at' = "extent" /\ phase = "copy" /\ dest' = dest
        /\ start' = start + got /\ Len(call.offsets) < j /\ 0 < got
    BY <1>1, <1>2, <1>17 DEF EndChunk, Go, IndexInv
  <2>2. ASSUME NEW u \in InRange(call), NEW n \in DOMAIN call.offsets
        PROVE  Holds(u, n)'
    <3>1. Moved(u, n) <=> start <= u /\ u < start + got
      BY <1>1, <1>2, <2>1 DEF Moved
    <3>2. dest[u + call.offsets[n]] = IF u < start \/ Moved(u, n) THEN source[u] ELSE 0
      BY <1>4, <2>1 DEF Active, Front
    <3>3. dest[u + call.offsets[n]] = IF u < start' THEN source[u] ELSE 0
      BY <1>1, <1>2, <2>1, <3>1, <3>2
    <3>4. QED
      BY <1>1, <2>1, <3>3 DEF Front, Moved
  <2>3. QED
    BY <2>1, <2>2
<1>18. CASE UNCHANGED copyVars
  <2>1. phase = "copy" /\ Active /\ at' = at /\ position' = position /\ start' = start
        /\ dest' = dest /\ got' = got /\ put' = put /\ j' = j
    BY <1>3, <1>18 DEF copyVars, extent, chunk, Active
  <2>2. ASSUME NEW u \in InRange(call), NEW n \in DOMAIN call.offsets
        PROVE  Holds(u, n)'
    BY <1>1, <1>4, <2>1 DEF Front, Moved
  <2>3. QED
    BY <2>1, <2>2 DEF CopyInv
<1>19. QED
  BY <1>7, <1>8, <1>9, <1>10, <1>11, <1>12, <1>13, <1>14, <1>15, <1>16, <1>17, <1>18 DEF CopyNext

\* Every write is of a unit of the source, to one of its places.
LEMMA WrittenStep ==
  ASSUME Granted, IndexInv, NothingElseWritten, [CopyNext]_copyVars
  PROVE  NothingElseWritten'
<1>1. /\ call' = call /\ source' = source /\ dest0' = dest0
      /\ InRange(call)' = InRange(call)
  BY FilesStay DEF InRange
<1>2. CASE dest' = dest
  BY <1>1, <1>2 DEF NothingElseWritten
<1>3. CASE WriteSome
  <2>1. PICK m \in Int :
          /\ put < m /\ m <= got
          /\ dest' = Written(dest, start + put, start + m, call.offsets[j], source)
    BY <1>3, WriteFacts
  <2>2. /\ start \in Int /\ put \in Int /\ got \in Int /\ 0 <= put
        /\ j \in DOMAIN call.offsets /\ DOMAIN dest' = DOMAIN dest
        /\ call.offsets[j] \in Int /\ DOMAIN dest \subseteq Int
        /\ start + put \in Int /\ start + m \in Int
    <3>1. /\ start \in Int /\ put \in Int /\ got \in Int /\ 0 <= put
          /\ j \in DOMAIN call.offsets /\ DOMAIN dest' = DOMAIN dest
      BY <1>3, WriteFacts
    <3>2. call.offsets[j] \in Int
      BY <3>1, CallFacts DEF IndexInv
    <3>3. DOMAIN dest \subseteq Int
      BY DEF IndexInv
    <3>4. QED
      BY <3>1, <3>2, <3>3
  <2>3. SUFFICES ASSUME NEW d \in DOMAIN dest, dest'[d] # dest0[d]
                 PROVE  \E u \in InRange(call), n \in DOMAIN call.offsets :
                          d = u + call.offsets[n] /\ dest'[d] = source[u]
    BY <1>1, <2>2 DEF NothingElseWritten
  <2> DEFINE u == d - call.offsets[j]
  <2>4. dest'[d] = IF u \in start + put .. (start + m) - 1 THEN source[u] ELSE dest[d]
    BY <2>1, <2>2, WrittenAt
  <2>5. CASE u \in start + put .. (start + m) - 1
    <3>1. u \in InRange(call)
      BY <1>3, <2>1, <2>2, <2>5, WriteFacts
    <3>2. d = u + call.offsets[j]
      BY <2>2
    <3>3. QED
      BY <2>2, <2>4, <2>5, <3>1, <3>2
  <2>6. CASE u \notin start + put .. (start + m) - 1
    BY <2>3, <2>4, <2>6 DEF NothingElseWritten
  <2>7. QED
    BY <2>5, <2>6
<1>4. QED
  BY <1>2, <1>3, RaiseFacts
     DEF CopyNext, copyVars, CheckBounds, SeekData, SeekHole, FallBack, CallFails, EndExtent,
         CheckChunk, ReadChunk, EndChunk, EndOfExtents, Extent

LEMMA ExactStep ==
  ASSUME Granted, CopyIInv, [CopyNext]_copyVars
  PROVE  Exact' /\ (at' = "done" => phase' = "copy")
<1>1. /\ call' = call /\ source' = source /\ InRange(call)' = InRange(call)
  BY FilesStay DEF InRange
<1>2. SUFFICES ASSUME at' = "done"
               PROVE  /\ \A u \in InRange(call), n \in DOMAIN call.offsets :
                            dest'[u + call.offsets[n]] = source[u]
                      /\ phase' = "copy"
  BY <1>1 DEF Exact
<1>3. CASE SeekData
  <2>1. /\ at = "data" /\ phase = "copy" /\ phase' = phase /\ dest' = dest
        /\ ~(position < Limit /\ \E w \in DataFrom(position) : w < Limit)
    BY <1>2, <1>3 DEF SeekData, EndOfExtents, Go
  <2>2. ASSUME NEW u \in InRange(call), NEW n \in DOMAIN call.offsets
        PROVE  dest[u + call.offsets[n]] = source[u]
    <3>1. dest[u + call.offsets[n]] = IF u < position THEN source[u] ELSE 0
      BY <2>1 DEF CopyIInv, CopyInv, Active, Front, Moved
    <3>2. position <= u => source[u] = 0
      BY <2>1, PassedIsHole, HoleIsZero DEF CopyIInv
    <3>3. u \in Int /\ position \in Int
      BY CallFacts DEF CopyIInv, IndexInv, InRange
    <3>4. QED
      BY <3>1, <3>2, <3>3
  <2>3. QED
    BY <2>1, <2>2
<1>4. CASE UNCHANGED copyVars
  BY <1>1, <1>2, <1>4 DEF copyVars, CopyIInv, Exact
<1>5. QED
  BY <1>2, <1>3, <1>4, RaiseFacts
     DEF CopyNext, CheckBounds, SeekHole, FallBack, CallFails, EndExtent, CheckChunk,
         ReadChunk, WriteSome, EndChunk, Extent, Go, CopyIInv, IndexInv
-----------------------------------------------------------------------------
(***************************************************************************)
(* The theorems.                                                           *)
(***************************************************************************)
LEMMA InitIInv == ASSUME Granted, CopyInit PROVE CopyIInv
<1>1. call \in Calls /\ call.from \in Nat
  BY CallFacts DEF CopyInit
<1>2. PICK content \in [Places(call) -> Values] :
        /\ ~call.range => \A d \in Places(call) : content[d] = 0
        /\ dest0 = [d \in 0 .. DestUnits - 1 |->
                      IF d \in Places(call) THEN content[d] ELSE 1]
  BY DEF CopyInit
<1>3. IndexInv
  <2>1. DOMAIN dest = 0 .. DestUnits - 1
    BY <1>2 DEF CopyInit
  <2>2. /\ at = "bounds" /\ phase = "check" /\ begun = FALSE
        /\ position = call.from /\ start = call.from /\ end = call.from
        /\ got = 0 /\ put = 0 /\ j = 1
    BY DEF CopyInit
  <2>3. call.from \in Int
    BY <1>1
  <2>4. begun \in BOOLEAN
    BY <2>2, Zenon
  <2>5. ~Active /\ at # "hole" /\ at \notin {"extent", "write"} /\ at # "write"
    BY <2>2 DEF Active
  <2>6. QED
    BY <1>1, <2>1, <2>2, <2>3, <2>4, <2>5 DEF IndexInv
<1>4. HolesInv
  <2>1. \A d \in Places(call) : dest0[d] = content[d]
    BY <1>2 DEF Places
  <2>2. \A d \in destHoles : dest0[d] = 0
    BY DEF CopyInit
  <2>3. QED
    BY <1>2, <2>1, <2>2 DEF CopyInit, HolesInv
<1>5. CheckInv /\ CopyInv
  BY DEF CopyInit, CheckInv, CopyInv, Active
<1>6. NothingElseWritten /\ Exact /\ (at = "done" => phase = "copy")
  BY DEF CopyInit, NothingElseWritten, Exact
<1>7. QED
  BY <1>3, <1>4, <1>5, <1>6 DEF CopyIInv

LEMMA NextIInv == ASSUME Granted, CopyIInv, [CopyNext]_copyVars PROVE CopyIInv'
<1>1. IndexInv'
  BY IndexStep DEF CopyIInv
<1>2. HolesInv' /\ CheckInv'
  BY HolesStep, CheckStep DEF CopyIInv
<1>3. CopyInv'
  BY <1>1, <1>2, CopyStep DEF CopyIInv
<1>4. NothingElseWritten' /\ Exact' /\ (at' = "done" => phase' = "copy")
  BY WrittenStep, ExactStep DEF CopyIInv
<1>5. QED
  BY <1>1, <1>2, <1>3, <1>4 DEF CopyIInv

LEMMA Invariance == CopySpec => []CopyIInv
<1>0. Granted
  BY CallsAssumption
<1>1. CopyInit => CopyIInv
  BY <1>0, InitIInv
<1>2. CopyIInv /\ [CopyNext]_copyVars => CopyIInv'
  BY <1>0, NextIInv
<1>3. QED
  BY <1>1, <1>2, PTL DEF CopySpec

(***************************************************************************)
(* A copy that returns has put every unit of its range at every offset,    *)
(* whatever extents the file system names and however little one read or   *)
(* write moves (copy_sparse_to_offsets, copy_sparse_range).                *)
(***************************************************************************)
THEOREM ExactCopy == CopySpec => []Exact
<1>1. CopyIInv => Exact
  BY DEF CopyIInv
<1>2. QED
  BY <1>1, Invariance, PTL

(***************************************************************************)
(* At no moment is anything written but units of the source, each to one   *)
(* of its places.                                                          *)
(***************************************************************************)
THEOREM OnlyTargets == CopySpec => []NothingElseWritten
<1>1. CopyIInv => NothingElseWritten
  BY DEF CopyIInv
<1>2. QED
  BY <1>1, Invariance, PTL

(***************************************************************************)
(* copy_sparse_range writes nothing to a range that holds anything but     *)
(* zeros, and does not return.                                             *)
(***************************************************************************)
THEOREM DirtyIsRefused == CopySpec => []DirtyRangeRefused
<1>1. CopyIInv => DirtyRangeRefused
  BY DEF CopyIInv, DirtyRangeRefused, HolesInv, CheckInv, IndexInv
<1>2. QED
  BY <1>1, Invariance, PTL

(***************************************************************************)
(* The three together, which is what copy_sparse_to_offsets and            *)
(* copy_sparse_range promise.                                              *)
(***************************************************************************)
THEOREM CopiesAreExact == CopySpec => []CopyIsExact
<1>1. CopyIInv => CopyIsExact
  <2>1. CopyIInv => Exact /\ NothingElseWritten
    BY DEF CopyIInv
  <2>2. CopyIInv => DirtyRangeRefused
    BY DEF CopyIInv, DirtyRangeRefused, HolesInv, CheckInv, IndexInv
  <2>3. QED
    BY <2>1, <2>2 DEF CopyIsExact
<1>2. QED
  BY <1>1, Invariance, PTL
-----------------------------------------------------------------------------
(***************************************************************************)
(* ImageAssembly, for all sources, plans and fresh partitions, and however *)
(* often somebody else writes to a file of the build.                      *)
(***************************************************************************)

Located == Source \union {"stage"}
Marked == [body : Bodies \union {"nothing", "made", "mixture"},
           marks : SUBSET {"fix", "features"}, header : BOOLEAN]

Checking == {"hash", "fsck", "unchanged"}
Making == {"make", "stage", "fix", "install", "reopen", "hashRoot"}
Copying == {"begin", "copy"}
Verifying == {"headers", "hashes", "compare", "fresh", "published"}
Later == {"plan"} \union Making \union Copying \union Verifying

AssemblyTypes ==
  /\ plan \in Plans
  /\ file \in [Files -> [content : Marked, version : Nat]]
  /\ opened \in [Files -> Int]
  /\ hash \in [Located -> Marked]
  /\ image \in [ImagePartitions -> Marked]
  /\ accepted \in [Source -> Marked] /\ exposed \in BOOLEAN
  /\ meddling \in Nat
  /\ pc \in {"open", "failed"} \union Checking \union Later
  /\ pc \in {"open"} \union Checking => index \in 1..3
  /\ pc \in Copying => index \in 1..5

\* A file that is written to has another version than when it was opened.
VersionInv ==
  /\ \A f \in Located : opened[f] <= file[f].version
  /\ \A f \in Source : file[f].content.marks = {}

\* Source k has been hashed and accepted, and was not written to in between.
Done(k) == (pc \in Checking /\ k < index) \/ pc \in Later
IsAccepted(f) ==
  /\ hash[f] = accepted[f] /\ accepted[f].body \in Sound
  /\ accepted[f].header = TRUE /\ accepted[f].marks = {}
  /\ Unchanged(f) => file[f].content = accepted[f]

SourcesInv ==
  /\ \A k \in 1..3 : Done(k) => IsAccepted(Roles[k])
  /\ pc = "fsck" /\ Unchanged(Roles[index]) => hash[Roles[index]] = file[Roles[index]].content
  /\ pc = "unchanged" =>
       /\ accepted[Roles[index]].body \in Sound /\ accepted[Roles[index]].header = TRUE
       /\ Unchanged(Roles[index]) =>
            /\ hash[Roles[index]] = file[Roles[index]].content
            /\ accepted[Roles[index]] = file[Roles[index]].content

\* The root after the Jukebox fix, and after the features.
Customized(marks) == [accepted["root"] EXCEPT !.marks = marks]
Fixed == Customized({"fix"})
Wanted == Customized({"fix"} \union (IF plan = {} THEN {} ELSE {"features"}))

StageCopied == (pc \in Copying /\ index > 2) \/ pc \in Verifying
StageInv ==
  /\ pc \in Later \ {"plan"} => "jukebox" \notin plan
  /\ ~exposed =>
       /\ pc = "fix" => file["stage"].content = accepted["root"]
       /\ pc = "install" => file["stage"].content = Fixed
       /\ pc = "reopen" => file["stage"].content = Wanted
       /\ pc = "hashRoot" /\ Unchanged("stage") => file["stage"].content = Wanted
       /\ pc \in Copying /\ Unchanged("stage") => hash["stage"] = Wanted
       /\ StageCopied => hash["stage"] = Wanted
  /\ pc \in Copying /\ Unchanged("stage") => hash["stage"] = file["stage"].content
  /\ StageCopied /\ image["p2"].header = TRUE => hash["stage"].header = TRUE

\* What the last checks have seen.
VerifiedInv ==
  /\ pc \in {"hashes", "compare", "fresh", "published"} => hash["stage"].header = TRUE
  /\ pc = "compare" => seen = [p \in Immutable |-> image[p]]
  /\ pc \in {"fresh", "published"} =>
       /\ image["p1"] = hash["boot"] /\ image["p5"] = hash["boot"]
       /\ image["p2"] = hash["stage"] /\ image["p6"] = hash["stage"]
       /\ image["p11"] = hash["vr"]
  /\ pc = "published" => \A p \in FreshOrSwap : image[p].header = TRUE

\* With nobody else at work everything is as it was left.
Honest ==
  /\ meddling = 0 /\ "jukebox" \notin plan
  /\ \A f \in Source : file[f].content.body \in Sound
CopiedUpTo == IF pc \in Copying THEN index - 1 ELSE IF pc \in Verifying THEN 5 ELSE 0
HonestInv ==
  Honest =>
    /\ pc # "failed"
    /\ \A f \in Source : file[f].content.header = TRUE
    /\ \A k \in 1..3 : pc # "open" \/ k < index => Unchanged(Roles[k])
    /\ pc \in (Making \ {"make", "stage"}) \union Copying =>
         file["stage"].content.body \in Sound /\ file["stage"].content.header = TRUE
    /\ pc \in {"hashRoot"} \union Copying => Unchanged("stage")
    /\ pc \in (Making \ {"make"}) \union Copying =>
         \A f \in FreshOrSwap : file[f].content = Made
    /\ pc = "copy" => \A f \in Copied(index) : Unchanged(f)
    /\ \A k \in 1 .. CopiedUpTo :
         /\ k = 1 => image["p1"] = hash["boot"] /\ image["p5"] = hash["boot"]
         /\ k = 2 => /\ image["p2"] = hash["stage"] /\ image["p6"] = hash["stage"]
                    /\ hash["stage"].header = TRUE
         /\ k = 3 => image["p11"] = hash["vr"]
         /\ k = 4 => image["p3"] = Made
         /\ k = 5 => \A p \in Fresh : image[p] = Made

AssemblyInv ==
  AssemblyTypes /\ VersionInv /\ SourcesInv /\ StageInv /\ VerifiedInv /\ HonestInv

-----------------------------------------------------------------------------
LEMMA RolesAre ==
  /\ Len(Roles) = 3 /\ Roles[1] = "boot" /\ Roles[2] = "root" /\ Roles[3] = "vr"
  /\ \A k \in 1..3 : Roles[k] \in Source
  /\ \A f \in Source : \E k \in 1..3 : f = Roles[k]
  /\ \A k, m \in 1..3 : Roles[k] = Roles[m] => k = m
<1>1. Len(Roles) = 3 /\ Roles[1] = "boot" /\ Roles[2] = "root" /\ Roles[3] = "vr"
  BY DEF Roles
<1>2. \A k \in 1..3 : k = 1 \/ k = 2 \/ k = 3
  OBVIOUS
<1> HIDE DEF Roles
<1>3. \A k \in 1..3 : Roles[k] \in Source
  BY <1>1, <1>2 DEF Source
<1>4. \A f \in Source : \E k \in 1..3 : f = Roles[k]
  BY <1>1 DEF Source
<1>5. \A k, m \in 1..3 : Roles[k] = Roles[m] => k = m
  BY <1>1, <1>2
<1> QED BY <1>1, <1>3, <1>4, <1>5

(***************************************************************************)
(* Where the files go: the partitions of different files are different.    *)
(***************************************************************************)
LEMMA Numbers ==
  /\ Immutable \intersect FreshOrSwap = {} /\ "p3" \in FreshOrSwap
  /\ Located \intersect FreshOrSwap = {}
  /\ Fresh \subseteq FreshOrSwap /\ FreshOrSwap \subseteq {"p3"} \union Fresh /\ "p3" \notin Fresh
  /\ Files = Located \union FreshOrSwap
BY SoundAssumption DEF Immutable, FreshOrSwap, Located, Source, Files

LEMMA Payloads ==
  /\ Payload("p1") = "boot" /\ Payload("p5") = "boot"
  /\ Payload("p2") = "stage" /\ Payload("p6") = "stage"
  /\ Payload("p11") = "vr"
  /\ \A p \in FreshOrSwap : Payload(p) = p
<1>1. DOMAIN Targets = Files \ {"root"}
  BY DEF Targets
<1>2. /\ Targets["boot"] = {"p1", "p5"} /\ Targets["stage"] = {"p2", "p6"}
      /\ Targets["vr"] = {"p11"}
      /\ \A f \in FreshOrSwap : Targets[f] = {f}
  BY SoundAssumption DEF Targets, Files, Source, FreshOrSwap
<1>3. DOMAIN Targets = {"boot", "stage", "vr"} \union FreshOrSwap
  BY <1>1, SoundAssumption DEF Files, Source, FreshOrSwap
<1>4. ASSUME NEW p, NEW f \in DOMAIN Targets, p \in Targets[f],
             \A g \in DOMAIN Targets : p \in Targets[g] => g = f
      PROVE  Payload(p) = f
  BY <1>4, Zenon DEF Payload
<1>5. Immutable \intersect FreshOrSwap = {}
  BY Numbers
<1> HIDE DEF Targets
<1>6. \A g \in DOMAIN Targets : /\ "p1" \in Targets[g] => g = "boot"
                                /\ "p5" \in Targets[g] => g = "boot"
                                /\ "p2" \in Targets[g] => g = "stage"
                                /\ "p6" \in Targets[g] => g = "stage"
                                /\ "p11" \in Targets[g] => g = "vr"
  BY <1>2, <1>3, <1>5 DEF Immutable
<1>7. \A p \in FreshOrSwap : \A g \in DOMAIN Targets : p \in Targets[g] => g = p
  BY <1>2, <1>3, <1>5 DEF Immutable
<1>8. Payload("p1") = "boot" /\ Payload("p5") = "boot"
  BY <1>2, <1>3, <1>4, <1>6
<1>9. Payload("p2") = "stage" /\ Payload("p6") = "stage" /\ Payload("p11") = "vr"
  BY <1>2, <1>3, <1>4, <1>6
<1>10. \A p \in FreshOrSwap : Payload(p) = p
  BY <1>2, <1>3, <1>4, <1>7
<1> QED BY <1>8, <1>9, <1>10

LEMMA CopiesAre ==
  /\ Copied(1) = {"boot"} /\ Copied(2) = {"stage"} /\ Copied(3) = {"vr"}
  /\ Copied(4) = {"p3"} /\ Copied(5) = Fresh
BY DEF Copied

LEMMA Contents ==
  /\ \A body \in Bodies, header \in BOOLEAN : Content(body, {}, header) \in Marked
  /\ Made \in Marked /\ Nothing \in Marked /\ Mixture \in Marked /\ Made.header = TRUE
  /\ \A c \in Marked, marks \in SUBSET {"fix", "features"} :
       /\ [c EXCEPT !.marks = marks] \in Marked
       /\ [c EXCEPT !.marks = marks].body = c.body
       /\ [c EXCEPT !.marks = marks].header = c.header
       /\ [c EXCEPT !.marks = marks].marks = marks
  /\ \A c \in Marked :
       /\ [c EXCEPT !.header = FALSE] \in Marked
       /\ [c EXCEPT !.header = FALSE].header = FALSE
       /\ [c EXCEPT !.body = "mixture"] \in Marked
       /\ [c EXCEPT !.body = "mixture"].header = c.header
BY DEF Content, Made, Nothing, Mixture, Marked

LEMMA InitAssembly == Init => AssemblyInv
<1> SUFFICES ASSUME Init PROVE AssemblyInv
  OBVIOUS
<1>1. PICK body \in [Source -> Bodies] :
        file = [f \in Files |-> IF f \in Source THEN Restored(body[f]) ELSE Absent]
  BY DEF Init
<1>2. \A f \in Source : /\ file[f] = Restored(body[f]) /\ file[f].version = 0
                        /\ file[f].content = Content(body[f], {}, TRUE)
                        /\ file[f].content.marks = {} /\ file[f].content.header = TRUE
  BY <1>1 DEF Files, Restored, Content
<1>3. file["stage"].version = 0
  BY <1>1 DEF Files, Source, Absent
<1>4. AssemblyTypes
  <2>1. file \in [Files -> [content : Marked, version : Nat]]
    <3>1. \A f \in Files : (IF f \in Source THEN Restored(body[f]) ELSE Absent)
                             \in [content : Marked, version : Nat]
      BY Contents, Zenon DEF Restored, Absent
    <3> QED BY <1>1, <3>1
  <2>2. /\ opened \in [Files -> Int] /\ hash \in [Located -> Marked]
        /\ image \in [ImagePartitions -> Marked] /\ accepted \in [Source -> Marked]
    BY Contents DEF Init, Located
  <2>3. exposed \in BOOLEAN
    BY Zenon DEF Init
  <2>4. /\ plan \in Plans /\ meddling \in Nat /\ pc = "open" /\ index = 1
    BY DEF Init
  <2> QED BY <2>1, <2>2, <2>3, <2>4 DEF AssemblyTypes, Checking, Copying
<1>5. VersionInv
  BY <1>2, <1>3 DEF Init, VersionInv, Located, Files, Source
<1>6. SourcesInv /\ StageInv /\ VerifiedInv
  BY DEF Init, SourcesInv, Done, Checking, Later, Making, Copying, Verifying, StageInv,
         StageCopied, VerifiedInv
<1>7. HonestInv
  <2>1. pc = "open" /\ index = 1 /\ CopiedUpTo = 0
    BY DEF Init, CopiedUpTo, Copying, Verifying
  <2>2. \A f \in Source : file[f].content.header = TRUE
    BY <1>2
  <2> QED BY <2>1, <2>2 DEF HonestInv, Copying, Making
<1> QED BY <1>4, <1>5, <1>6, <1>7 DEF AssemblyInv
-----------------------------------------------------------------------------
(***************************************************************************)
(* A write gives its file another content and the next version.            *)
(***************************************************************************)
LEMMA Writes ==
  ASSUME file \in [Files -> [content : Marked, version : Nat]],
         NEW f \in Files, NEW c \in Marked, Write(f, c)
  PROVE  /\ file' \in [Files -> [content : Marked, version : Nat]]
         /\ file'[f].content = c /\ file'[f].version = file[f].version + 1
         /\ \A g \in Files : g # f => file'[g] = file[g]
BY DEF Write

\* Where a step leads is known from its check.
(***************************************************************************)
(* The files in the order in which the steps write them: only Meddle       *)
(* writes to a source, and it makes the version of what it writes larger.  *)
(***************************************************************************)
StaysOrGrows ==
  \A f \in Located :
    \/ file'[f] = file[f]
    \/ file'[f].version = file[f].version + 1

LEMMA Growing ==
  ASSUME AssemblyTypes, [Next]_vars
  PROVE  /\ file' \in [Files -> [content : Marked, version : Nat]]
         /\ StaysOrGrows
         /\ \A f \in Source :
              \/ file'[f] = file[f]
              \/ file'[f].content.marks = {} /\ meddling' = meddling + 1
<1>0. /\ file \in [Files -> [content : Marked, version : Nat]]
      /\ "stage" \in Files /\ "root" \in Files /\ Located \subseteq Files
      /\ Source \subseteq Located /\ "stage" \notin Source
      /\ Located \intersect FreshOrSwap = {}
  BY Numbers DEF AssemblyTypes, Files, Located, Source
<1>1. CASE UNCHANGED file
  BY <1>0, <1>1 DEF StaysOrGrows
<1>2. CASE MakeFresh
  <2>1. file' = [f \in Files |-> IF f \in FreshOrSwap THEN [content |-> Made, version |-> 0]
                                 ELSE file[f]]
    BY <1>2 DEF MakeFresh
  <2>2. file' \in [Files -> [content : Marked, version : Nat]]
    BY <1>0, <2>1, Contents
  <2> QED BY <1>0, <2>1, <2>2 DEF StaysOrGrows
<1>3. ASSUME NEW c \in Marked, Write("stage", c)
      PROVE  /\ file' \in [Files -> [content : Marked, version : Nat]]
             /\ StaysOrGrows /\ \A f \in Source : file'[f] = file[f]
  BY <1>0, <1>3, Writes DEF StaysOrGrows
<1>4. CASE Stage
  BY <1>0, <1>3, <1>4 DEF Stage
<1>5. CASE Fix
  <2>1. file["stage"].content \in Marked
    BY <1>0
  <2>2. file["stage"].content.marks \union {"fix"} \in SUBSET {"fix", "features"}
    BY <2>1 DEF Marked
  <2> QED BY <1>3, <1>5, <2>1, <2>2, Contents DEF Fix
<1>6. CASE Install
  <2>1. file["stage"].content \in Marked
    BY <1>0
  <2>2. (file["stage"].content.marks \union {"features"})
          \ (IF "jukebox" \in plan THEN {"fix"} ELSE {}) \in SUBSET {"fix", "features"}
    BY <2>1 DEF Marked
  <2> QED BY <1>1, <1>3, <1>6, <2>1, <2>2, Contents DEF Install
<1>7. CASE Meddle
  <2>1. PICK f \in Files, b \in Bodies, h \in BOOLEAN : Write(f, Content(b, {}, h))
    BY <1>7 DEF Meddle
  <2>2. Content(b, {}, h) \in Marked /\ Content(b, {}, h).marks = {}
    BY Contents DEF Content
  <2>3. meddling' = meddling + 1
    BY <1>7 DEF Meddle
  <2> QED BY <1>0, <2>1, <2>2, <2>3, Writes DEF StaysOrGrows
<1> QED BY <1>1, <1>2, <1>4, <1>5, <1>6, <1>7
        DEF Next, vars, OpenSource, HashSource, FsckSource, SourceUnchanged, CheckPlan, Reopen,
            HashRoot, BeginCopy, Copy, VerifyHeaders, HashPartitions, Compare, VerifyFresh, Damage

(***************************************************************************)
(* AssemblyTypes and VersionInv.                                           *)
(***************************************************************************)
LEMMA TypesKept ==
  ASSUME AssemblyTypes, [Next]_vars PROVE AssemblyTypes'
<1>1. file' \in [Files -> [content : Marked, version : Nat]]
  BY Growing
<1>2. \A f \in Files : file[f].content \in Marked /\ file[f].version \in Int
  BY DEF AssemblyTypes
<1>3. Source \subseteq Files /\ "stage" \in Files /\ Source \subseteq Located /\ "stage" \in Located
  BY Numbers DEF Located
<1>4. plan' \in Plans
  BY DEF AssemblyTypes, Next, vars, OpenSource, HashSource, FsckSource, SourceUnchanged,
         CheckPlan, MakeFresh, Stage, Fix, Install, Reopen, HashRoot, BeginCopy, Copy,
         VerifyHeaders, HashPartitions, Compare, VerifyFresh, Meddle, Damage
<1>5. opened' \in [Files -> Int]
  <2>1. opened \in [Files -> Int]
    BY DEF AssemblyTypes
  <2>2. CASE OpenSource
    BY <1>2, <2>1, <2>2 DEF OpenSource, Open
  <2>3. CASE Reopen
    BY <1>2, <2>1, <2>3 DEF Reopen, Open
  <2>4. CASE BeginCopy
    BY <1>2, <2>1, <2>4 DEF BeginCopy
  <2> QED BY <2>1, <2>2, <2>3, <2>4
          DEF Next, vars, HashSource, FsckSource, SourceUnchanged, CheckPlan, MakeFresh, Stage,
              Fix, Install, HashRoot, Copy, VerifyHeaders, HashPartitions, Compare,
              VerifyFresh, Meddle, Damage
<1>6. hash' \in [Located -> Marked]
  <2>1. hash \in [Located -> Marked]
    BY DEF AssemblyTypes
  <2>2. CASE HashSource
    <3>1. index \in 1..3
      BY <2>2 DEF HashSource, AssemblyTypes, Checking
    <3>2. file[Roles[index]].content \in Marked
      BY <1>2, <1>3, <3>1, RolesAre
    <3> QED BY <2>1, <2>2, <3>2 DEF HashSource
  <2>3. CASE HashRoot
    BY <1>2, <1>3, <2>1, <2>3 DEF HashRoot
  <2> QED BY <2>1, <2>2, <2>3
          DEF Next, vars, OpenSource, FsckSource, SourceUnchanged, CheckPlan, MakeFresh, Stage,
              Fix, Install, Reopen, BeginCopy, Copy, VerifyHeaders, HashPartitions, Compare,
              VerifyFresh, Meddle, Damage
<1>7. image' \in [ImagePartitions -> Marked]
  <2>1. image \in [ImagePartitions -> Marked]
    BY DEF AssemblyTypes
  <2>2. CASE Copy
    <3>1. ASSUME NEW p \in ImagePartitions PROVE Payload(p) \in Files
      BY Payloads, Numbers DEF ImagePartitions, Immutable, Located, Source
    <3> QED BY <1>2, <2>1, <2>2, <3>1, Contents DEF Copy
  <2>3. CASE Damage
    <3>1. PICK p : \/ image' = [image EXCEPT ![p].header = FALSE]
                   \/ image' = [image EXCEPT ![p].body = "mixture"]
      BY <2>3 DEF Damage
    <3>2. CASE image' = [image EXCEPT ![p].header = FALSE]
      <4>1. \A q \in ImagePartitions :
              image'[q] = IF q = p THEN [image[q] EXCEPT !.header = FALSE] ELSE image[q]
        BY <2>1, <3>2
      <4> QED BY <2>1, <3>2, <4>1, Contents
    <3>3. CASE image' = [image EXCEPT ![p].body = "mixture"]
      <4>1. \A q \in ImagePartitions :
              image'[q] = IF q = p THEN [image[q] EXCEPT !.body = "mixture"] ELSE image[q]
        BY <2>1, <3>3
      <4> QED BY <2>1, <3>3, <4>1, Contents
    <3> QED BY <3>1, <3>2, <3>3
  <2> QED BY <2>1, <2>2, <2>3
          DEF Next, vars, OpenSource, HashSource, FsckSource, SourceUnchanged, CheckPlan,
              MakeFresh, Stage, Fix, Install, Reopen, HashRoot, BeginCopy, VerifyHeaders,
              HashPartitions, Compare, VerifyFresh, Meddle
<1>8. accepted' \in [Source -> Marked] /\ exposed' \in BOOLEAN
  <2>1. accepted \in [Source -> Marked] /\ exposed \in BOOLEAN
    BY DEF AssemblyTypes
  <2>2. CASE FsckSource
    <3>1. index \in 1..3
      BY <2>2 DEF FsckSource, AssemblyTypes, Checking
    <3>2. file[Roles[index]].content \in Marked
      BY <1>2, <1>3, <3>1, RolesAre
    <3> QED BY <2>1, <2>2, <3>2 DEF FsckSource
  <2>3. CASE Meddle
    <3>1. accepted' = accepted /\ exposed' \in BOOLEAN
      BY <2>3, Zenon DEF Meddle
    <3> QED BY <2>1, <3>1
  <2> QED BY <2>1, <2>2, <2>3
          DEF Next, vars, history, OpenSource, HashSource, SourceUnchanged, CheckPlan,
              MakeFresh, Stage, Fix, Install, Reopen, HashRoot, BeginCopy, Copy, VerifyHeaders,
              HashPartitions, Compare, VerifyFresh, Damage
<1>9. meddling' \in Nat
  <2>1. meddling \in Nat
    BY DEF AssemblyTypes
  <2>2. CASE Meddle \/ Damage
    BY <2>1, <2>2 DEF Meddle, Damage
  <2> QED BY <2>1, <2>2
          DEF Next, vars, OpenSource, HashSource, FsckSource, SourceUnchanged, CheckPlan,
              MakeFresh, Stage, Fix, Install, Reopen, HashRoot, BeginCopy, Copy, VerifyHeaders,
              HashPartitions, Compare, VerifyFresh
<1>10. /\ pc' \in {"open", "failed"} \union Checking \union Later
       /\ pc' \in {"open"} \union Checking => index' \in 1..3
       /\ pc' \in Copying => index' \in 1..5
  BY RolesAre
     DEF AssemblyTypes, Next, vars, OpenSource, HashSource, FsckSource, SourceUnchanged,
         CheckPlan, MakeFresh, Stage, Fix, Install, Reopen, HashRoot, BeginCopy, Copy,
         VerifyHeaders, HashPartitions, Compare, VerifyFresh, Meddle, Damage, Check, Goto,
         Checking, Later, Making, Copying, Verifying
<1> QED BY <1>1, <1>4, <1>5, <1>6, <1>7, <1>8, <1>9, <1>10 DEF AssemblyTypes

LEMMA VersionKept ==
  ASSUME AssemblyTypes, VersionInv, [Next]_vars PROVE VersionInv'
<1>1. /\ StaysOrGrows
      /\ \A f \in Source : file'[f] = file[f] \/ file'[f].content.marks = {}
  BY Growing
<1>2. \A f \in Located : file[f].version \in Int /\ opened[f] \in Int
  BY Numbers DEF AssemblyTypes
<1>3. ASSUME NEW f \in Located
      PROVE  opened'[f] = opened[f] \/ (opened'[f] = file[f].version /\ file' = file)
  <2>1. opened \in [Files -> Int] /\ f \in Files /\ f \notin FreshOrSwap
    BY Numbers DEF AssemblyTypes
  <2>2. CASE OpenSource
    BY <2>1, <2>2 DEF OpenSource, Open
  <2>3. CASE Reopen
    BY <2>1, <2>3 DEF Reopen, Open
  <2>4. CASE BeginCopy
    BY <2>1, <2>4 DEF BeginCopy
  <2> QED BY <2>1, <2>2, <2>3, <2>4
          DEF Next, vars, HashSource, FsckSource, SourceUnchanged, CheckPlan, MakeFresh, Stage,
              Fix, Install, HashRoot, Copy, VerifyHeaders, HashPartitions, Compare,
              VerifyFresh, Meddle, Damage
<1>4. ASSUME NEW f \in Located PROVE opened'[f] <= file'[f].version
  BY <1>1, <1>2, <1>3 DEF VersionInv, StaysOrGrows
<1>5. ASSUME NEW f \in Source PROVE file'[f].content.marks = {}
  BY <1>1 DEF VersionInv
<1> QED BY <1>4, <1>5 DEF VersionInv

(***************************************************************************)
(* A file whose version is the one that was opened was not written to by   *)
(* this step either.                                                       *)
(***************************************************************************)
LEMMA StillUnchanged ==
  ASSUME AssemblyTypes, VersionInv, [Next]_vars, NEW f \in Located,
         opened'[f] = opened[f], Unchanged(f)'
  PROVE  Unchanged(f) /\ file'[f] = file[f]
<1>1. f \in Files /\ file[f].version \in Int /\ opened[f] \in Int /\ opened[f] <= file[f].version
  BY Numbers DEF AssemblyTypes, VersionInv
<1>2. file'[f] = file[f] \/ file'[f].version = file[f].version + 1
  BY Growing DEF StaysOrGrows
<1>3. opened[f] = file'[f].version
  BY DEF Unchanged
<1> QED BY <1>1, <1>2, <1>3 DEF Unchanged

(***************************************************************************)
(* After the sources were validated nothing opens or hashes them again.    *)
(***************************************************************************)
Validating == OpenSource \/ HashSource \/ FsckSource \/ SourceUnchanged

LEMMA Building ==
  ASSUME AssemblyTypes, [Next]_vars, ~Validating
  PROVE  /\ accepted' = accepted
         /\ \A f \in Source : hash'[f] = hash[f] /\ opened'[f] = opened[f]
         /\ \/ pc \in Later /\ pc' \in Later \union {"failed"}
            \/ pc' = pc /\ index' = index
<1>1. /\ Source \subseteq Files /\ Source \subseteq Located /\ "stage" \notin Source
      /\ Source \intersect FreshOrSwap = {}
  BY Numbers DEF Located, Source
<1>2. opened \in [Files -> Int] /\ hash \in [Located -> Marked]
  BY DEF AssemblyTypes
<1>3. accepted' = accepted
  BY DEF Validating, Next, vars, history, CheckPlan, MakeFresh, Stage, Fix, Install, Reopen,
         HashRoot, BeginCopy, Copy, VerifyHeaders, HashPartitions, Compare, VerifyFresh,
         Meddle, Damage
<1>4. ASSUME NEW f \in Source PROVE hash'[f] = hash[f]
  <2>1. CASE HashRoot
    BY <1>1, <1>2, <2>1 DEF HashRoot
  <2> QED BY <2>1 DEF Validating, Next, vars, CheckPlan, MakeFresh, Stage, Fix, Install, Reopen,
         BeginCopy, Copy, VerifyHeaders, HashPartitions, Compare, VerifyFresh, Meddle, Damage
<1>5. ASSUME NEW f \in Source PROVE opened'[f] = opened[f]
  <2>1. CASE Reopen
    BY <1>1, <1>2, <2>1 DEF Reopen, Open
  <2>2. CASE BeginCopy
    BY <1>1, <1>2, <2>2 DEF BeginCopy
  <2> QED BY <2>1, <2>2 DEF Validating, Next, vars, CheckPlan, MakeFresh, Stage, Fix, Install,
         HashRoot, Copy, VerifyHeaders, HashPartitions, Compare, VerifyFresh, Meddle, Damage
<1>6. \/ pc \in Later /\ pc' \in Later \union {"failed"}
      \/ pc' = pc /\ index' = index
  BY DEF Validating, Next, vars, CheckPlan, MakeFresh, Stage, Fix, Install, Reopen,
         HashRoot, BeginCopy, Copy, VerifyHeaders, HashPartitions, Compare, VerifyFresh,
         Meddle, Damage, Check, Goto, Later, Making, Copying, Verifying
<1> QED BY <1>3, <1>4, <1>5, <1>6

(***************************************************************************)
(* SourcesInv: what was hashed, accepted and not written to since.         *)
(***************************************************************************)
LEMMA SourcesKept ==
  ASSUME AssemblyTypes, VersionInv, SourcesInv, [Next]_vars PROVE SourcesInv'
<1> DEFINE role == Roles[index]
<1>0. /\ \A k \in 1..3 : Roles[k] \in Source /\ Roles[k] \in Located /\ Roles[k] \in Files
      /\ Source \subseteq Located
  BY RolesAre, Numbers DEF Located
<1>1. /\ hash \in [Located -> Marked] /\ accepted \in [Source -> Marked]
      /\ pc \in {"open"} \union Checking => index \in 1..3
  BY DEF AssemblyTypes
<1>2. CASE OpenSource
  <2>1. pc' = "open" \/ (pc' = "hash" /\ index' = 1)
    BY <1>2 DEF OpenSource, Goto
  <2> QED BY <2>1 DEF SourcesInv, Done, Checking, Later, Making, Copying, Verifying
<1>3. CASE HashSource
  <2>1. /\ pc = "hash" /\ pc' = "fsck" /\ index' = index /\ index \in 1..3 /\ role \in Source
        /\ hash' = [hash EXCEPT ![role] = file[role].content]
        /\ UNCHANGED <<file, opened, accepted>>
    BY <1>0, <1>1, <1>3 DEF HashSource, Goto, history, Checking
  <2>2. ASSUME NEW k \in 1..3, Done(k)' PROVE IsAccepted(Roles[k])'
    <3>1. k < index /\ Roles[k] # role
      BY <2>1, <2>2, RolesAre DEF Done, Checking, Later, Making, Copying, Verifying
    <3>2. IsAccepted(Roles[k])
      BY <2>1, <3>1 DEF SourcesInv, Done, Checking
    <3> QED BY <1>0, <1>1, <2>1, <3>1, <3>2 DEF IsAccepted, Unchanged
  <2>3. hash'[role] = file[role].content
    BY <1>0, <1>1, <2>1
  <2> QED BY <2>1, <2>2, <2>3 DEF SourcesInv
<1>4. CASE FsckSource
  <2>1. /\ pc = "fsck" /\ index \in 1..3 /\ role \in Source
        /\ accepted' = [accepted EXCEPT ![role] = file[role].content]
        /\ UNCHANGED <<file, opened, hash>> /\ file[role].content \in Marked
        /\ Check(file[role].content.body \in Sound /\ file[role].content.header,
                 "unchanged", index)
    BY <1>0, <1>1, <1>4 DEF FsckSource, Checking, AssemblyTypes
  <2>2. file[role].content.header \in BOOLEAN
    BY <2>1 DEF Marked
  <2>3. CASE pc' = "failed"
    BY <2>3 DEF SourcesInv, Done, Checking, Later, Making, Copying, Verifying
  <2>4. CASE pc' = "unchanged" /\ index' = index /\ file[role].content.body \in Sound
             /\ file[role].content.header = TRUE
    <3>1. accepted'[role] = file[role].content
      BY <1>1, <2>1
    <3>2. ASSUME NEW k \in 1..3, Done(k)' PROVE IsAccepted(Roles[k])'
      <4>1. k < index /\ Roles[k] # role
        BY <2>1, <2>4, <3>2, RolesAre DEF Done, Checking, Later, Making, Copying, Verifying
      <4>2. IsAccepted(Roles[k])
        BY <2>1, <4>1 DEF SourcesInv, Done, Checking
      <4> QED BY <1>0, <1>1, <2>1, <4>1, <4>2 DEF IsAccepted, Unchanged
    <3>3. Unchanged(role)' => hash[role] = file[role].content
      BY <2>1, <2>4 DEF SourcesInv, Unchanged
    <3> QED BY <2>1, <2>4, <3>1, <3>2, <3>3 DEF SourcesInv
  <2> QED BY <2>1, <2>2, <2>3, <2>4, Zenon DEF Check, Goto
<1>5. CASE SourceUnchanged
  <2>1. /\ pc = "unchanged" /\ index \in 1..3 /\ role \in Source
        /\ UNCHANGED <<file, opened, hash, accepted>>
        /\ \/ pc' = "failed"
           \/ /\ Unchanged(role)
              /\ \/ index < 3 /\ pc' = "hash" /\ index' = index + 1
                 \/ index = 3 /\ pc' = "plan" /\ index' = 1
    BY <1>0, <1>1, <1>5, RolesAre DEF SourceUnchanged, Check, Goto, history, Checking
  <2>2. ASSUME NEW k \in 1..3, Done(k)' PROVE IsAccepted(Roles[k])'
    <3>1. pc' # "failed" /\ k <= index
      BY <2>1, <2>2 DEF Done, Checking, Later, Making, Copying, Verifying
    <3>2. CASE k < index
      <4>1. IsAccepted(Roles[k])
        BY <2>1, <3>2 DEF SourcesInv, Done, Checking
      <4> QED BY <2>1, <4>1 DEF IsAccepted, Unchanged
    <3>3. CASE k = index
      <4>1. /\ accepted[role].body \in Sound /\ accepted[role].header = TRUE
            /\ hash[role] = file[role].content /\ accepted[role] = file[role].content
            /\ file[role].content.marks = {}
        BY <2>1, <3>1 DEF SourcesInv, VersionInv
      <4> QED BY <2>1, <3>3, <4>1 DEF IsAccepted, Unchanged
    <3> QED BY <2>1, <3>1, <3>2, <3>3
  <2> QED BY <2>1, <2>2 DEF SourcesInv
<1>6. CASE ~Validating
  <2>1. /\ accepted' = accepted
        /\ \A f \in Source : hash'[f] = hash[f] /\ opened'[f] = opened[f]
        /\ \/ pc \in Later /\ pc' \in Later \union {"failed"}
           \/ pc' = pc /\ index' = index
    BY <1>6, Building
  <2>2. \A f \in Source : Unchanged(f)' => Unchanged(f) /\ file'[f] = file[f]
    BY <1>0, <2>1, StillUnchanged
  <2>3. ASSUME NEW k \in 1..3, Done(k)' PROVE IsAccepted(Roles[k])'
    <3>1. Done(k)
      BY <2>1, <2>3 DEF Done, Checking, Later, Making, Copying, Verifying
    <3>2. IsAccepted(Roles[k])
      BY <3>1 DEF SourcesInv
    <3> QED BY <1>0, <2>1, <2>2, <3>2 DEF IsAccepted
  <2>4. pc' \in {"fsck", "unchanged"} =>
          pc' = pc /\ index' = index /\ index \in 1..3 /\ role \in Source
    BY <1>0, <1>1, <2>1 DEF Checking, Later, Making, Copying, Verifying
  <2>5. pc' = "fsck" /\ Unchanged(role)' => hash'[role] = file'[role].content
    BY <2>1, <2>2, <2>4 DEF SourcesInv
  <2>6. pc' = "unchanged" =>
          /\ accepted[role].body \in Sound /\ accepted[role].header = TRUE
          /\ Unchanged(role)' =>
               hash'[role] = file'[role].content /\ accepted[role] = file'[role].content
    BY <2>1, <2>2, <2>4 DEF SourcesInv
  <2> QED BY <2>1, <2>3, <2>4, <2>5, <2>6 DEF SourcesInv
<1> QED BY <1>2, <1>3, <1>4, <1>5, <1>6 DEF Validating

(***************************************************************************)
(* StageInv: the stage is the accepted root, then with the fix, then with  *)
(* the features, unless somebody else writes to it.                        *)
(***************************************************************************)
\* The steps at which StageInv says nothing yet, or no longer.
LEMMA BeforeStage ==
  ASSUME pc' \in {"open", "failed", "plan"} \union Checking PROVE StageInv'
BY DEF StageInv, StageCopied, Checking, Later, Making, Copying, Verifying

\* A step that leaves the stage, its hash and its partitions alone.
LEMMA StageAside ==
  ASSUME StageInv, UNCHANGED <<plan, opened, file, hash, accepted, exposed, image>>,
         pc' \in Later \ {"plan", "fix", "install", "reopen", "hashRoot"},
         pc \in Later \ {"plan"},
         pc' \in Copying => pc \in Copying /\ (StageCopied' => StageCopied),
         pc' \in Verifying => StageCopied
  PROVE  StageInv'
BY DEF StageInv, StageCopied, Unchanged, Wanted, Customized, Copying, Verifying, Later, Making

LEMMA StageKept ==
  ASSUME AssemblyTypes, VersionInv, SourcesInv, StageInv, [Next]_vars PROVE StageInv'
<1>0. /\ "stage" \in Files /\ "stage" \in Located /\ "root" \in Source /\ "stage" \notin FreshOrSwap
      /\ "root" \in Located /\ "p2" \in ImagePartitions
      /\ opened \in [Files -> Int] /\ hash \in [Located -> Marked]
      /\ image \in [ImagePartitions -> Marked] /\ accepted["root"] \in Marked
      /\ file["stage"].content \in Marked /\ file["root"].content \in Marked
      /\ file \in [Files -> [content : Marked, version : Nat]]
  BY Numbers DEF AssemblyTypes, Located, Source, ImagePartitions, Immutable, Files
<1>20. Fixed \in Marked /\ Wanted \in Marked
  <2>1. {"fix"} \in SUBSET {"fix", "features"}
        /\ {"fix"} \union (IF plan = {} THEN {} ELSE {"features"}) \in SUBSET {"fix", "features"}
    OBVIOUS
  <2> QED BY <1>0, <2>1, Contents, Zenon DEF Fixed, Wanted, Customized
<1>1. CASE Validating
  BY <1>1, RolesAre, BeforeStage
     DEF Validating, OpenSource, HashSource, FsckSource, SourceUnchanged, Check, Goto, Checking
<1>2. CASE CheckPlan
  <2>1. pc' = "failed" \/ (pc' = "make" /\ "jukebox" \notin plan')
    BY <1>2 DEF CheckPlan, Check, Goto
  <2>2. CASE pc' = "failed"
    BY <2>2, BeforeStage
  <2>3. CASE pc' = "make" /\ "jukebox" \notin plan'
    BY <2>3 DEF StageInv, StageCopied, Copying, Verifying
  <2> QED BY <2>1, <2>2, <2>3
<1>3. CASE MakeFresh
  <2>1. pc' = "stage" /\ pc = "make" /\ plan' = plan
    BY <1>3 DEF MakeFresh, Goto
  <2> QED BY <2>1 DEF StageInv, StageCopied, Copying, Verifying, Later, Making
<1>4. CASE Stage
  <2>1. /\ Write("stage", file["root"].content) /\ UNCHANGED <<plan, accepted>> /\ pc = "stage"
        /\ pc' = "failed" \/ (pc' = "fix" /\ Unchanged("root"))
    BY <1>4 DEF Stage, Check, Goto, history
  <2>2. CASE pc' = "failed"
    BY <2>2, BeforeStage
  <2>3. CASE pc' = "fix" /\ Unchanged("root")
    <3>1. file["root"].content = accepted["root"]
      <4>1. IsAccepted(Roles[2])
        BY <2>1 DEF SourcesInv, Done, Later, Making
      <4> QED BY <2>3, <4>1, RolesAre DEF IsAccepted
    <3>2. file'["stage"].content = accepted["root"]
      BY <1>0, <2>1, <3>1, Writes
    <3> QED BY <2>1, <2>3, <3>2 DEF StageInv, StageCopied, Copying, Verifying, Later, Making
  <2> QED BY <2>1, <2>2, <2>3
<1>5. CASE Fix
  <2> DEFINE fixed == [file["stage"].content EXCEPT
                         !.marks = file["stage"].content.marks \union {"fix"}]
  <2>1. /\ Write("stage", fixed) /\ UNCHANGED <<plan, accepted, exposed>> /\ pc = "fix"
        /\ pc' = "failed" \/ pc' = "install"
    BY <1>5 DEF Fix, Check, Goto, history
  <2>2. CASE pc' = "failed"
    BY <2>2, BeforeStage
  <2>3. CASE pc' = "install"
    <3>1. ASSUME ~exposed PROVE file'["stage"].content = Fixed
      <4>1. file["stage"].content = accepted["root"]
        BY <2>1, <3>1 DEF StageInv
      <4>2. accepted["root"].marks = {}
        BY <2>1, RolesAre DEF SourcesInv, Done, Later, Making, IsAccepted
      <4>3. fixed = Fixed
        BY <4>1, <4>2 DEF Fixed, Customized
      <4>4. fixed \in Marked
        BY <1>20, <4>3
      <4> QED BY <1>0, <2>1, <4>3, <4>4, Writes
    <3>2. Fixed' = Fixed
      BY <2>1 DEF Fixed, Customized
    <3> QED BY <2>1, <2>3, <3>1, <3>2 DEF StageInv, StageCopied, Copying, Verifying, Later, Making
  <2> QED BY <2>1, <2>2, <2>3
<1>6. CASE Install
  <2>1. UNCHANGED <<plan, accepted, exposed>> /\ pc = "install" /\ pc' = "reopen"
    BY <1>6 DEF Install, Goto, history
  <2>2. "jukebox" \notin plan
    BY <2>1 DEF StageInv, Later, Making
  <2>3. ASSUME ~exposed PROVE file'["stage"].content = Wanted
    <3>1. file["stage"].content = Fixed
      BY <2>1, <2>3 DEF StageInv
    <3>2. CASE plan = {}
      <4>1. file' = file
        BY <1>6, <3>2 DEF Install
      <4>2. Wanted = Fixed
        BY <3>2 DEF Wanted, Fixed
      <4> QED BY <3>1, <4>1, <4>2
    <3>3. CASE plan # {}
      <4> DEFINE c == [file["stage"].content EXCEPT !.marks =
                         (file["stage"].content.marks \union {"features"})
                         \ (IF "jukebox" \in plan THEN {"fix"} ELSE {})]
      <4>1. Write("stage", c)
        BY <1>6, <3>3 DEF Install
      <4>2. file["stage"].content.marks = {"fix"}
        BY <1>0, <3>1, Contents DEF Fixed, Customized
      <4>3. (file["stage"].content.marks \union {"features"})
              \ (IF "jukebox" \in plan THEN {"fix"} ELSE {}) = {"fix"} \union {"features"}
        BY <2>2, <4>2
      <4>4. c = [Fixed EXCEPT !.marks = {"fix"} \union {"features"}]
        BY <3>1, <4>3
      <4>5. c = Customized({"fix"} \union {"features"})
        BY <1>0, <4>4 DEF Fixed, Customized, Marked
      <4>6. c = Wanted /\ c \in Marked
        <5>1. c = Wanted
          BY <3>3, <4>5 DEF Wanted
        <5> QED BY <1>20, <5>1
      <4> HIDE DEF c
      <4> QED BY <1>0, <4>1, <4>6, Writes
    <3> QED BY <3>2, <3>3
  <2>4. Wanted' = Wanted
    BY <2>1 DEF Wanted, Customized
  <2> QED BY <2>1, <2>2, <2>3, <2>4 DEF StageInv, StageCopied, Copying, Verifying, Later, Making
<1>7. CASE Reopen
  <2>1. UNCHANGED <<plan, accepted, exposed, file>> /\ pc = "reopen" /\ pc' = "hashRoot"
    BY <1>7 DEF Reopen, Goto, history
  <2>2. Wanted' = Wanted
    BY <2>1 DEF Wanted, Customized
  <2> QED BY <2>1, <2>2 DEF StageInv, StageCopied, Copying, Verifying, Later, Making
<1>8. CASE HashRoot
  <2>1. /\ UNCHANGED <<plan, accepted, exposed, file, opened>> /\ pc = "hashRoot"
        /\ pc' = "begin" /\ index' = 1
        /\ hash' = [hash EXCEPT !["stage"] = file["stage"].content]
    BY <1>8 DEF HashRoot, Goto, history
  <2>2. Wanted' = Wanted /\ hash'["stage"] = file["stage"].content /\ ~StageCopied'
    BY <1>0, <2>1 DEF Wanted, Customized, StageCopied, Verifying
  <2> QED BY <2>1, <2>2 DEF StageInv, Copying, Verifying, Later, Making, Unchanged
<1>9. CASE BeginCopy
  <2>1. /\ UNCHANGED <<plan, accepted, exposed, file, hash, image>> /\ pc = "begin"
        /\ pc' = "copy" /\ index' = index /\ opened'["stage"] = opened["stage"]
    BY <1>0, <1>9 DEF BeginCopy, Goto, history
  <2>2. Wanted' = Wanted /\ StageCopied' = StageCopied /\ Unchanged("stage")' = Unchanged("stage")
    BY <2>1 DEF Wanted, Customized, StageCopied, Copying, Verifying, Unchanged
  <2> QED BY <2>1, <2>2 DEF StageInv, Copying, Verifying, Later, Making
<1>10. CASE Copy
  <2>1. /\ UNCHANGED <<plan, accepted, exposed, file, hash, opened>>
        /\ pc = "copy" /\ index \in 1..5
    BY <1>10 DEF Copy, history, AssemblyTypes, Copying
  <2>2. \/ pc' = "failed"
        \/ /\ \A f \in Copied(index) \ {"p3"} : Unchanged(f)
           /\ \/ index < 5 /\ pc' = "begin" /\ index' = index + 1
              \/ index = 5 /\ pc' = "headers"
    BY <1>10, <2>1 DEF Copy, Check, Goto
  <2>3. CASE pc' = "failed"
    BY <2>3, BeforeStage
  <2>4. CASE pc' # "failed"
    <3>1. image'["p2"] = IF index = 2 /\ Unchanged("stage") THEN file["stage"].content
                         ELSE IF index = 2 THEN Mixture ELSE image["p2"]
      <4>1. "stage" \in Copied(index) <=> index = 2
        BY <2>1, CopiesAre, SoundAssumption
      <4> QED BY <1>0, <1>10, <4>1, Payloads DEF Copy
    <3>2. index = 2 => Unchanged("stage")
      BY <2>2, <2>4, CopiesAre
    <3>3. Wanted' = Wanted /\ Unchanged("stage")' = Unchanged("stage")
      BY <2>1 DEF Wanted, Customized, Unchanged
    <3>4. StageCopied' => StageCopied \/ index = 2
      BY <2>1, <2>2, <2>4 DEF StageCopied, Copying, Verifying
    <3>5. StageCopied' /\ image'["p2"].header = TRUE => hash["stage"].header = TRUE
      BY <2>1, <3>1, <3>2, <3>4 DEF StageInv, StageCopied, Copying, Verifying
    <3>6. StageCopied' /\ ~exposed => hash["stage"] = Wanted
      BY <2>1, <3>2, <3>4 DEF StageInv, StageCopied, Copying, Verifying
    <3> QED BY <2>1, <2>2, <2>4, <3>3, <3>5, <3>6
            DEF StageInv, Copying, Verifying, Later, Making
  <2> QED BY <2>3, <2>4
<1>11. CASE VerifyHeaders \/ HashPartitions \/ Compare \/ VerifyFresh
  <2>1. /\ UNCHANGED <<plan, opened, file, hash, accepted, exposed, image>>
        /\ pc \in Verifying /\ pc' \in Verifying \union {"failed"}
    BY <1>11 DEF VerifyHeaders, HashPartitions, Compare, VerifyFresh, Check, Goto, history,
                  Verifying
  <2>2. CASE pc' = "failed"
    BY <2>2, BeforeStage
  <2>3. CASE pc' \in Verifying
    BY <2>1, <2>3, StageAside DEF StageCopied, Verifying, Copying, Later
  <2> QED BY <2>1, <2>2, <2>3
<1>12. CASE Meddle
  <2>1. /\ UNCHANGED <<plan, opened, hash, image, pc, index, accepted>> /\ Running
    BY <1>12 DEF Meddle
  <2>3. Unchanged("stage")' => Unchanged("stage") /\ file'["stage"] = file["stage"]
    BY <1>0, <2>1, StillUnchanged
  <2>4. exposed => exposed'
    BY <1>12, Zenon DEF Meddle
  <2>5. ~exposed' /\ pc \in {"fix", "install", "reopen"} => file'["stage"] = file["stage"]
    <3>1. PICK f \in Files, b \in Bodies, h \in BOOLEAN :
            /\ Write(f, Content(b, {}, h))
            /\ exposed' = (exposed \/ (f = "stage" /\ pc \in {"fix", "install", "reopen"}))
      BY <1>12, Zenon DEF Meddle
    <3>2. Content(b, {}, h) \in Marked
      BY Contents
    <3>3. f # "stage" => file'["stage"] = file["stage"]
      BY <1>0, <3>1, <3>2, Writes
    <3> QED BY <3>1, <3>3
  <2>6. Wanted' = Wanted /\ Fixed' = Fixed /\ StageCopied' = StageCopied
    BY <2>1 DEF Wanted, Fixed, Customized, StageCopied
  <2> QED BY <2>1, <2>3, <2>4, <2>5, <2>6 DEF StageInv
<1>13. CASE Damage
  <2>1. UNCHANGED <<plan, opened, hash, file, pc, index, accepted, exposed>>
    BY <1>13 DEF Damage, history
  <2>2. image'["p2"].header = TRUE => image["p2"].header = TRUE
    <3>1. PICK p : \/ image' = [image EXCEPT ![p].header = FALSE]
                   \/ image' = [image EXCEPT ![p].body = "mixture"]
      BY <1>13 DEF Damage
    <3>2. /\ image' = [image EXCEPT ![p].header = FALSE] =>
               image'["p2"] = IF "p2" = p THEN [image["p2"] EXCEPT !.header = FALSE]
                              ELSE image["p2"]
          /\ image' = [image EXCEPT ![p].body = "mixture"] =>
               image'["p2"] = IF "p2" = p THEN [image["p2"] EXCEPT !.body = "mixture"]
                              ELSE image["p2"]
      BY <1>0
    <3> QED BY <1>0, <3>1, <3>2, Contents
  <2>3. Wanted' = Wanted /\ Fixed' = Fixed /\ StageCopied' = StageCopied
        /\ Unchanged("stage")' = Unchanged("stage")
    BY <2>1 DEF Wanted, Fixed, Customized, StageCopied, Unchanged
  <2> QED BY <2>1, <2>2, <2>3 DEF StageInv
<1>14. CASE UNCHANGED vars
  BY <1>14 DEF vars, StageInv, StageCopied, Wanted, Fixed, Customized, Unchanged
<1> QED BY <1>1, <1>2, <1>3, <1>4, <1>5, <1>6, <1>7, <1>8, <1>9, <1>10, <1>11, <1>12, <1>13, <1>14
        DEF Next, Validating

(***************************************************************************)
(* VerifiedInv: what the last checks have seen is still there.             *)
(***************************************************************************)
LEMMA DamageIsAbroad ==
  ASSUME AssemblyTypes, Damage
  PROVE  /\ pc \in {"begin", "copy", "headers", "hashes", "compare", "fresh"}
         /\ \A p \in ImagePartitions : image'[p].header = TRUE => image[p].header = TRUE
         /\ pc \in {"compare", "fresh"} => \A p \in Immutable : image'[p] = image[p]
<1>1. image \in [ImagePartitions -> Marked] /\ Immutable \subseteq ImagePartitions
      /\ Immutable \intersect FreshOrSwap = {}
  BY Numbers DEF AssemblyTypes, ImagePartitions
<1>2. PICK p \in (CASE pc \in {"begin", "copy", "headers", "hashes"} -> ImagePartitions
                    [] pc \in {"compare", "fresh"}                  -> FreshOrSwap
                    [] OTHER                                         -> {}) :
        \/ image' = [image EXCEPT ![p].header = FALSE]
        \/ image' = [image EXCEPT ![p].body = "mixture"]
  BY DEF Damage
<1>3. pc \in {"begin", "copy", "headers", "hashes", "compare", "fresh"}
  BY <1>2
<1>4. pc \in {"compare", "fresh"} => p \in FreshOrSwap
  BY <1>2
<1>5. ASSUME NEW q \in ImagePartitions
      PROVE  \/ image'[q] = IF q = p THEN [image[q] EXCEPT !.header = FALSE] ELSE image[q]
             \/ image'[q] = IF q = p THEN [image[q] EXCEPT !.body = "mixture"] ELSE image[q]
  BY <1>1, <1>2
<1>6. ASSUME NEW q \in ImagePartitions
      PROVE  image'[q].header = TRUE => image[q].header = TRUE
  BY <1>1, <1>5, Contents
<1>7. ASSUME pc \in {"compare", "fresh"}, NEW q \in Immutable PROVE image'[q] = image[q]
  BY <1>1, <1>4, <1>5, <1>7
<1> QED BY <1>3, <1>6, <1>7

LEMMA WhatIsExpected ==
  /\ DOMAIN Expected = {"p1", "p2", "p11"}
  /\ Expected["p1"] = hash["boot"] /\ Expected["p2"] = hash["stage"]
  /\ Expected["p11"] = hash["vr"]
BY Payloads DEF Expected

LEMMA VerifiedKept ==
  ASSUME AssemblyTypes, StageInv, VerifiedInv, [Next]_vars PROVE VerifiedInv'
<1>0. /\ image \in [ImagePartitions -> Marked] /\ Immutable \subseteq ImagePartitions
      /\ "p2" \in Immutable /\ FreshOrSwap \subseteq ImagePartitions
      /\ Immutable = {"p1", "p2", "p5", "p6", "p11"}
  BY DEF AssemblyTypes, ImagePartitions, Immutable
<1>1. ASSUME pc' \notin {"hashes", "compare", "fresh", "published"} PROVE VerifiedInv'
  BY <1>1 DEF VerifiedInv
<1>2. CASE VerifyHeaders
  <2>1. /\ UNCHANGED hash /\ pc = "headers"
        /\ \/ pc' = "failed"
           \/ pc' = "hashes" /\ image["p2"].header
    BY <1>0, <1>2 DEF VerifyHeaders, Check, Goto
  <2>2. CASE pc' = "hashes" /\ image["p2"].header
    <3>1. image["p2"].header = TRUE
      BY <1>0, <2>2 DEF Marked
    <3>2. hash["stage"].header = TRUE
      BY <2>1, <3>1 DEF StageInv, StageCopied, Verifying
    <3> QED BY <2>1, <2>2, <3>2 DEF VerifiedInv
  <2> QED BY <1>1, <2>1, <2>2
<1>3. CASE HashPartitions
  <2>1. /\ UNCHANGED <<hash, image>> /\ pc = "hashes" /\ pc' = "compare"
        /\ seen' = [p \in Immutable |-> image[p]]
    BY <1>3 DEF HashPartitions, Goto
  <2> QED BY <2>1 DEF VerifiedInv
<1>4. CASE Compare
  <2>1. /\ UNCHANGED <<hash, image, seen>> /\ pc = "compare"
        /\ \/ pc' = "failed"
           \/ /\ pc' = "fresh" /\ seen["p1"] = seen["p5"] /\ seen["p2"] = seen["p6"]
              /\ \A p \in DOMAIN Expected : seen[p] = Expected[p]
    BY <1>4 DEF Compare, Check, Goto
  <2>2. CASE /\ pc' = "fresh" /\ seen["p1"] = seen["p5"] /\ seen["p2"] = seen["p6"]
             /\ \A p \in DOMAIN Expected : seen[p] = Expected[p]
    <3>1. \A p \in Immutable : seen[p] = image[p]
      BY <2>1 DEF VerifiedInv
    <3>2. /\ seen["p1"] = hash["boot"] /\ seen["p2"] = hash["stage"] /\ seen["p11"] = hash["vr"]
      BY <2>2, WhatIsExpected
    <3>3. /\ image["p1"] = hash["boot"] /\ image["p5"] = hash["boot"]
          /\ image["p2"] = hash["stage"] /\ image["p6"] = hash["stage"] /\ image["p11"] = hash["vr"]
      BY <1>0, <2>2, <3>1, <3>2
    <3> QED BY <2>1, <2>2, <3>3 DEF VerifiedInv
  <2> QED BY <1>1, <2>1, <2>2
<1>5. CASE VerifyFresh
  <2>1. /\ UNCHANGED <<hash, image, seen>> /\ pc = "fresh"
        /\ \/ pc' = "failed"
           \/ pc' = "published" /\ \A p \in FreshOrSwap : image[p].header
    BY <1>5 DEF VerifyFresh, Check, Goto
  <2>2. CASE pc' = "published" /\ \A p \in FreshOrSwap : image[p].header
    <3>1. \A p \in FreshOrSwap : image[p].header = TRUE
      BY <1>0, <2>2 DEF Marked
    <3> QED BY <2>1, <2>2, <3>1 DEF VerifiedInv
  <2> QED BY <1>1, <2>1, <2>2
<1>6. CASE Damage
  <2>1. /\ UNCHANGED <<hash, seen, pc>>
        /\ pc \in {"begin", "copy", "headers", "hashes", "compare", "fresh"}
        /\ pc \in {"compare", "fresh"} => \A p \in Immutable : image'[p] = image[p]
    BY <1>6, DamageIsAbroad DEF Damage
  <2>2. pc = "compare" => [p \in Immutable |-> image'[p]] = [p \in Immutable |-> image[p]]
    BY <2>1
  <2> QED BY <1>0, <2>1, <2>2 DEF VerifiedInv
<1>7. CASE Meddle \/ UNCHANGED vars
  BY <1>7 DEF Meddle, vars, VerifiedInv
<1>8. CASE \/ OpenSource \/ HashSource \/ FsckSource \/ SourceUnchanged \/ CheckPlan \/ MakeFresh
           \/ Stage \/ Fix \/ Install \/ Reopen \/ HashRoot \/ BeginCopy \/ Copy
  BY <1>1, <1>8
     DEF OpenSource, HashSource, FsckSource, SourceUnchanged, CheckPlan, MakeFresh, Stage, Fix,
         Install, Reopen, HashRoot, BeginCopy, Copy, Check, Goto
<1> QED BY <1>2, <1>3, <1>4, <1>5, <1>6, <1>7, <1>8 DEF Next

(***************************************************************************)
(* HonestInv: as long as nobody else is at work every check succeeds.      *)
(***************************************************************************)
LEMMA HonestBefore ==
  ASSUME AssemblyTypes, [Next]_vars, Honest'
  PROVE  Honest /\ ~Meddle /\ ~Damage /\ (\A f \in Source : file'[f] = file[f])
<1>1. meddling \in Nat /\ meddling' = 0 /\ "jukebox" \notin plan' /\ plan' = plan
      /\ \A f \in Source : file'[f].content.body \in Sound
  BY DEF AssemblyTypes, Honest, Next, vars, OpenSource, HashSource, FsckSource, SourceUnchanged,
         CheckPlan, MakeFresh, Stage, Fix, Install, Reopen, HashRoot, BeginCopy, Copy,
         VerifyHeaders, HashPartitions, Compare, VerifyFresh, Meddle, Damage
<1>2. meddling' # meddling + 1
  BY <1>1
<1>5. UNCHANGED meddling
  BY <1>2
     DEF Next, vars, OpenSource, HashSource, FsckSource, SourceUnchanged,
         CheckPlan, MakeFresh, Stage, Fix, Install, Reopen, HashRoot, BeginCopy, Copy,
         VerifyHeaders, HashPartitions, Compare, VerifyFresh, Meddle, Damage
<1>3. \A f \in Source : file'[f] = file[f]
  BY <1>2, Growing
<1>4. ~Meddle /\ ~Damage
  BY <1>2 DEF Meddle, Damage
<1> QED BY <1>1, <1>3, <1>4, <1>5 DEF Honest

LEMMA HonestKept ==
  ASSUME AssemblyTypes, VersionInv, SourcesInv, StageInv, VerifiedInv, HonestInv, [Next]_vars
  PROVE  HonestInv'
<1> SUFFICES ASSUME Honest' PROVE HonestInv'
  BY DEF HonestInv
<1> DEFINE role == Roles[index]
<1>0. /\ \A f \in Source : file'[f] = file[f]
      /\ \A f \in Source : f \in Files /\ f \in Located /\ f \notin FreshOrSwap
      /\ \A k \in 1..3 : Roles[k] \in Source
      /\ "stage" \in Files /\ "stage" \in Located /\ "stage" \notin FreshOrSwap
      /\ opened \in [Files -> Int] /\ hash \in [Located -> Marked]
      /\ image \in [ImagePartitions -> Marked]
      /\ file \in [Files -> [content : Marked, version : Nat]]
      /\ pc \in {"open"} \union Checking => index \in 1..3
      /\ pc \in Copying => index \in 1..5
      /\ FreshOrSwap \subseteq Files
  BY HonestBefore, Numbers, RolesAre DEF AssemblyTypes, Located
<1>1. /\ pc # "failed" /\ ~Meddle /\ ~Damage
      /\ \A f \in Source : file[f].content.header = TRUE /\ file[f].content.body \in Sound
      /\ \A k \in 1..3 : pc # "open" \/ k < index => Unchanged(Roles[k])
      /\ "jukebox" \notin plan
  BY HonestBefore DEF HonestInv, Honest
\* How the last conjuncts stay as they are.
<1>2. ASSUME pc' # "failed", \A k \in 1..3 : pc' # "open" \/ k < index' => Unchanged(Roles[k])',
             pc' \notin Making \ {"make"}, pc' \notin Copying, pc' \notin Verifying
      PROVE  HonestInv'
  BY <1>0, <1>1, <1>2 DEF HonestInv, CopiedUpTo, Making, Copying, Verifying
<1>3. CASE OpenSource
  <2>1. /\ opened' = [opened EXCEPT ![role] = file[role].version] /\ pc = "open" /\ index \in 1..3
        /\ file' = file /\ role \in Source
        /\ \/ pc' = "open" /\ index' = index + 1
           \/ pc' = "hash" /\ index = 3
    BY <1>0, <1>3, RolesAre DEF OpenSource, Open, Goto
  <2>2. ASSUME NEW k \in 1..3, k <= index PROVE Unchanged(Roles[k])'
    BY <1>0, <1>1, <2>1, <2>2 DEF Unchanged
  <2>3. \A k \in 1..3 : pc' # "open" \/ k < index' => Unchanged(Roles[k])'
    BY <2>1, <2>2
  <2> QED BY <1>2, <2>1, <2>3 DEF Making, Copying, Verifying
<1>4. CASE HashSource \/ FsckSource \/ SourceUnchanged \/ CheckPlan
  <2>1. UNCHANGED <<file, opened>> /\ pc # "open" /\ pc' # "open"
        /\ pc' \notin Making \ {"make"} /\ pc' \notin Copying /\ pc' \notin Verifying
    BY <1>4 DEF HashSource, FsckSource, SourceUnchanged, CheckPlan, Check, Goto, Making,
                Copying, Verifying
  <2>2. pc' # "failed"
    <3>1. CASE HashSource
      BY <3>1 DEF HashSource, Goto
    <3>2. CASE FsckSource
      <4>1. file[role].content.body \in Sound /\ file[role].content.header = TRUE
        BY <1>0, <1>1, <3>2 DEF FsckSource, Checking
      <4> QED BY <3>2, <4>1 DEF FsckSource, Check, Goto
    <3>3. CASE SourceUnchanged
      <4>1. Unchanged(role)
        BY <1>0, <1>1, <3>3 DEF SourceUnchanged, Checking
      <4>2. (IF index < Len(Roles) THEN "hash" ELSE "plan") # "failed"
        OBVIOUS
      <4> QED BY <3>3, <4>1, <4>2 DEF SourceUnchanged, Check, Goto
    <3>4. CASE CheckPlan
      BY <1>1, <3>4 DEF CheckPlan, Check, Goto
    <3> QED BY <1>4, <3>1, <3>2, <3>3, <3>4
  <2>3. \A k \in 1..3 : Unchanged(Roles[k])'
    BY <1>1, <2>1 DEF Unchanged
  <2> QED BY <1>2, <2>1, <2>2, <2>3
<1>5. ASSUME \A f \in Source : opened'[f] = opened[f], pc # "open"
      PROVE  \A k \in 1..3 : Unchanged(Roles[k])'
  BY <1>0, <1>1, <1>5 DEF Unchanged
<1>6. CASE MakeFresh
  <2>1. /\ file' = [f \in Files |-> IF f \in FreshOrSwap THEN [content |-> Made, version |-> 0]
                                    ELSE file[f]]
        /\ pc = "make" /\ pc' = "stage" /\ opened' = opened
    BY <1>6 DEF MakeFresh, Goto
  <2>2. \A f \in FreshOrSwap : file'[f].content = Made
    BY <1>0, <2>1
  <2>3. CopiedUpTo' = 0
    BY <2>1 DEF CopiedUpTo, Copying, Verifying
  <2> QED BY <1>0, <1>1, <1>5, <2>1, <2>2, <2>3 DEF HonestInv, Making, Copying
\* The steps until the copies: a sound stage, and the fresh files left alone.
<1>7. ASSUME pc \in Making \ {"make"}, pc' \in (Making \ {"make", "stage"}) \union {"begin"},
             pc' = "begin" => index' = 1,
             \A f \in Source : opened'[f] = opened[f],
             \A f \in FreshOrSwap : file'[f] = file[f],
             file'["stage"].content.body \in Sound, file'["stage"].content.header = TRUE,
             pc' \in {"hashRoot", "begin"} => Unchanged("stage")'
      PROVE  HonestInv'
  <2>1. \A f \in FreshOrSwap : file'[f].content = Made
    BY <1>7, HonestBefore DEF HonestInv
  <2>2. CopiedUpTo' = 0 /\ pc' # "failed" /\ pc' # "copy"
    BY <1>7 DEF CopiedUpTo, Copying, Verifying, Making
  <2>3. \A k \in 1..3 : Unchanged(Roles[k])'
    BY <1>5, <1>7 DEF Making
  <2> QED BY <1>0, <1>1, <1>7, <2>1, <2>2, <2>3 DEF HonestInv, Making, Copying
<1>8. CASE Stage
  <2>1. Unchanged("root")
    <3>1. Unchanged(Roles[2])
      BY <1>1, <1>8 DEF Stage
    <3> QED BY <3>1, RolesAre
  <2>2. /\ pc = "stage" /\ pc' = "fix" /\ opened' = opened /\ Write("stage", file["root"].content)
    BY <1>8, <2>1 DEF Stage, Check, Goto
  <2>3. /\ file'["stage"].content = file["root"].content
        /\ \A f \in FreshOrSwap : file'[f] = file[f]
    <3>1. "root" \in Source
      BY DEF Source
    <3>2. file["root"].content \in Marked
      BY <1>0, <3>1
    <3> QED BY <1>0, <2>2, <3>2, Writes
  <2>4. "root" \in Source
    BY DEF Source
  <2> QED BY <1>1, <1>7, <2>2, <2>3, <2>4 DEF Making
<1>9. ASSUME pc \in (Making \ {"make", "stage"}) \union Copying
      PROVE  /\ file["stage"].content.body \in Sound /\ file["stage"].content.header = TRUE
             /\ pc \in {"hashRoot"} \union Copying => Unchanged("stage")
             /\ \A f \in FreshOrSwap : file[f].content = Made
  BY <1>9, HonestBefore DEF HonestInv, Making
<1>10. CASE Fix
  <2> DEFINE fixed == [file["stage"].content EXCEPT
                         !.marks = file["stage"].content.marks \union {"fix"}]
  <2>1. file["stage"].content.body \in Sound /\ file["stage"].content.header = TRUE
        /\ file["stage"].content \in Marked /\ Unchanged("root")
    <3>1. Unchanged(Roles[2]) /\ pc \in Making \ {"make", "stage"}
      BY <1>1, <1>10 DEF Fix, Making
    <3> QED BY <1>0, <1>9, <3>1, RolesAre
  <2>2. pc = "fix" /\ pc' = "install" /\ opened' = opened /\ Write("stage", fixed)
    BY <1>10, <2>1 DEF Fix, Check, Goto
  <2>3. fixed \in Marked /\ fixed.body \in Sound /\ fixed.header = TRUE
    <3> DEFINE c == file["stage"].content
               marks == c.marks \union {"fix"}
    <3>1. marks \in SUBSET {"fix", "features"}
      BY <2>1 DEF Marked
    <3>2. c \in Marked /\ c.body \in Sound /\ c.header = TRUE
      BY <2>1
    <3>3. fixed = [c EXCEPT !.marks = marks]
      OBVIOUS
    <3> HIDE DEF fixed, c, marks
    <3> QED BY <3>1, <3>2, <3>3, Contents
  <2> HIDE DEF fixed
  <2>4. file'["stage"].content = fixed /\ \A f \in FreshOrSwap : file'[f] = file[f]
    BY <1>0, <2>2, <2>3, Writes
  <2> QED BY <1>7, <2>2, <2>3, <2>4 DEF Making
<1>11. CASE Install
  <2>1. file["stage"].content.body \in Sound /\ file["stage"].content.header = TRUE
        /\ file["stage"].content \in Marked /\ pc = "install" /\ pc' = "reopen" /\ opened' = opened
    BY <1>0, <1>9, <1>11 DEF Install, Goto, Making
  <2>2. CASE plan = {}
    <3>1. file' = file
      BY <1>11, <2>2 DEF Install
    <3> QED BY <1>7, <2>1, <3>1 DEF Making
  <2>3. CASE plan # {}
    <3> DEFINE marks == (file["stage"].content.marks \union {"features"})
                        \ (IF "jukebox" \in plan THEN {"fix"} ELSE {})
               c == [file["stage"].content EXCEPT !.marks = marks]
    <3>1. Write("stage", c)
      BY <1>11, <2>3 DEF Install
    <3>2. marks \in SUBSET {"fix", "features"}
      BY <2>1 DEF Marked
    <3> HIDE DEF marks
    <3>3. c \in Marked /\ c.body \in Sound /\ c.header = TRUE
      BY <2>1, <3>2, Contents
    <3> HIDE DEF c
    <3>4. file'["stage"].content = c /\ \A f \in FreshOrSwap : file'[f] = file[f]
      BY <1>0, <3>1, <3>3, Writes
    <3> QED BY <1>7, <2>1, <3>3, <3>4 DEF Making
  <2> QED BY <2>2, <2>3
<1>12. CASE Reopen
  <2>1. /\ pc = "reopen" /\ pc' = "hashRoot" /\ file' = file
        /\ opened' = [opened EXCEPT !["stage"] = file["stage"].version]
    BY <1>12 DEF Reopen, Goto, Open
  <2>2. Unchanged("stage")' /\ \A f \in Source : opened'[f] = opened[f]
    BY <1>0, <2>1 DEF Unchanged, Source
  <2> QED BY <1>7, <1>9, <2>1, <2>2 DEF Making
<1>13. CASE HashRoot
  <2>1. pc = "hashRoot" /\ pc' = "begin" /\ index' = 1 /\ file' = file /\ opened' = opened
    BY <1>13 DEF HashRoot, Goto
  <2>2. Unchanged("stage")'
    BY <1>9, <2>1 DEF Unchanged, Making
  <2> QED BY <1>7, <1>9, <2>1, <2>2 DEF Making
\* The parts of the image that have been copied so far.
<1>14. \A k \in 1 .. CopiedUpTo :
         /\ k = 1 => image["p1"] = hash["boot"] /\ image["p5"] = hash["boot"]
         /\ k = 2 => /\ image["p2"] = hash["stage"] /\ image["p6"] = hash["stage"]
                     /\ hash["stage"].header = TRUE
         /\ k = 3 => image["p11"] = hash["vr"]
         /\ k = 4 => image["p3"] = Made
         /\ k = 5 => \A p \in Fresh : image[p] = Made
  BY HonestBefore DEF HonestInv
<1>15. CASE BeginCopy
  <2>1. /\ pc = "begin" /\ pc' = "copy" /\ index' = index /\ index \in 1..5
        /\ UNCHANGED <<file, image, hash>>
        /\ opened' = [f \in Files |->
                        IF f \in Copied(index) \intersect FreshOrSwap THEN file[f].version
                        ELSE opened[f]]
    BY <1>0, <1>15 DEF BeginCopy, Goto, Copying
  <2>2. \A k \in 1..3 : Unchanged(Roles[k])'
    BY <1>0, <1>5, <2>1
  <2>3. Unchanged("stage")'
    BY <1>0, <1>9, <2>1 DEF Unchanged, Copying
  <2>4. \A f \in Copied(index) \intersect FreshOrSwap : Unchanged(f)'
    BY <1>0, <2>1 DEF Unchanged
  <2>5. \A f \in Copied(index) : Unchanged(f)'
    <3>1. Unchanged("boot")' /\ Unchanged("vr")'
      BY <2>2, RolesAre
    <3>2. index = 1 \/ index = 2 \/ index = 3 \/ index = 4 \/ index = 5
      BY <2>1
    <3> QED BY <2>3, <2>4, <3>1, <3>2, CopiesAre, Numbers
  <2>6. CopiedUpTo' = CopiedUpTo
    BY <2>1 DEF CopiedUpTo, Copying, Verifying
  <2>7. /\ file["stage"].content.body \in Sound /\ file["stage"].content.header = TRUE
        /\ \A f \in FreshOrSwap : file[f].content = Made
    BY <1>9, <2>1 DEF Copying
  <2>8. \A k \in 1 .. CopiedUpTo :
          /\ k = 1 => image["p1"] = hash["boot"] /\ image["p5"] = hash["boot"]
          /\ k = 2 => /\ image["p2"] = hash["stage"] /\ image["p6"] = hash["stage"]
                      /\ hash["stage"].header = TRUE
          /\ k = 3 => image["p11"] = hash["vr"]
          /\ k = 4 => image["p3"] = Made
          /\ k = 5 => \A p \in Fresh : image[p] = Made
    BY HonestBefore DEF HonestInv
  <2>9. /\ pc' # "failed" /\ \A f \in Source : file'[f].content.header = TRUE
    BY <1>1, <2>1
  <2> QED BY <2>1, <2>2, <2>3, <2>5, <2>6, <2>7, <2>8, <2>9 DEF HonestInv
<1>16. CASE Copy
  <2>1. /\ pc = "copy" /\ index \in 1..5 /\ UNCHANGED <<file, opened, hash>>
        /\ image' = [p \in ImagePartitions |->
                       IF Payload(p) \notin Copied(index) THEN image[p]
                       ELSE IF Unchanged(Payload(p)) THEN file[Payload(p)].content ELSE Mixture]
    BY <1>0, <1>16 DEF Copy, Copying
  <2>2. \A f \in Copied(index) : Unchanged(f)
    BY <2>1, HonestBefore DEF HonestInv
  <2>3. \/ index < 5 /\ pc' = "begin" /\ index' = index + 1
        \/ index = 5 /\ pc' = "headers"
    BY <1>16, <2>1, <2>2 DEF Copy, Check, Goto
  <2>4. ASSUME NEW p \in ImagePartitions
        PROVE  image'[p] = IF Payload(p) \in Copied(index) THEN file[Payload(p)].content
                           ELSE image[p]
    BY <2>1, <2>2
  <2>5. CopiedUpTo' = index /\ CopiedUpTo = index - 1
    BY <2>1, <2>3 DEF CopiedUpTo, Copying, Verifying
  <2>6. /\ file["boot"].content = hash["boot"] /\ file["vr"].content = hash["vr"]
        /\ file["stage"].content = hash["stage"] /\ file["stage"].content.header = TRUE
        /\ file["stage"].content.body \in Sound /\ Unchanged("stage")
        /\ \A f \in FreshOrSwap : file[f].content = Made
    <3>1. IsAccepted(Roles[1]) /\ IsAccepted(Roles[3])
      BY <2>1 DEF SourcesInv, Done, Later, Copying
    <3>2. Unchanged(Roles[1]) /\ Unchanged(Roles[3])
      BY <1>1, <2>1
    <3>3. /\ file["stage"].content.body \in Sound /\ file["stage"].content.header = TRUE
          /\ Unchanged("stage") /\ \A f \in FreshOrSwap : file[f].content = Made
      BY <1>9, <2>1 DEF Copying
    <3>4. file["stage"].content = hash["stage"]
      BY <2>1, <3>3 DEF StageInv, Copying
    <3> QED BY <3>1, <3>2, <3>3, <3>4, RolesAre DEF IsAccepted
  <2>7. /\ {"p1", "p2", "p5", "p6", "p11", "p3"} \subseteq ImagePartitions
        /\ Fresh \subseteq ImagePartitions
    BY Numbers DEF ImagePartitions, Immutable
  <2>8. /\ "boot" \in Copied(index) <=> index = 1
        /\ "stage" \in Copied(index) <=> index = 2
        /\ "vr" \in Copied(index) <=> index = 3
        /\ "p3" \in Copied(index) <=> index = 4
        /\ \A p \in Fresh : p \in Copied(index) <=> index = 5
    <3>1. index = 1 \/ index = 2 \/ index = 3 \/ index = 4 \/ index = 5
      BY <2>1
    <3> QED BY <3>1, CopiesAre, SoundAssumption
  <2>16. /\ index = 1 \/ (image["p1"] = hash["boot"] /\ image["p5"] = hash["boot"])
         /\ index >= 3 => image["p2"] = hash["stage"] /\ image["p6"] = hash["stage"]
         /\ index >= 4 => image["p11"] = hash["vr"]
    <3> HIDE DEF CopiedUpTo
    <3>1. ASSUME NEW k \in 1..4, k < index PROVE k \in 1 .. CopiedUpTo
      BY <2>1, <2>5, <3>1
    <3>2. index = 1 \/ (image["p1"] = hash["boot"] /\ image["p5"] = hash["boot"])
      BY <1>14, <2>1, <3>1
    <3>3. index >= 3 => image["p2"] = hash["stage"] /\ image["p6"] = hash["stage"]
      BY <1>14, <2>1, <3>1
    <3>4. index >= 4 => image["p11"] = hash["vr"]
      BY <1>14, <2>1, <3>1
    <3> QED BY <3>2, <3>3, <3>4
  <2>9. /\ index >= 1 => image'["p1"] = hash["boot"] /\ image'["p5"] = hash["boot"]
        /\ index >= 2 => /\ image'["p2"] = hash["stage"] /\ image'["p6"] = hash["stage"]
                         /\ hash["stage"].header = TRUE
        /\ index >= 3 => image'["p11"] = hash["vr"]
    <3>1. image'["p1"] = hash["boot"] /\ image'["p5"] = hash["boot"]
      BY <2>4, <2>6, <2>7, <2>8, <2>16, Payloads
    <3>2. index >= 2 => image'["p2"] = hash["stage"] /\ image'["p6"] = hash["stage"]
      BY <2>1, <2>4, <2>6, <2>7, <2>8, <2>16, Payloads
    <3>3. index >= 3 => image'["p11"] = hash["vr"]
      BY <2>1, <2>4, <2>6, <2>7, <2>8, <2>16, Payloads
    <3>4. hash["stage"].header = TRUE
      BY <2>6
    <3> QED BY <3>1, <3>2, <3>3, <3>4
  <2>10. index >= 4 => image'["p3"] = Made
    <3>1. Payload("p3") = "p3" /\ file["p3"].content = Made
      BY <2>6, Payloads, Numbers
    <3>2. CASE index = 4
      BY <2>4, <2>7, <2>8, <3>1, <3>2
    <3>3. CASE index = 5
      <4>1. CopiedUpTo = 4
        BY <2>5, <3>3
      <4>2. image["p3"] = Made
        BY <1>14, <4>1
      <4> QED BY <2>4, <2>7, <2>8, <3>1, <3>3, <4>2
    <3> QED BY <2>1, <3>2, <3>3
  <2>11. index >= 5 => \A p \in Fresh : image'[p] = Made
    <3>1. \A p \in Fresh : Payload(p) = p /\ file[p].content = Made
      BY <2>6, Payloads, Numbers
    <3> QED BY <2>1, <2>4, <2>7, <2>8, <3>1
  <2>12. \A k \in 1..3 : Unchanged(Roles[k])'
    BY <1>5, <2>1
  <2>13. pc' \in Copying => Unchanged("stage")'
    BY <2>1, <2>6 DEF Unchanged
  <2>14. \A k \in 1 .. CopiedUpTo' :
          /\ k = 1 => image'["p1"] = hash'["boot"] /\ image'["p5"] = hash'["boot"]
          /\ k = 2 => /\ image'["p2"] = hash'["stage"] /\ image'["p6"] = hash'["stage"]
                      /\ hash'["stage"].header = TRUE
          /\ k = 3 => image'["p11"] = hash'["vr"]
          /\ k = 4 => image'["p3"] = Made
          /\ k = 5 => \A p \in Fresh : image'[p] = Made
    BY <2>1, <2>5, <2>9, <2>10, <2>11
  <2>15. /\ pc' # "failed" /\ pc' # "copy" /\ pc' \notin {"hashRoot"}
         /\ \A f \in Source : file'[f].content.header = TRUE
    BY <1>1, <2>1, <2>3
  <2> QED BY <2>1, <2>6, <2>12, <2>13, <2>14, <2>15 DEF HonestInv
\* The checks after the copies have nothing to object to.
<1>17. CASE VerifyHeaders \/ HashPartitions \/ Compare \/ VerifyFresh
  <2>1. /\ pc \in Verifying /\ UNCHANGED <<file, opened, hash, image>>
        /\ pc' \in Verifying \union {"failed"}
    BY <1>17 DEF VerifyHeaders, HashPartitions, Compare, VerifyFresh, Check, Goto, Verifying
  <2>2. CopiedUpTo = 5
    BY <2>1 DEF CopiedUpTo, Copying, Verifying
  <2>3. /\ image["p1"] = hash["boot"] /\ image["p5"] = hash["boot"]
        /\ image["p2"] = hash["stage"] /\ image["p6"] = hash["stage"]
        /\ hash["stage"].header = TRUE /\ image["p11"] = hash["vr"]
        /\ \A p \in FreshOrSwap : image[p] = Made
    <3> HIDE DEF CopiedUpTo
    <3>1. \A k \in 1..5 :
            /\ k = 1 => image["p1"] = hash["boot"] /\ image["p5"] = hash["boot"]
            /\ k = 2 => /\ image["p2"] = hash["stage"] /\ image["p6"] = hash["stage"]
                        /\ hash["stage"].header = TRUE
            /\ k = 3 => image["p11"] = hash["vr"]
            /\ k = 4 => image["p3"] = Made
            /\ k = 5 => \A p \in Fresh : image[p] = Made
      BY <1>14, <2>2
    <3>2. image["p1"] = hash["boot"] /\ image["p5"] = hash["boot"]
      BY <3>1, 1 \in 1..5
    <3>3. /\ image["p2"] = hash["stage"] /\ image["p6"] = hash["stage"]
          /\ hash["stage"].header = TRUE
      BY <3>1, 2 \in 1..5
    <3>4. image["p11"] = hash["vr"]
      BY <3>1, 3 \in 1..5
    <3>5. image["p3"] = Made
      BY <3>1, 4 \in 1..5
    <3>6. \A p \in Fresh : image[p] = Made
      BY <3>1, 5 \in 1..5
    <3>7. \A p \in FreshOrSwap : image[p] = Made
      BY <3>5, <3>6, Numbers
    <3> QED BY <3>2, <3>3, <3>4, <3>7
  <2>4. pc' # "failed"
    <3>1. CASE VerifyHeaders
      <4>1. hash["boot"].header = TRUE /\ hash["vr"].header = TRUE
        BY <2>1, RolesAre DEF SourcesInv, Done, Later, IsAccepted
      <4>2. \A p \in Immutable : image[p].header
        BY <2>3, <4>1 DEF Immutable
      <4> QED BY <3>1, <4>2 DEF VerifyHeaders, Check, Goto
    <3>2. CASE HashPartitions
      BY <3>2 DEF HashPartitions, Goto
    <3>3. CASE Compare
      <4>1. \A p \in Immutable : seen[p] = image[p]
        BY <3>3 DEF Compare, VerifiedInv
      <4>2. /\ seen["p1"] = hash["boot"] /\ seen["p5"] = hash["boot"]
            /\ seen["p2"] = hash["stage"] /\ seen["p6"] = hash["stage"] /\ seen["p11"] = hash["vr"]
        BY <2>3, <4>1 DEF Immutable
      <4>3. \A p \in DOMAIN Expected : seen[p] = Expected[p]
        BY <4>2, WhatIsExpected
      <4> QED BY <3>3, <4>2, <4>3 DEF Compare, Check, Goto
    <3>4. CASE VerifyFresh
      BY <2>3, <3>4, Contents DEF VerifyFresh, Check, Goto
    <3> QED BY <1>17, <3>1, <3>2, <3>3, <3>4
  <2>5. \A k \in 1..3 : Unchanged(Roles[k])'
    BY <1>5, <2>1 DEF Verifying
  <2>6. /\ CopiedUpTo' = 5 /\ pc' \notin Making /\ pc' \notin Copying
        /\ pc' # "copy" /\ pc' # "hashRoot"
    BY <2>1, <2>4 DEF CopiedUpTo, Copying, Verifying, Making
  <2>7. /\ image'["p1"] = hash'["boot"] /\ image'["p5"] = hash'["boot"]
        /\ image'["p2"] = hash'["stage"] /\ image'["p6"] = hash'["stage"]
        /\ hash'["stage"].header = TRUE /\ image'["p11"] = hash'["vr"]
        /\ image'["p3"] = Made /\ \A p \in Fresh : image'[p] = Made
    BY <2>1, <2>3, Numbers
  <2>8. \A f \in Source : file'[f].content.header = TRUE
    BY <1>1, <2>1
  <2> QED BY <2>4, <2>5, <2>6, <2>7, <2>8 DEF HonestInv
<1>18. CASE UNCHANGED vars
  <2>1. HonestInv
    OBVIOUS
  <2> QED BY <1>18, <2>1 DEF vars, HonestInv, Honest, CopiedUpTo, Unchanged
<1> QED BY <1>1, <1>3, <1>4, <1>6, <1>8, <1>10, <1>11, <1>12, <1>13, <1>15, <1>16, <1>17, <1>18
        DEF Next
-----------------------------------------------------------------------------
(***************************************************************************)
(* The invariant holds, and with it what the image is promised to hold.    *)
(***************************************************************************)
LEMMA Assembled == Spec => []AssemblyInv
<1>1. AssemblyInv /\ [Next]_vars => AssemblyInv'
  BY TypesKept, VersionKept, SourcesKept, StageKept, VerifiedKept, HonestKept DEF AssemblyInv
<1> QED BY <1>1, InitAssembly, PTL DEF Spec

LEMMA InvPublishes ==
  AssemblyInv => AssemblyIsAccepted /\ RootIsCustomized /\ HonestIsPublished
<1> SUFFICES ASSUME AssemblyInv PROVE AssemblyIsAccepted /\ RootIsCustomized /\ HonestIsPublished
  OBVIOUS
<1>1. ASSUME pc = "published"
      PROVE  /\ image["p1"] = accepted["boot"] /\ image["p5"] = accepted["boot"]
             /\ image["p11"] = accepted["vr"]
             /\ accepted["boot"].header = TRUE /\ accepted["vr"].header = TRUE
             /\ image["p2"] = hash["stage"] /\ image["p6"] = hash["stage"]
             /\ hash["stage"].header = TRUE
             /\ \A p \in FreshOrSwap : image[p].header = TRUE
  BY <1>1, RolesAre
     DEF AssemblyInv, SourcesInv, Done, Later, Verifying, IsAccepted, VerifiedInv
<1>2. PublishedIsAccepted
  BY <1>1 DEF PublishedIsAccepted
<1>3. HeadersArePublished
  BY <1>1 DEF HeadersArePublished, ImagePartitions, Immutable
<1>4. RootIsCustomized
  <2>1. pc = "published" /\ ~exposed => hash["stage"] = Wanted
    BY DEF AssemblyInv, StageInv, StageCopied, Verifying
  <2> QED BY <1>1, <2>1 DEF RootIsCustomized, Wanted, Customized
<1>5. HonestIsPublished
  BY DEF AssemblyInv, AssemblyTypes, HonestInv, Honest, HonestIsPublished
<1> QED BY <1>2, <1>3, <1>4, <1>5 DEF AssemblyIsAccepted

(***************************************************************************)
(* Whatever is written to the files and the image in between, an image     *)
(* that is published has, in both boot partitions and in the one of the    *)
(* voice recognition, what e2fsck accepted, and every partition has the    *)
(* header it should have (_assemble_prepared_image, verify_image).         *)
(***************************************************************************)
THEOREM PublishedImage == Spec => []AssemblyIsAccepted
<1>1. AssemblyInv => AssemblyIsAccepted
  BY InvPublishes
<1> QED BY <1>1, Assembled, PTL

(***************************************************************************)
(* Both root partitions of a published image hold the accepted root, with  *)
(* the storage fix and the features of the plan and nothing else, unless   *)
(* somebody wrote to the stage before it was opened for the copies.        *)
(***************************************************************************)
THEOREM CustomizedRoot == Spec => []RootIsCustomized
<1>1. AssemblyInv => RootIsCustomized
  BY InvPublishes
<1> QED BY <1>1, Assembled, PTL

(***************************************************************************)
(* With sound sources, a plan that keeps off the Jukebox file, and nobody  *)
(* else at work, no check of the assembly fails.                           *)
(***************************************************************************)
THEOREM HonestImage == Spec => []HonestIsPublished
<1>1. AssemblyInv => HonestIsPublished
  BY InvPublishes
<1> QED BY <1>1, Assembled, PTL
-----------------------------------------------------------------------------
(***************************************************************************)
(* Geometry, for all layouts.                                              *)
(***************************************************************************)

(***************************************************************************)
(* There is a smallest one among the subsets of a finite set, and among    *)
(* natural numbers: what the proofs use in place of induction.             *)
(***************************************************************************)
LEMMA MinimalSet ==
  ASSUME NEW S, IsFiniteSet(S), NEW C, C \subseteq SUBSET S, C # {}
  PROVE  \E m \in C : \A t \in C : t \subseteq m => t = m
<1>1. IsWellFoundedOn(StrictSubsetOrdering(S), FiniteSubsetsOf(S))
  BY FS_StrictSubsetOrderingWellFounded
<1>2. C \subseteq FiniteSubsetsOf(S)
  BY FS_FiniteSubsetsOfFinite
<1>3. PICK m \in C : \A t \in C : ~(<<t, m>> \in StrictSubsetOrdering(S))
  BY <1>1, <1>2, WFMin
<1>4. ASSUME NEW t \in C, t \subseteq m, t # m PROVE FALSE
  <2>1. <<t, m>> \in StrictSubsetOrdering(S)
    BY <1>4 DEF StrictSubsetOrdering
  <2> QED BY <1>3, <2>1
<1> QED BY <1>4

LEMMA LeastNatural ==
  ASSUME NEW T \in SUBSET Nat, T # {}
  PROVE  \E x \in T : \A y \in T : x <= y
<1>1. PICK bound \in T : TRUE
  OBVIOUS
<1> DEFINE Segments == {0 .. y : y \in {z \in T : z <= bound}}
<1>2. IsFiniteSet(0 .. bound)
  BY FS_Interval
<1>3. Segments \subseteq SUBSET (0 .. bound) /\ Segments # {}
  OBVIOUS
<1>4. PICK m \in Segments : \A t \in Segments : t \subseteq m => t = m
  <2> DEFINE Whole == 0 .. bound
  <2>1. IsFiniteSet(Whole) /\ Segments \subseteq SUBSET Whole /\ Segments # {}
    BY <1>2, <1>3
  <2> HIDE DEF Segments, Whole
  <2> QED BY <2>1, MinimalSet
<1>5. PICK x \in {z \in T : z <= bound} : m = 0 .. x
  BY <1>4
<1>6. ASSUME NEW y \in T PROVE x <= y
  <2>1. CASE y > bound
    <3>1. x <= bound
      BY <1>5
    <3>2. x \in Int /\ y \in Int /\ bound \in Int
      BY <1>1, <1>5, <1>6
    <3> QED BY <2>1, <3>1, <3>2
  <2>2. CASE y <= bound
    <3>1. 0 .. y \in Segments
      BY <2>2
    <3>2. 0 .. y \subseteq 0 .. x => 0 .. y = 0 .. x
      BY <1>4, <1>5, <3>1
    <3>3. CASE y < x
      <4>1. x \in Nat /\ y \in Nat
        BY <1>5
      <4>2. 0 .. y \subseteq 0 .. x /\ x \notin 0 .. y /\ x \in 0 .. x
        BY <3>3, <4>1
      <4> QED BY <3>2, <4>2
    <3> QED BY <1>5, <3>3
  <2> QED BY <1>5, <2>1, <2>2
<1> QED BY <1>5, <1>6
-----------------------------------------------------------------------------
(***************************************************************************)
(* The fields of a layout.                                                 *)
(***************************************************************************)
LEMMA LayoutFields ==
  ASSUME NEW l \in Layouts
  PROVE  /\ l.disk \in Nat /\ Count(l) \in Nat \ {0} /\ Len(l.primaries) \in Nat \ {0}
         /\ DOMAIN l.primaries = 1 .. Len(l.primaries)
         /\ \A m \in 1 .. Len(l.primaries) :
              l.primaries[m] \in PartitionRecord /\ l.primaries[m].start > 0
         /\ \A m \in 1 .. Count(l) : l.logicals[m] \in PartitionRecord
         /\ l.logicals[1].ebr = Base(l)
BY LayoutsAssumption DEF Count

LEMMA PartitionFields ==
  ASSUME NEW p \in PartitionRecord
  PROVE  /\ p.start \in Nat /\ p.sectors \in Nat /\ p.ebr \in Nat
         /\ End(p) \in Nat /\ p.start <= End(p) /\ End(p) = p.start + p.sectors
BY DEF PartitionRecord, End

LEMMA OccupiedFields ==
  ASSUME NEW l \in Layouts
  PROVE  /\ DOMAIN Occupied(l) = 1 .. 2 * Count(l)
         /\ \A m \in 1 .. Count(l) : /\ Occupied(l)[2 * m - 1] = Record(l.logicals[m])
                                     /\ Occupied(l)[2 * m] = Area(l.logicals[m])
         /\ \A a \in 1 .. 2 * Count(l) :
              \E m \in 1 .. Count(l) : \/ a = 2 * m - 1 /\ Occupied(l)[a] = Record(l.logicals[m])
                                       \/ a = 2 * m /\ Occupied(l)[a] = Area(l.logicals[m])
         /\ \A a \in 1 .. 2 * Count(l) : /\ Occupied(l)[a] \in [start : Nat, end : Nat]
                                        /\ Occupied(l)[a].start <= Occupied(l)[a].end
<1> DEFINE c == Count(l)
<1>1. c \in Nat
  BY LayoutFields
<1>2. \A m \in 1 .. c : Record(l.logicals[m]) \in [start : Nat, end : Nat]
                        /\ Area(l.logicals[m]) \in [start : Nat, end : Nat]
                        /\ Record(l.logicals[m]).start <= Record(l.logicals[m]).end
                        /\ Area(l.logicals[m]).start <= Area(l.logicals[m]).end
  BY LayoutFields, PartitionFields DEF Record, Area
<1>3. DOMAIN Occupied(l) = 1 .. 2 * c
  BY DEF Occupied
<1>4. \A a \in 1 .. 2 * c :
        Occupied(l)[a] = IF (a % 2) = 1 THEN Record(l.logicals[(a + 1) \div 2])
                         ELSE Area(l.logicals[(a + 1) \div 2])
  BY DEF Occupied
<1> HIDE DEF c
<1>5. \A m \in 1 .. c : /\ 2 * m - 1 \in 1 .. 2 * c /\ 2 * m \in 1 .. 2 * c
                        /\ ((2 * m - 1) % 2) = 1 /\ ((2 * m) % 2) = 0
                        /\ ((2 * m - 1 + 1) \div 2) = m /\ ((2 * m + 1) \div 2) = m
  BY <1>1
<1>6. \A m \in 1 .. c : /\ Occupied(l)[2 * m - 1] = Record(l.logicals[m])
                        /\ Occupied(l)[2 * m] = Area(l.logicals[m])
  BY <1>4, <1>5
<1>7. \A a \in 1 .. 2 * c : \E m \in 1 .. c : a = 2 * m - 1 \/ a = 2 * m
  <2> SUFFICES ASSUME NEW a \in 1 .. 2 * c PROVE \E m \in 1 .. c : a = 2 * m - 1 \/ a = 2 * m
    OBVIOUS
  <2>1. (a + 1) \div 2 \in 1 .. c /\ (a = 2 * ((a + 1) \div 2) - 1 \/ a = 2 * ((a + 1) \div 2))
    BY <1>1
  <2> QED BY <2>1
<1>8. \A a \in 1 .. 2 * c :
        \E m \in 1 .. c : \/ a = 2 * m - 1 /\ Occupied(l)[a] = Record(l.logicals[m])
                          \/ a = 2 * m /\ Occupied(l)[a] = Area(l.logicals[m])
  BY <1>6, <1>7
<1>9. \A a \in 1 .. 2 * c : /\ Occupied(l)[a] \in [start : Nat, end : Nat]
                            /\ Occupied(l)[a].start <= Occupied(l)[a].end
  BY <1>2, <1>8
<1> QED BY <1>3, <1>6, <1>8, <1>9 DEF c
-----------------------------------------------------------------------------
(***************************************************************************)
(* validate_definition compares neighbours of the sorted list; that is     *)
(* enough, as the range after the first one that follows a has to start    *)
(* where a ends, and the others start later.                               *)
(***************************************************************************)
Ranges(s) ==
  \A a \in DOMAIN s : s[a] \in [start : Nat, end : Nat] /\ s[a].start <= s[a].end

LEMMA BeforeIsAnOrder ==
  ASSUME NEW s, Ranges(s), DOMAIN s \subseteq Nat,
         NEW a \in DOMAIN s, NEW b \in DOMAIN s
  PROVE  /\ ~Before(s, a, a)
         /\ a # b => Before(s, a, b) \/ Before(s, b, a)
         /\ Before(s, a, b) => s[a].start <= s[b].start
         /\ \A c \in DOMAIN s : Before(s, a, b) /\ Before(s, b, c) => Before(s, a, c)
<1>1. /\ s[a].start \in Nat /\ s[a].end \in Nat /\ s[b].start \in Nat /\ s[b].end \in Nat
      /\ a \in Nat /\ b \in Nat
  BY DEF Ranges
<1>2. s[a].start = s[b].start /\ s[a].end = s[b].end => s[a] = s[b]
  BY DEF Ranges
<1>3. ~Before(s, a, a)
  BY <1>1 DEF Before
<1>4. a # b => Before(s, a, b) \/ Before(s, b, a)
  BY <1>1, <1>2 DEF Before
<1>5. Before(s, a, b) => s[a].start <= s[b].start
  BY <1>1 DEF Before
<1>6. ASSUME NEW c \in DOMAIN s, Before(s, a, b), Before(s, b, c) PROVE Before(s, a, c)
  <2>1. s[c].start \in Nat /\ s[c].end \in Nat /\ c \in Nat
    BY DEF Ranges
  <2> QED BY <1>1, <1>6, <2>1 DEF Before
<1> QED BY <1>3, <1>4, <1>5, <1>6

LEMMA NeighboursAreEnough ==
  ASSUME NEW s, Ranges(s), DOMAIN s \subseteq Nat, IsFiniteSet(DOMAIN s), ~Overlapping(s),
         NEW a \in DOMAIN s, NEW b \in DOMAIN s, Before(s, a, b)
  PROVE  s[a].end <= s[b].start
<1> DEFINE Between(x) == {d \in DOMAIN s : Before(s, a, d) /\ Before(s, d, x)}
           After == {x \in DOMAIN s : Before(s, a, x) /\ (x = b \/ Before(s, x, b))}
           C == {Between(x) : x \in After}
           whole == DOMAIN s
<1>1. IsFiniteSet(whole) /\ C \subseteq SUBSET whole /\ C # {}
  OBVIOUS
<1>2. PICK m \in C : \A t \in C : t \subseteq m => t = m
  <2> HIDE DEF C, whole
  <2> QED BY <1>1, MinimalSet
<1>3. PICK x \in After : m = Between(x)
  OBVIOUS
<1>4. ASSUME NEW d \in DOMAIN s, Before(s, a, d), Before(s, d, x) PROVE FALSE
  <2>1. d \in After
    BY <1>3, <1>4, BeforeIsAnOrder
  <2>2. Between(d) \subseteq Between(x)
    BY <1>3, <1>4, BeforeIsAnOrder
  <2>3. d \in Between(x) /\ d \notin Between(d)
    BY <1>4, BeforeIsAnOrder
  <2> QED BY <1>2, <1>3, <2>1, <2>2, <2>3
<1>5. <<a, x>> \in Neighbours(s)
  BY <1>3, <1>4 DEF Neighbours
<1>6. ~(s[a].end > s[x].start)
  BY <1>5 DEF Overlapping
<1>7. s[x].start <= s[b].start
  BY <1>3, BeforeIsAnOrder DEF Ranges
<1> QED BY <1>3, <1>6, <1>7 DEF Ranges

LEMMA OccupiedIsDisjoint ==
  ASSUME NEW l \in Layouts, ~Overlapping(Occupied(l)),
         NEW a \in DOMAIN Occupied(l), NEW b \in DOMAIN Occupied(l), a # b
  PROVE  Disjoint(Occupied(l)[a], Occupied(l)[b])
<1> DEFINE s == Occupied(l)
<1>1. DOMAIN s = 1 .. 2 * Count(l) /\ Count(l) \in Nat
  BY OccupiedFields, LayoutFields
<1>2. Ranges(s) /\ DOMAIN s \subseteq Nat
  <2>1. \A k \in DOMAIN s : s[k] \in [start : Nat, end : Nat] /\ s[k].start <= s[k].end
    BY OccupiedFields
  <2>2. DOMAIN s \subseteq Nat
    BY <1>1
  <2> HIDE DEF s
  <2> QED BY <2>1, <2>2 DEF Ranges
<1>3. IsFiniteSet(DOMAIN s)
  BY <1>1, FS_Interval
<1> HIDE DEF s
<1>4. Before(s, a, b) \/ Before(s, b, a)
  BY <1>2, BeforeIsAnOrder DEF s
<1>5. s[a].end <= s[b].start \/ s[b].end <= s[a].start
  BY <1>2, <1>3, <1>4, NeighboursAreEnough DEF s
<1> QED BY <1>5 DEF Disjoint, s

\* The same of the primary partitions, which are compared in their order.
LEMMA PrimariesAscend ==
  ASSUME NEW l \in Layouts, ValidDefinition(l),
         NEW m \in 1 .. Len(l.primaries), NEW o \in 1 .. Len(l.primaries), m < o
  PROVE  End(l.primaries[m]) <= l.primaries[o].start
<1> DEFINE Amiss == {k \in 1 .. Len(l.primaries) :
                       m < k /\ End(l.primaries[m]) > l.primaries[k].start}
<1>1. SUFFICES ASSUME Amiss # {} PROVE FALSE
  <2>1. End(l.primaries[m]) \in Nat /\ l.primaries[o].start \in Nat
    BY LayoutFields, PartitionFields
  <2> QED BY <1>1, <2>1
<1>2. Len(l.primaries) \in Nat
  BY LayoutFields
<1>3. Amiss \in SUBSET Nat
  BY <1>2
<1>4. PICK k \in Amiss : \A z \in Amiss : k <= z
  <2> HIDE DEF Amiss
  <2> QED BY <1>1, <1>3, LeastNatural
<1>5. k \in 2 .. Len(l.primaries) /\ k - 1 \in 1 .. Len(l.primaries) /\ m <= k - 1
      /\ End(l.primaries[m]) > l.primaries[k].start
  BY <1>2, <1>4
<1>6. End(l.primaries[k - 1]) <= l.primaries[k].start
  BY <1>5 DEF ValidDefinition
<1>7. /\ End(l.primaries[m]) \in Nat /\ l.primaries[k].start \in Nat
      /\ End(l.primaries[k - 1]) \in Nat /\ l.primaries[k - 1].start \in Nat
      /\ l.primaries[k - 1].start <= End(l.primaries[k - 1])
  BY <1>5, LayoutFields, PartitionFields
<1>8. CASE m = k - 1
  BY <1>5, <1>6, <1>7, <1>8
<1>9. CASE m < k - 1
  <2>1. End(l.primaries[m]) > l.primaries[k - 1].start
    <3> DEFINE a == End(l.primaries[m])
               b == l.primaries[k].start
               c == End(l.primaries[k - 1])
               d == l.primaries[k - 1].start
    <3>1. a \in Nat /\ b \in Nat /\ c \in Nat /\ d \in Nat /\ a > b /\ c <= b /\ d <= c
      BY <1>5, <1>6, <1>7
    <3> HIDE DEF a, b, c, d
    <3>2. a > d
      BY <3>1
    <3> QED BY <3>2 DEF a, d
  <2>2. k - 1 \in Amiss
    BY <1>5, <1>9, <2>1
  <2>3. k - 1 < k
    BY <1>5
  <2> QED BY <1>4, <2>2, <2>3, <1>5
<1> QED BY <1>2, <1>5, <1>8, <1>9

\* A primary partition with contents ends where the extended one starts.
LEMMA PrimaryBeforeBase ==
  ASSUME NEW l \in Layouts, ValidDefinition(l), NEW m \in 1 .. Len(l.primaries) - 1
  PROVE  End(l.primaries[m]) <= Base(l)
<1>1. Len(l.primaries) \in Nat \ {0}
  BY LayoutFields
<1>2. m \in 1 .. Len(l.primaries) /\ Len(l.primaries) \in 1 .. Len(l.primaries)
      /\ m < Len(l.primaries)
  BY <1>1
<1> QED BY <1>2, PrimariesAscend DEF Base, Extended

\* A logical partition lies behind its record, within the extended one.
LEMMA LogicalPlace ==
  ASSUME NEW l \in Layouts, ValidDefinition(l), NEW m \in 1 .. Count(l)
  PROVE  /\ Base(l) \in Nat /\ Base(l) > 0 /\ Base(l) <= l.logicals[m].ebr
         /\ l.logicals[m].ebr \in Nat /\ l.logicals[m].start \in Nat
         /\ l.logicals[m].ebr < l.logicals[m].start
         /\ l.logicals[m].start <= End(l.logicals[m]) /\ End(l.logicals[m]) <= l.disk
         /\ End(l.logicals[m]) \in Nat
<1>1. Len(l.primaries) \in 1 .. Len(l.primaries)
  BY LayoutFields
<1>2. Base(l) \in Nat /\ Base(l) > 0
  BY <1>1, LayoutFields, PartitionFields DEF Base, Extended
<1>3. l.logicals[m] \in PartitionRecord
  BY LayoutFields
<1>4. /\ Base(l) <= l.logicals[m].ebr /\ l.logicals[m].ebr < l.logicals[m].start
      /\ End(l.logicals[m]) <= l.disk
  BY DEF ValidDefinition
<1> QED BY <1>2, <1>3, <1>4, PartitionFields

LEMMA ValidHasNoOverlap ==
  ASSUME NEW l \in Layouts, ValidDefinition(l)
  PROVE  LET s == Occupied(l)
             primaries == SubSeq(l.primaries, 1, Len(l.primaries) - 1)
         IN /\ \A a, b \in DOMAIN s : a # b => Disjoint(s[a], s[b])
            /\ \A a \in DOMAIN s : s[a].end <= l.disk
            /\ \A a \in DOMAIN s, m \in DOMAIN primaries : Disjoint(s[a], Area(primaries[m]))
            /\ \A m, o \in DOMAIN primaries :
                 m # o => Disjoint(Area(primaries[m]), Area(primaries[o]))
<1> DEFINE s == Occupied(l)
           primaries == SubSeq(l.primaries, 1, Len(l.primaries) - 1)
<1>1. /\ DOMAIN primaries = 1 .. Len(l.primaries) - 1 /\ Len(l.primaries) \in Nat \ {0}
      /\ \A m \in DOMAIN primaries : primaries[m] = l.primaries[m]
  BY LayoutFields, LayoutsAssumption
<1>2. \A a, b \in DOMAIN s : a # b => Disjoint(s[a], s[b])
  BY OccupiedIsDisjoint DEF ValidDefinition
<1>3. ASSUME NEW a \in DOMAIN s PROVE Base(l) <= s[a].start /\ s[a].end <= l.disk
  <2>1. PICK m \in 1 .. Count(l) : s[a] = Record(l.logicals[m]) \/ s[a] = Area(l.logicals[m])
    BY OccupiedFields
  <2>2. l.disk \in Nat
    BY LayoutFields
  <2> QED BY <2>1, <2>2, LogicalPlace DEF Record, Area
<1>4. ASSUME NEW a \in DOMAIN s, NEW m \in DOMAIN primaries
      PROVE  Disjoint(s[a], Area(primaries[m]))
  <2>1. m \in 1 .. Len(l.primaries)
    BY <1>1
  <2>2. End(l.primaries[m]) <= Base(l) /\ End(l.primaries[m]) \in Nat
    BY <1>1, <2>1, PrimaryBeforeBase, LayoutFields, PartitionFields
  <2>3. Base(l) \in Nat /\ s[a].start \in Nat
    BY OccupiedFields, LogicalPlace, LayoutFields
  <2> HIDE DEF s, primaries
  <2>4. End(l.primaries[m]) <= s[a].start
    BY <1>3, <2>2, <2>3
  <2> QED BY <1>1, <2>4 DEF Disjoint, Area
<1>5. ASSUME NEW m \in DOMAIN primaries, NEW o \in DOMAIN primaries, m # o
      PROVE  Disjoint(Area(primaries[m]), Area(primaries[o]))
  <2>1. m \in 1 .. Len(l.primaries) /\ o \in 1 .. Len(l.primaries) /\ (m < o \/ o < m)
    BY <1>1, <1>5
  <2>2. End(l.primaries[m]) <= l.primaries[o].start \/ End(l.primaries[o]) <= l.primaries[m].start
    BY <2>1, PrimariesAscend
  <2> HIDE DEF primaries
  <2> QED BY <1>1, <2>2 DEF Disjoint, Area
<1> QED BY <1>2, <1>3, <1>4, <1>5
-----------------------------------------------------------------------------
(***************************************************************************)
(* The sectors of the table are distinct, and no payload has one.          *)
(***************************************************************************)
LEMMA TableSectors ==
  ASSUME NEW l \in Layouts, ValidDefinition(l), NEW m \in 0 .. Count(l)
  PROVE  /\ Lba(l, m) \in TableLbas(l) /\ Lba(l, m) \in Nat
         /\ m # 0 => Lba(l, m) > 0
         /\ \A o \in 0 .. Count(l) : o # m => Lba(l, o) # Lba(l, m)
<1>1. Count(l) \in Nat
  BY LayoutFields
<1>2. \A k \in 1 .. Count(l) : Lba(l, k) = l.logicals[k].ebr /\ Lba(l, k) \in Nat /\ Lba(l, k) > 0
  BY LogicalPlace DEF Lba
<1>3. Lba(l, 0) = 0
  BY DEF Lba
<1>4. ASSUME NEW k \in 1 .. Count(l), NEW o \in 1 .. Count(l), k # o PROVE Lba(l, o) # Lba(l, k)
  <2>1. /\ 2 * k - 1 \in DOMAIN Occupied(l) /\ 2 * o - 1 \in DOMAIN Occupied(l)
        /\ 2 * k - 1 # 2 * o - 1
    BY <1>1, <1>4, OccupiedFields
  <2>2. /\ Occupied(l)[2 * k - 1] = Record(l.logicals[k])
        /\ Occupied(l)[2 * o - 1] = Record(l.logicals[o])
    BY OccupiedFields
  <2>3. Disjoint(Record(l.logicals[k]), Record(l.logicals[o]))
    BY <2>1, <2>2, OccupiedIsDisjoint DEF ValidDefinition
  <2> QED BY <1>2, <2>3 DEF Disjoint, Record
<1>5. m = 0 \/ m \in 1 .. Count(l)
  BY <1>1
<1>6. Lba(l, m) \in TableLbas(l)
  BY DEF TableLbas
<1>7. ASSUME NEW o \in 0 .. Count(l), o # m PROVE Lba(l, o) # Lba(l, m)
  <2>1. o = 0 \/ o \in 1 .. Count(l)
    BY <1>1
  <2> QED BY <1>2, <1>3, <1>4, <1>5, <1>7, <2>1
<1> QED BY <1>2, <1>3, <1>5, <1>6, <1>7

LEMMA PayloadsAvoidTheTable ==
  ASSUME NEW l \in Layouts, ValidDefinition(l), NEW k \in 1 .. Len(Partitions(l)),
         NEW m \in 0 .. Count(l)
  PROVE  ~(Partitions(l)[k].start <= Lba(l, m) /\ Lba(l, m) < End(Partitions(l)[k]))
<1> DEFINE first == Len(l.primaries) - 1
           p == Partitions(l)[k]
<1>1. first \in Nat /\ Count(l) \in Nat
  BY LayoutFields
<1>2. /\ Len(Partitions(l)) = first + Count(l)
      /\ \/ k \in 1 .. first /\ p = l.primaries[k]
         \/ k - first \in 1 .. Count(l) /\ p = l.logicals[k - first]
  <2> DEFINE a == SubSeq(l.primaries, 1, first)
             b == l.logicals
  <2>1. a \in Seq(PartitionRecord) /\ Len(a) = first /\ \A i \in 1 .. first : a[i] = l.primaries[i]
    BY <1>1, LayoutsAssumption
  <2>2. b \in Seq(PartitionRecord) /\ Len(b) = Count(l)
    BY LayoutsAssumption DEF Count
  <2>3. Partitions(l) = a \o b
    BY DEF Partitions
  <2> HIDE DEF a, b, first
  <2>4. Len(a \o b) = first + Count(l)
    BY <2>1, <2>2
  <2>5. k \in 1 .. first + Count(l)
    BY <2>3, <2>4
  <2>6. (a \o b)[k] = IF k <= first THEN a[k] ELSE b[k - first]
    BY <1>1, <2>1, <2>2, <2>5
  <2>7. CASE k <= first
    BY <1>1, <2>1, <2>3, <2>4, <2>5, <2>6, <2>7
  <2>8. CASE k > first
    <3>1. p = b[k - first] /\ k - first \in 1 .. Count(l)
      BY <1>1, <2>3, <2>5, <2>6, <2>8
    <3> QED BY <2>3, <2>4, <3>1 DEF b
  <2> QED BY <1>1, <2>5, <2>7, <2>8
<1>3. m = 0 \/ m \in 1 .. Count(l)
  BY <1>1
<1>4. CASE k \in 1 .. first /\ p = l.primaries[k]
  <2>1. k \in 1 .. Len(l.primaries) /\ End(p) <= Base(l)
    BY <1>1, <1>4, PrimaryBeforeBase
  <2>2. p.start \in Nat /\ p.start > 0 /\ End(p) \in Nat
    BY <1>4, <2>1, LayoutFields, PartitionFields
  <2>3. CASE m = 0
    BY <2>2, <2>3 DEF Lba
  <2>4. CASE m \in 1 .. Count(l)
    BY <2>1, <2>2, <2>4, LogicalPlace DEF Lba
  <2> QED BY <1>3, <2>3, <2>4
<1>5. CASE k - first \in 1 .. Count(l) /\ p = l.logicals[k - first]
  <2> DEFINE o == k - first
  <2>1. o \in 1 .. Count(l) /\ p = l.logicals[o]
    BY <1>5
  <2> HIDE DEF o
  <2>2. p.start \in Nat /\ p.start > 0 /\ End(p) \in Nat
    BY <2>1, LogicalPlace
  <2>3. CASE m = 0
    BY <2>2, <2>3 DEF Lba
  <2>4. CASE m \in 1 .. Count(l)
    <3>1. /\ 2 * o \in DOMAIN Occupied(l) /\ 2 * m - 1 \in DOMAIN Occupied(l) /\ 2 * o # 2 * m - 1
      BY <1>1, <2>1, <2>4, OccupiedFields
    <3>2. Occupied(l)[2 * o] = Area(p) /\ Occupied(l)[2 * m - 1] = Record(l.logicals[m])
      BY <2>1, <2>4, OccupiedFields
    <3>3. Disjoint(Area(p), Record(l.logicals[m]))
      BY <3>1, <3>2, OccupiedIsDisjoint DEF ValidDefinition
    <3>4. l.logicals[m].ebr \in Nat /\ Lba(l, m) = l.logicals[m].ebr
      BY <2>4, LogicalPlace DEF Lba
    <3> QED BY <2>2, <3>3, <3>4 DEF Disjoint, Area, Record
  <2> QED BY <1>3, <2>3, <2>4
<1> QED BY <1>2, <1>4, <1>5
-----------------------------------------------------------------------------
(***************************************************************************)
(* The table on the disk.  Until something else overwrites it, what has    *)
(* been written stays what verify_table accepts; and what verify_table has *)
(* read and accepted is not overwritten any more, as far as it matters.    *)
(***************************************************************************)
GeometryTypes ==
  /\ layout \in Layouts /\ damage \in Nat
  /\ disk = [lba \in TableLbas(layout) |-> disk[lba]]
  /\ stage \in {"define", "refused", "write", "payloads", "verify", "rejected", "verified"}
  /\ stage \in {"write", "verify"} => row \in 0 .. Count(layout)
  /\ stage = "payloads" => row \in 1 .. Len(Partitions(layout))
  /\ stage \notin {"define", "refused"} => ValidDefinition(layout)

Kept(m) ==
  \/ damage = 0 /\ (stage \in {"payloads", "verify"} \/ (stage = "write" /\ m < row))
  \/ stage = "verify" /\ m < row
  \/ stage = "verified"

TableInv ==
  /\ \A m \in 0 .. Count(layout) : Kept(m) => Accepts(layout, m, disk[Lba(layout, m)])
  /\ stage = "rejected" => damage > 0

GeometryInv == GeometryTypes /\ TableInv

LEMMA SomePayloads ==
  ASSUME NEW l \in Layouts
  PROVE  Len(Partitions(l)) \in Nat \ {0} /\ Count(l) \in Nat \ {0}
<1> DEFINE a == SubSeq(l.primaries, 1, Len(l.primaries) - 1)
           b == l.logicals
<1>1. a \in Seq(PartitionRecord) /\ b \in Seq(PartitionRecord) /\ Len(b) = Count(l)
      /\ Count(l) \in Nat \ {0}
  BY LayoutFields, LayoutsAssumption DEF Count
<1>2. Partitions(l) = a \o b
  BY DEF Partitions
<1> HIDE DEF a, b
<1>3. Len(a \o b) = Len(a) + Len(b) /\ Len(a) \in Nat
  BY <1>1
<1> QED BY <1>1, <1>2, <1>3

LEMMA InitGeometry == GeometryInit => GeometryInv
<1> SUFFICES ASSUME GeometryInit PROVE GeometryInv
  OBVIOUS
<1>1. /\ layout \in Layouts /\ damage = 0 /\ stage = "define"
      /\ disk = [lba \in TableLbas(layout) |-> Zero]
  BY DEF GeometryInit
<1>2. disk = [lba \in TableLbas(layout) |-> disk[lba]]
  <2> DEFINE T == TableLbas(layout)
  <2>1. disk = [lba \in T |-> Zero]
    BY <1>1
  <2> HIDE DEF T
  <2>2. disk = [lba \in T |-> disk[lba]]
    BY <2>1
  <2> QED BY <2>2 DEF T
<1>3. GeometryTypes
  BY <1>1, <1>2 DEF GeometryTypes
<1> QED BY <1>1, <1>3 DEF GeometryInv, TableInv, Kept

LEMMA GeometryTypesKept ==
  ASSUME GeometryTypes, [GeometryNext]_geometryVars
  PROVE  GeometryTypes'
<1> DEFINE T == TableLbas(layout)
           c == Count(layout)
           last == Len(Partitions(layout))
           valid == ValidDefinition(layout)
<1>1. /\ layout \in Layouts /\ damage \in Nat /\ disk = [lba \in T |-> disk[lba]]
      /\ stage \in {"define", "refused", "write", "payloads", "verify", "rejected", "verified"}
      /\ stage \in {"write", "verify"} => row \in 0 .. c
      /\ stage = "payloads" => row \in 1 .. last
      /\ stage \notin {"define", "refused"} => valid
  BY DEF GeometryTypes
<1>2. last \in Nat \ {0} /\ c \in Nat \ {0}
  BY <1>1, SomePayloads
<1>3. layout' = layout
  BY DEF GeometryNext, Define, WriteTable, CopyPayload, Overwrite, VerifyTable, geometryVars
<1>4. T' = T /\ c' = c /\ last' = last /\ valid' = valid
  BY <1>3
<1>5. damage' \in Nat
  BY <1>1 DEF GeometryNext, Define, WriteTable, CopyPayload, Overwrite, VerifyTable, geometryVars
<1> HIDE DEF T, c, last, valid
<1>6. disk' = [lba \in T |-> disk'[lba]]
  <2>1. CASE WriteTable
    <3>1. PICK x, y : disk' = [disk EXCEPT ![x] = y]
      BY <2>1 DEF WriteTable
    <3> QED BY <1>1, <3>1
  <2>2. CASE Overwrite
    <3>1. PICK x, y : disk' = [disk EXCEPT ![x] = y]
      BY <2>2 DEF Overwrite
    <3> QED BY <1>1, <3>1
  <2>3. CASE CopyPayload
    <3> DEFINE p == Partitions(layout)[row]
               in(lba) == p.start <= lba /\ lba < End(p)
    <3>1. disk' = [lba \in DOMAIN disk |-> IF in(lba) THEN PayloadSector ELSE disk[lba]]
      BY <2>3 DEF CopyPayload
    <3> HIDE DEF in
    <3> QED BY <1>1, <3>1
  <2>4. CASE Define \/ VerifyTable \/ UNCHANGED geometryVars
    BY <1>1, <2>4 DEF Define, VerifyTable, geometryVars
  <2> QED BY <2>1, <2>2, <2>3, <2>4 DEF GeometryNext
<1>7. /\ stage' \in {"define", "refused", "write", "payloads", "verify", "rejected", "verified"}
      /\ stage' \in {"write", "verify"} => row' \in 0 .. c
      /\ stage' = "payloads" => row' \in 1 .. last
      /\ stage' \notin {"define", "refused"} => valid
  <2>1. CASE Define
    BY <1>1, <1>2, <2>1 DEF Define, Proceed, valid
  <2>2. CASE WriteTable
    BY <1>1, <1>2, <2>2 DEF WriteTable, Proceed, c
  <2>3. CASE CopyPayload
    BY <1>1, <1>2, <2>3 DEF CopyPayload, Proceed, last
  <2>4. CASE VerifyTable
    BY <1>1, <1>2, <2>4 DEF VerifyTable, Proceed, c
  <2>5. CASE Overwrite \/ UNCHANGED geometryVars
    BY <1>1, <2>5 DEF Overwrite, geometryVars
  <2> QED BY <2>1, <2>2, <2>3, <2>4, <2>5 DEF GeometryNext
<1> QED BY <1>1, <1>3, <1>4, <1>5, <1>6, <1>7 DEF GeometryTypes, T, c, last, valid

LEMMA TableStaysTrue ==
  ASSUME GeometryInv, [GeometryNext]_geometryVars
  PROVE  TableInv'
<1> DEFINE l == layout
<1>1. /\ layout \in Layouts /\ damage \in Nat /\ disk = [lba \in TableLbas(layout) |-> disk[lba]]
      /\ stage \in {"write", "verify"} => row \in 0 .. Count(layout)
      /\ stage = "payloads" => row \in 1 .. Len(Partitions(layout))
      /\ stage \notin {"define", "refused"} => ValidDefinition(layout)
      /\ \A m \in 0 .. Count(layout) : Kept(m) => Accepts(layout, m, disk[Lba(layout, m)])
      /\ stage = "rejected" => damage > 0
  BY DEF GeometryInv, GeometryTypes, TableInv
<1>2. Count(layout) \in Nat \ {0}
  BY <1>1, LayoutFields
<1>3. layout' = layout /\ Count(layout)' = Count(layout)
      /\ \A m : Lba(layout, m)' = Lba(layout, m)
  BY DEF GeometryNext, Define, WriteTable, CopyPayload, Overwrite, VerifyTable, geometryVars
<1>4. SUFFICES /\ \A m \in 0 .. Count(layout) :
                    Kept(m)' => Accepts(layout, m, disk'[Lba(layout, m)])
               /\ stage' = "rejected" => damage' > 0
  BY <1>3 DEF TableInv, Accepts
<1>5. CASE Define
  BY <1>5 DEF Define, Proceed, Kept
<1>6. CASE WriteTable
  <2>1. PICK id \in DiskIds \ {0} :
          disk' = [disk EXCEPT ![Lba(layout, row)] =
                     IF row = 0 THEN EncodeMbr(layout, id) ELSE EncodeEbr(layout, row)]
    BY <1>6 DEF WriteTable
  <2>2. /\ stage = "write" /\ damage' = damage /\ row \in 0 .. Count(layout)
        /\ ValidDefinition(layout)
        /\ \/ row < Count(layout) /\ stage' = "write" /\ row' = row + 1
           \/ row = Count(layout) /\ stage' = "payloads"
    BY <1>1, <1>2, <1>6 DEF WriteTable, Proceed
  <2>3. Accepts(layout, row, disk'[Lba(layout, row)])
    <3>1. Lba(layout, row) \in DOMAIN disk
      BY <1>1, <2>2, TableSectors
    <3>2. disk'[Lba(layout, row)] =
            IF row = 0 THEN EncodeMbr(layout, id) ELSE EncodeEbr(layout, row)
      BY <2>1, <3>1
    <3>3. CASE row = 0
      <4>1. /\ EncodeMbr(layout, id).disk_id = id /\ id # 0
            /\ DOMAIN EncodeMbr(layout, id) = DOMAIN EncodeMbr(layout, 1)
        BY DEF EncodeMbr
      <4> QED BY <3>2, <3>3, <4>1 DEF Accepts
    <3>4. CASE row # 0
      BY <3>2, <3>4 DEF Accepts
    <3> QED BY <3>3, <3>4
  <2>4. ASSUME NEW m \in 0 .. Count(layout), m # row
        PROVE  disk'[Lba(layout, m)] = disk[Lba(layout, m)]
    <3>1. Lba(layout, m) # Lba(layout, row) /\ Lba(layout, m) \in DOMAIN disk
      BY <1>1, <2>2, <2>4, TableSectors
    <3> QED BY <2>1, <3>1
  <2>5. ASSUME NEW m \in 0 .. Count(layout), Kept(m)' PROVE m = row \/ Kept(m)
    BY <2>2, <2>5 DEF Kept
  <2> QED BY <1>1, <2>2, <2>3, <2>4, <2>5
<1>7. CASE CopyPayload
  <2>1. /\ stage = "payloads" /\ row \in 1 .. Len(Partitions(layout)) /\ damage' = damage
        /\ ValidDefinition(layout) /\ stage' \in {"payloads", "verify"}
        /\ stage' = "verify" => row' = 0
    BY <1>1, <1>7 DEF CopyPayload, Proceed
  <2>2. ASSUME NEW m \in 0 .. Count(layout) PROVE disk'[Lba(layout, m)] = disk[Lba(layout, m)]
    <3> DEFINE p == Partitions(layout)[row]
               in(lba) == p.start <= lba /\ lba < End(p)
    <3>1. disk' = [lba \in DOMAIN disk |-> IF in(lba) THEN PayloadSector ELSE disk[lba]]
      BY <1>7 DEF CopyPayload
    <3>2. ~in(Lba(layout, m))
      BY <1>1, <2>1, PayloadsAvoidTheTable
    <3>3. Lba(layout, m) \in DOMAIN disk
      BY <1>1, <2>1, TableSectors
    <3> HIDE DEF in
    <3> QED BY <3>1, <3>2, <3>3
  <2>3. ASSUME NEW m \in 0 .. Count(layout), Kept(m)' PROVE Kept(m)
    BY <2>1, <2>3 DEF Kept
  <2> QED BY <1>1, <2>1, <2>2, <2>3
<1>8. CASE Overwrite
  <2>1. PICK hit \in (IF stage = "verify" THEN row ELSE 0) .. Count(layout) :
          \E bad : disk' = [disk EXCEPT ![Lba(layout, hit)] = bad]
    BY <1>8 DEF Overwrite
  <2>2. /\ stage \in {"payloads", "verify"} /\ damage' = damage + 1 /\ row' = row /\ stage' = stage
        /\ ValidDefinition(layout)
    BY <1>1, <1>8 DEF Overwrite
  <2>3. ASSUME NEW m \in 0 .. Count(layout), Kept(m)'
        PROVE  Accepts(layout, m, disk'[Lba(layout, m)])
    <3>1. stage = "verify" /\ row \in 0 .. Count(layout) /\ m < row /\ Kept(m)
      BY <1>1, <2>2, <2>3 DEF Kept
    <3>2. hit \in 0 .. Count(layout) /\ m # hit
      BY <1>2, <2>1, <3>1
    <3>3. Lba(layout, m) # Lba(layout, hit) /\ Lba(layout, m) \in DOMAIN disk
      BY <1>1, <2>2, <3>2, TableSectors
    <3>4. disk'[Lba(layout, m)] = disk[Lba(layout, m)]
      BY <2>1, <3>3
    <3> QED BY <1>1, <3>1, <3>4
  <2> QED BY <2>2, <2>3
<1>9. CASE VerifyTable
  <2>1. /\ stage = "verify" /\ row \in 0 .. Count(layout) /\ disk' = disk /\ damage' = damage
        /\ IF ~Accepts(layout, row, disk[Lba(layout, row)]) THEN stage' = "rejected"
           ELSE IF row < Count(layout) THEN stage' = "verify" /\ row' = row + 1
           ELSE stage' = "verified"
    BY <1>1, <1>9 DEF VerifyTable, Proceed
  <2>2. damage = 0 => Accepts(layout, row, disk[Lba(layout, row)])
    BY <1>1, <2>1 DEF Kept
  <2>3. ASSUME NEW m \in 0 .. Count(layout), Kept(m)'
        PROVE  Accepts(layout, m, disk[Lba(layout, m)])
    <3>1. m = row \/ Kept(m)
      BY <1>2, <2>1, <2>3 DEF Kept
    <3>2. stage' # "rejected"
      BY <2>3 DEF Kept
    <3> QED BY <1>1, <2>1, <3>1, <3>2
  <2> QED BY <1>1, <2>1, <2>2, <2>3
<1>10. CASE UNCHANGED geometryVars
  BY <1>1, <1>10 DEF geometryVars, Kept
<1> QED BY <1>5, <1>6, <1>7, <1>8, <1>9, <1>10 DEF GeometryNext

LEMMA GeometryHolds == GeometrySpec => []GeometryInv
<1>1. GeometryInv /\ [GeometryNext]_geometryVars => GeometryInv'
  BY GeometryTypesKept, TableStaysTrue DEF GeometryInv
<1> QED BY <1>1, InitGeometry, PTL DEF GeometrySpec
-----------------------------------------------------------------------------
(***************************************************************************)
(* The walk along the chain.                                               *)
(***************************************************************************)
\* Where the walk is after each step, given where a function has it before.
Walked(base, g) ==
  [m \in 1 .. Count(layout) + 1 |->
     IF m = 1 THEN base
     ELSE IF g[m - 1] \in DOMAIN disk \ {0} THEN Successor(base)[g[m - 1]]
     ELSE Nowhere]
ChainStart == disk[0].entries[Len(layout.primaries)].relative

ChainOf(l) == [m \in 1 .. Count(l) + 1 |-> IF m <= Count(l) THEN l.logicals[m].ebr ELSE Nowhere]

LEMMA WalkIsRecursive == Walk = CHOOSE g : g = Walked(ChainStart, g)
BY DEF Walk, Walked, ChainStart

\* What verify_table has accepted, record by record.
LEMMA AcceptedTable ==
  ASSUME GeometryInv, stage = "verified"
  PROVE  /\ layout \in Layouts /\ ValidDefinition(layout) /\ DOMAIN disk = TableLbas(layout)
         /\ disk[0].entries = EncodeMbr(layout, 1).entries
         /\ \A m \in 1 .. Count(layout) : disk[layout.logicals[m].ebr] = EncodeEbr(layout, m)
<1>1. /\ layout \in Layouts /\ ValidDefinition(layout) /\ DOMAIN disk = TableLbas(layout)
      /\ \A m \in 0 .. Count(layout) : Accepts(layout, m, disk[Lba(layout, m)])
  BY DEF GeometryInv, GeometryTypes, TableInv, Kept
<1>2. Count(layout) \in Nat
  BY <1>1, LayoutFields
<1>3. disk[0].entries = EncodeMbr(layout, 1).entries
  <2>1. Accepts(layout, 0, disk[0])
    BY <1>1, <1>2 DEF Lba
  <2> QED BY <2>1 DEF Accepts, EncodeMbr
<1>4. \A m \in 1 .. Count(layout) : disk[layout.logicals[m].ebr] = EncodeEbr(layout, m)
  BY <1>1, <1>2 DEF Lba, Accepts
<1> QED BY <1>1, <1>3, <1>4

LEMMA FirstEntry ==
  ASSUME GeometryInv, stage = "verified"
  PROVE  ChainStart = Base(layout)
<1>1. Len(layout.primaries) \in DOMAIN layout.primaries
  BY AcceptedTable, LayoutFields
<1> QED BY <1>1, AcceptedTable DEF ChainStart, EncodeMbr, Entry, Base, Extended

LEMMA RecordFields ==
  ASSUME NEW l, NEW m
  PROVE  /\ EncodeEbr(l, m).data = Data(l.logicals[m])
         /\ EncodeEbr(l, m).link = IF m < Count(l) THEN Link(l, l.logicals[m + 1]) ELSE NoEntry
BY DEF EncodeEbr

\* From the record of a logical partition the walk gets to that of the next.
LEMMA NextRecord ==
  ASSUME GeometryInv, stage = "verified", NEW m \in 1 .. Count(layout)
  PROVE  /\ layout.logicals[m].ebr \in DOMAIN disk \ {0}
         /\ Successor(Base(layout))[layout.logicals[m].ebr] = ChainOf(layout)[m + 1]
<1> DEFINE lba == layout.logicals[m].ebr
           base == Base(layout)
<1>1. layout \in Layouts /\ ValidDefinition(layout) /\ DOMAIN disk = TableLbas(layout)
  BY AcceptedTable
<1>2. Count(layout) \in Nat
  BY <1>1, LayoutFields
<1>3. \A k \in 1 .. Count(layout) : /\ layout.logicals[k].ebr \in DOMAIN disk \ {0}
                                    /\ layout.logicals[k].ebr \in Nat
  BY <1>1, <1>2, TableSectors, LogicalPlace DEF Lba
<1>4. disk[lba].link = IF m < Count(layout) THEN Link(layout, layout.logicals[m + 1]) ELSE NoEntry
  <2>1. disk[lba] = EncodeEbr(layout, m)
    BY AcceptedTable
  <2> QED BY <2>1, RecordFields
<1>5. Successor(base)[lba] = IF /\ disk[lba].link # NoEntry
                                /\ base + disk[lba].link.relative \in DOMAIN disk
                             THEN base + disk[lba].link.relative ELSE Nowhere
  BY <1>3 DEF Successor
<1>6. CASE m < Count(layout)
  <2>1. m + 1 \in 1 .. Count(layout)
    BY <1>2, <1>6
  <2>2. disk[lba].link = Link(layout, layout.logicals[m + 1])
    BY <1>4, <1>6
  <2>3. disk[lba].link # NoEntry
    BY <2>2 DEF Link, Entry, NoEntry, Blank
  <2>4. base \in Nat /\ layout.logicals[m + 1].ebr \in Nat
    BY <1>1, <2>1, LogicalPlace
  <2>5. base + disk[lba].link.relative = layout.logicals[m + 1].ebr
    BY <2>2, <2>4 DEF Link, Entry
  <2>6. ChainOf(layout)[m + 1] = layout.logicals[m + 1].ebr
    BY <1>2, <2>1 DEF ChainOf
  <2> QED BY <1>3, <1>5, <2>1, <2>3, <2>5, <2>6
<1>7. CASE m = Count(layout)
  <2>1. Successor(base)[lba] = Nowhere
    BY <1>4, <1>5, <1>7
  <2>2. ChainOf(layout)[m + 1] = Nowhere
    BY <1>2, <1>7 DEF ChainOf
  <2> QED BY <1>3, <2>1, <2>2
<1> QED BY <1>2, <1>6, <1>7

LEMMA WalkFollowsTheChain ==
  ASSUME GeometryInv, stage = "verified"
  PROVE  Walk = ChainOf(layout)
<1> DEFINE c == Count(layout)
           base == Base(layout)
           chain == ChainOf(layout)
           step(g) == Walked(base, g)
<1>1. layout \in Layouts /\ c \in Nat \ {0}
  BY AcceptedTable, LayoutFields
<1>2. \A m \in 1 .. c : chain[m] = layout.logicals[m].ebr
  BY <1>1 DEF ChainOf
<1>3. chain[1] = base
  BY <1>1, <1>2, LayoutFields
<1>4. \A m \in 1 .. c : chain[m] \in DOMAIN disk \ {0} /\ Successor(base)[chain[m]] = chain[m + 1]
  BY <1>2, NextRecord
<1>5. DOMAIN chain = 1 .. c + 1 /\ chain = [m \in 1 .. c + 1 |-> chain[m]]
  BY DEF ChainOf
<1>6. \A g : step(g) = [m \in 1 .. c + 1 |->
                        IF m = 1 THEN base
                        ELSE IF g[m - 1] \in DOMAIN disk \ {0} THEN Successor(base)[g[m - 1]]
                        ELSE Nowhere]
  BY DEF Walked
<1>7. Walk = CHOOSE g : g = step(g)
  BY WalkIsRecursive, FirstEntry
<1> HIDE DEF c, base, chain, step
<1>8. chain = step(chain)
  <2>1. \A m \in 1 .. c + 1 : chain[m] = step(chain)[m]
    <3> SUFFICES ASSUME NEW m \in 1 .. c + 1 PROVE chain[m] = step(chain)[m]
      OBVIOUS
    <3>1. CASE m = 1
      BY <1>1, <1>3, <1>6, <3>1
    <3>2. CASE m # 1
      <4>1. m - 1 \in 1 .. c /\ m - 1 + 1 = m
        BY <1>1, <3>2
      <4>2. chain[m - 1] \in DOMAIN disk \ {0} /\ Successor(base)[chain[m - 1]] = chain[m]
        BY <1>4, <4>1
      <4> QED BY <1>6, <3>2, <4>2
    <3> QED BY <3>1, <3>2
  <2>2. step(chain) = [m \in 1 .. c + 1 |-> step(chain)[m]]
    BY <1>6
  <2> QED BY <1>5, <2>1, <2>2
<1>9. ASSUME NEW g, g = step(g) PROVE g = chain
  <2> DEFINE Amiss == {m \in 1 .. c + 1 : g[m] # chain[m]}
  <2>1. g = [m \in 1 .. c + 1 |-> g[m]]
    BY <1>6, <1>9
  <2>2. \A m \in 1 .. c + 1 :
          g[m] = IF m = 1 THEN base
                 ELSE IF g[m - 1] \in DOMAIN disk \ {0} THEN Successor(base)[g[m - 1]]
                 ELSE Nowhere
    <3>1. \A m \in 1 .. c + 1 : g[m] = step(g)[m]
      BY <1>9
    <3> QED BY <1>6, <3>1
  <2>3. ASSUME Amiss # {} PROVE FALSE
    <3>1. Amiss \in SUBSET Nat
      BY <1>1
    <3>2. PICK m \in Amiss : \A z \in Amiss : m <= z
      <4> HIDE DEF Amiss
      <4> QED BY <2>3, <3>1, LeastNatural
    <3>3. CASE m = 1
      BY <1>3, <2>2, <3>2, <3>3
    <3>4. CASE m # 1
      <4>1. m - 1 \in 1 .. c /\ m - 1 + 1 = m /\ m \in 1 .. c + 1 /\ ~(m <= m - 1)
        BY <1>1, <3>2, <3>4
      <4>2. g[m - 1] = chain[m - 1]
        BY <1>1, <3>2, <4>1
      <4>3. chain[m - 1] \in DOMAIN disk \ {0} /\ Successor(base)[chain[m - 1]] = chain[m]
        BY <1>4, <4>1
      <4>4. g[m] = chain[m]
        BY <2>2, <3>4, <4>1, <4>2, <4>3
      <4> QED BY <3>2, <4>4
    <3> QED BY <3>3, <3>4
  <2> QED BY <1>5, <2>1, <2>3
<1>10. Walk = chain
  BY <1>7, <1>8, <1>9
<1> QED BY <1>10 DEF chain

(***************************************************************************)
(* A number by its last digit in base d, and its size by the others.       *)
(***************************************************************************)
LEMMA DigitsOf ==
  ASSUME NEW a \in Nat, NEW d \in Nat \ {0}
  PROVE  a = d * (a \div d) + (a % d) /\ a \div d \in Nat /\ a % d \in 0 .. d - 1
OBVIOUS

LEMMA LeadingDigits ==
  ASSUME NEW d \in Nat \ {0}, NEW n \in Nat, NEW c \in Nat, NEW r \in 0 .. d - 1
  PROVE  (c < n => d * c + r < d * n) /\ (c >= n => d * c + r >= d * n)
<1>1. CASE c < n
  <2>1. d * (n - c - 1) >= 0
    BY <1>1
  <2> QED BY <2>1, <1>1
<1>2. CASE c >= n
  <2>1. d * (c - n) >= 0
    BY <1>2
  <2> QED BY <2>1, <1>2
<1> QED BY <1>1, <1>2

LEMMA LeadingDigitsOf ==
  ASSUME NEW a \in Nat, NEW d \in Nat \ {0}, NEW n \in Nat
  PROVE  a \div d < n <=> a < n * d
<1> DEFINE c == a \div d
           r == a % d
<1>1. a = d * c + r /\ c \in Nat /\ r \in 0 .. d - 1
  BY DigitsOf
<1> HIDE DEF c, r
<1>2. (c < n => a < d * n) /\ (c >= n => a >= d * n)
  BY <1>1, LeadingDigits
<1>3. d * n \in Nat /\ d * n = n * d
  OBVIOUS
<1> QED BY <1>1, <1>2, <1>3 DEF c

(***************************************************************************)
(* The address of the old kind that Chs gives to a sector is decoded to    *)
(* that sector, or is the saturated one.                                   *)
(***************************************************************************)
LEMMA ChsIsDecoded ==
  ASSUME NEW lba \in Nat
  PROVE  IF lba < 1024 * SectorsPerCylinder THEN Decode(Chs(lba)) = lba
         ELSE Chs(lba) = Chs(1024 * SectorsPerCylinder)
<1> DEFINE per_cylinder == SectorsPerCylinder
           limit == 1024 * per_cylinder
           cylinder == lba \div per_cylinder
           remainder == lba % per_cylinder
           head == remainder \div 63
           sector == remainder % 63
<1>1. per_cylinder \in Nat \ {0} /\ limit \in Nat
  BY DEF SectorsPerCylinder
<1>2. lba = per_cylinder * cylinder + remainder /\ cylinder \in Nat /\ remainder \in Nat
  <2> HIDE DEF per_cylinder
  <2> QED BY <1>1, DigitsOf
<1>3. \A a \in Nat : a \div per_cylinder < 1024 <=> a < limit
  <2> HIDE DEF per_cylinder
  <2> QED BY <1>1, LeadingDigitsOf
<1>4. CASE lba < limit
  <2> DEFINE quarter == cylinder \div 256
             high == quarter % 4
             low == cylinder % 256
  <2>1. ~(lba \div per_cylinder > 1023)
    <3>1. cylinder < 1024
      BY <1>3, <1>4
    <3> HIDE DEF per_cylinder, cylinder
    <3>2. ~(cylinder > 1023)
      BY <1>2, <3>1
    <3> QED BY <3>2 DEF cylinder
  <2>2. Chs(lba) = <<head, sector + 1 + 64 * high, low>>
    <3>1. Chs(lba) = ChsUnlimited(lba)
      BY <2>1 DEF Chs
    <3> QED BY <3>1 DEF ChsUnlimited
  <2>3. ~(cylinder > 1023)
    BY <2>1
  <2> HIDE DEF per_cylinder, cylinder, remainder
  <2>4. remainder = 63 * head + sector /\ head \in Nat /\ sector \in 0 .. 62
    BY <1>2
  <2>5. cylinder = 256 * quarter + low /\ quarter \in 0 .. 3 /\ low \in Nat
    BY <1>2, <2>3
  <2> HIDE DEF head, sector, quarter, low
  <2>6. high = quarter
    BY <2>5
  <2> HIDE DEF high
  <2>7. /\ (sector + 1 + 64 * high) \div 64 = high
        /\ (sector + 1 + 64 * high) % 64 = sector + 1
    BY <2>4, <2>5, <2>6
  <2>8. Decode(Chs(lba)) = (low + 256 * high) * per_cylinder + 63 * head + (sector + 1) - 1
    BY <2>2, <2>7 DEF Decode, per_cylinder
  <2>9. (low + 256 * high) * per_cylinder = per_cylinder * cylinder /\ per_cylinder * cylinder \in Nat
    BY <1>1, <1>2, <2>5, <2>6
  <2> DEFINE whole == per_cylinder * cylinder
  <2> HIDE DEF whole
  <2>10. whole + 63 * head + (sector + 1) - 1 = whole + remainder
    BY <2>4, <2>9 DEF whole
  <2> QED BY <1>2, <1>4, <2>8, <2>9, <2>10 DEF whole, limit, per_cylinder
<1>5. CASE ~(lba < limit)
  <2>1. \A a \in Nat : ~(a < limit) => a \div per_cylinder > 1023
    <3> HIDE DEF per_cylinder, limit
    <3>1. \A a \in Nat : a \div per_cylinder \in Nat
      BY <1>1, DigitsOf
    <3> QED BY <1>3, <3>1
  <2>2. lba \div per_cylinder > 1023 /\ limit \div per_cylinder > 1023
    <3> HIDE DEF per_cylinder, limit
    <3> QED BY <1>1, <1>5, <2>1
  <2> QED BY <1>5, <2>2 DEF Chs
<1> QED BY <1>4, <1>5

LEMMA EntryAgrees ==
  ASSUME NEW type, NEW first \in Nat, NEW relative, NEW length \in Nat, first > 0
  PROVE  Addresses(Entry(type, first, relative, length), first)
<1>1. first \in Nat /\ first + length - 1 \in Nat
  OBVIOUS
<1>2. /\ Entry(type, first, relative, length).first = Chs(first)
      /\ Entry(type, first, relative, length).last = Chs(first + length - 1)
      /\ Entry(type, first, relative, length).sectors = length
  BY DEF Entry
<1> QED BY <1>1, <1>2, ChsIsDecoded DEF Addresses

LEMMA TableIsFound ==
  ASSUME GeometryInv, stage = "verified"
  PROVE  /\ Found = [m \in 1 .. Count(layout) |-> Area(layout.logicals[m])]
         /\ \A m \in 2 .. Count(layout) :
              Walk[m] + disk[Walk[m - 1]].link.sectors = End(layout.logicals[m])
<1> DEFINE c == Count(layout)
           p(m) == layout.logicals[m]
<1>1. layout \in Layouts /\ ValidDefinition(layout) /\ c \in Nat \ {0}
  BY AcceptedTable, LayoutFields
<1>2. \A m \in 1 .. c : /\ p(m).ebr \in Nat /\ p(m).start \in Nat /\ p(m).sectors \in Nat
                        /\ End(p(m)) = p(m).start + p(m).sectors
  BY <1>1, LayoutFields, PartitionFields
<1>3. Walk = [m \in 1 .. c + 1 |-> IF m <= c THEN p(m).ebr ELSE Nowhere]
  BY WalkFollowsTheChain DEF ChainOf
<1>4. \A m \in 1 .. c : disk[p(m).ebr] = EncodeEbr(layout, m)
  BY AcceptedTable
<1> HIDE DEF c, p
<1>5. {o \in DOMAIN Walk : Walk[o] # Nowhere} = 1 .. c
  BY <1>1, <1>2, <1>3 DEF Nowhere
<1>6. ASSUME NEW m \in 1 .. c
      PROVE  /\ Walk[m] = p(m).ebr /\ disk[Walk[m]].data.relative = p(m).start - p(m).ebr
             /\ disk[Walk[m]].data.sectors = p(m).sectors
  <2>1. Walk[m] = p(m).ebr
    BY <1>1, <1>3
  <2>2. disk[Walk[m]].data = Data(p(m))
    BY <1>4, <2>1, RecordFields DEF p
  <2> QED BY <2>1, <2>2 DEF Data, Entry
<1>7. ASSUME NEW m \in 1 .. c
      PROVE  [start |-> Walk[m] + disk[Walk[m]].data.relative,
              end |-> Walk[m] + disk[Walk[m]].data.relative + disk[Walk[m]].data.sectors]
             = Area(p(m))
  BY <1>2, <1>6 DEF Area
<1>8. Found = [m \in 1 .. c |-> Area(p(m))]
  BY <1>5, <1>7 DEF Found
<1>9. ASSUME NEW m \in 2 .. c PROVE Walk[m] + disk[Walk[m - 1]].link.sectors = End(p(m))
  <2>1. m \in 1 .. c /\ m - 1 \in 1 .. c /\ m - 1 < c /\ m - 1 + 1 = m
    BY <1>1
  <2>2. Walk[m] = p(m).ebr /\ Walk[m - 1] = p(m - 1).ebr
    BY <1>6, <2>1
  <2>3. disk[Walk[m - 1]].link = Link(layout, p(m))
    BY <1>4, <2>1, <2>2, RecordFields DEF c, p
  <2>4. disk[Walk[m - 1]].link.sectors = p(m).start - p(m).ebr + p(m).sectors
    BY <2>3 DEF Link, Entry
  <2> QED BY <1>2, <2>1, <2>2, <2>4
<1> QED BY <1>8, <1>9 DEF c, p

LEMMA TableAddressesAgree ==
  ASSUME GeometryInv, stage = "verified"
  PROVE  AddressesAgree
<1> DEFINE c == Count(layout)
           p(m) == layout.logicals[m]
<1>1. layout \in Layouts /\ ValidDefinition(layout) /\ c \in Nat \ {0}
  BY AcceptedTable, LayoutFields
<1>2. ASSUME NEW m \in DOMAIN layout.primaries
      PROVE  Addresses(disk[0].entries[m], disk[0].entries[m].relative)
  <2> DEFINE q == layout.primaries[m]
  <2>1. q.start \in Nat /\ q.sectors \in Nat /\ q.start > 0
    BY <1>1, <1>2, LayoutFields, PartitionFields
  <2>2. disk[0].entries[m] = Entry(q.type, q.start, q.start, q.sectors)
    BY <1>2, AcceptedTable DEF EncodeMbr
  <2> HIDE DEF q
  <2>3. disk[0].entries[m].relative = q.start
    BY <2>2 DEF Entry
  <2> QED BY <2>1, <2>2, <2>3, EntryAgrees
<1>3. ASSUME NEW m \in 1 .. c
      PROVE  /\ Walk[m] = p(m).ebr /\ p(m).ebr \in Nat /\ p(m).ebr > 0
             /\ p(m).start \in Nat /\ p(m).start > p(m).ebr /\ p(m).sectors \in Nat
             /\ disk[Walk[m]] = EncodeEbr(layout, m)
  <2>1. Walk[m] = p(m).ebr
    BY <1>1, WalkFollowsTheChain DEF ChainOf
  <2> QED BY <1>1, <2>1, AcceptedTable, LogicalPlace, LayoutFields, PartitionFields
<1>4. ASSUME NEW m \in 1 .. c PROVE Addresses(disk[Walk[m]].data, Found[m].start)
  <2>1. Found[m].start = p(m).start
    BY TableIsFound DEF Area
  <2>2. disk[Walk[m]].data = Data(p(m))
    BY <1>3, RecordFields
  <2> HIDE DEF p
  <2>3. disk[Walk[m]].data = Entry(p(m).type, p(m).start, p(m).start - p(m).ebr, p(m).sectors)
    BY <2>2 DEF Data
  <2>4. p(m).start > 0
    BY <1>3
  <2> QED BY <1>3, <2>1, <2>3, <2>4, EntryAgrees
<1>5. ASSUME NEW m \in 1 .. c, m < c PROVE Addresses(disk[Walk[m]].link, Walk[m + 1])
  <2> DEFINE q == p(m + 1)
  <2>1. m + 1 \in 1 .. c
    BY <1>1, <1>5
  <2>2. Walk[m + 1] = q.ebr /\ q.ebr \in Nat /\ q.ebr > 0 /\ q.start - q.ebr + q.sectors \in Nat
    BY <1>3, <2>1
  <2>3. disk[Walk[m]].link = Link(layout, q)
    BY <1>3, <1>5, RecordFields
  <2> HIDE DEF q
  <2>4. disk[Walk[m]].link =
          Entry("extended", q.ebr, q.ebr - Base(layout), q.start - q.ebr + q.sectors)
    BY <2>3 DEF Link
  <2> QED BY <2>2, <2>4, EntryAgrees
<1> QED BY <1>2, <1>4, <1>5 DEF AddressesAgree
-----------------------------------------------------------------------------
(***************************************************************************)
(* The ranges that have to be zero, on the disk that is built: a record    *)
(* and a partition each, in their order.                                   *)
(***************************************************************************)
CanonicalRanges ==
  <<[start |-> 8819678, end |-> 8819679], [start |-> 8819679, end |-> 9237366],
    [start |-> 9237366, end |-> 9237367], [start |-> 9237367, end |-> 15534846],
    [start |-> 15534846, end |-> 15534847], [start |-> 15534847, end |-> 18683584],
    [start |-> 18683584, end |-> 18683585], [start |-> 18683585, end |-> 20788098],
    [start |-> 20788098, end |-> 20788099], [start |-> 20788099, end |-> 20996942],
    [start |-> 20996942, end |-> 20996943], [start |-> 20996943, end |-> 201402368],
    [start |-> 205037595, end |-> 205037596], [start |-> 205039734, end |-> 213442678],
    [start |-> 213442678, end |-> 213442679], [start |-> 213444726, end |-> 221847670],
    [start |-> 221847670, end |-> 221847671], [start |-> 221849718, end |-> 232341622],
    [start |-> 232341622, end |-> 232341623], [start |-> 232343670, end |-> 234440822]>>
AppendedGap(k) == [start |-> CanonicalRanges[k].end, end |-> CanonicalRanges[k + 1].start]

LEMMA CanonicalIsOccupied ==
  /\ Count(Canonical) = 10
  /\ DOMAIN Occupied(Canonical) = 1 .. 20
  /\ \A k \in 1 .. 20 : Occupied(Canonical)[k] = CanonicalRanges[k]
  /\ Area(Canonical.logicals[10]) = CanonicalRanges[20]
<1>1. Count(Canonical) = 10
  BY DEF Count, Canonical
<1>2. Occupied(Canonical) =
        [k \in 1 .. 20 |-> IF (k % 2) = 1 THEN Record(Canonical.logicals[(k + 1) \div 2])
                           ELSE Area(Canonical.logicals[(k + 1) \div 2])]
  BY <1>1 DEF Occupied
<1>3. /\ Record(Canonical.logicals[1]) = CanonicalRanges[1]
      /\ Area(Canonical.logicals[1]) = CanonicalRanges[2]
  <2>1. Canonical.logicals[1] = Partition(8819679, 417687, "linux", 8819678)
    BY DEF Canonical
  <2> QED BY <2>1 DEF Partition, Record, Area, End, CanonicalRanges
<1>4. /\ Record(Canonical.logicals[2]) = CanonicalRanges[3]
      /\ Area(Canonical.logicals[2]) = CanonicalRanges[4]
  <2>1. Canonical.logicals[2] = Partition(9237367, 6297479, "linux", 9237366)
    BY DEF Canonical
  <2> QED BY <2>1 DEF Partition, Record, Area, End, CanonicalRanges
<1>5. /\ Record(Canonical.logicals[3]) = CanonicalRanges[5]
      /\ Area(Canonical.logicals[3]) = CanonicalRanges[6]
  <2>1. Canonical.logicals[3] = Partition(15534847, 3148737, "linux", 15534846)
    BY DEF Canonical
  <2> QED BY <2>1 DEF Partition, Record, Area, End, CanonicalRanges
<1>6. /\ Record(Canonical.logicals[4]) = CanonicalRanges[7]
      /\ Area(Canonical.logicals[4]) = CanonicalRanges[8]
  <2>1. Canonical.logicals[4] = Partition(18683585, 2104513, "linux", 18683584)
    BY DEF Canonical
  <2> QED BY <2>1 DEF Partition, Record, Area, End, CanonicalRanges
<1>7. /\ Record(Canonical.logicals[5]) = CanonicalRanges[9]
      /\ Area(Canonical.logicals[5]) = CanonicalRanges[10]
  <2>1. Canonical.logicals[5] = Partition(20788099, 208843, "linux", 20788098)
    BY DEF Canonical
  <2> QED BY <2>1 DEF Partition, Record, Area, End, CanonicalRanges
<1>8. /\ Record(Canonical.logicals[6]) = CanonicalRanges[11]
      /\ Area(Canonical.logicals[6]) = CanonicalRanges[12]
  <2>1. Canonical.logicals[6] = Partition(20996943, 180405425, "linux", 20996942)
    BY DEF Canonical
  <2> QED BY <2>1 DEF Partition, Record, Area, End, CanonicalRanges
<1>9. /\ Record(Canonical.logicals[7]) = CanonicalRanges[13]
      /\ Area(Canonical.logicals[7]) = CanonicalRanges[14]
  <2>1. Canonical.logicals[7] = Partition(205039734, 8402944, "linux", 205037595)
    BY DEF Canonical
  <2> QED BY <2>1 DEF Partition, Record, Area, End, CanonicalRanges
<1>10. /\ Record(Canonical.logicals[8]) = CanonicalRanges[15]
      /\ Area(Canonical.logicals[8]) = CanonicalRanges[16]
  <2>1. Canonical.logicals[8] = Partition(213444726, 8402944, "linux", 213442678)
    BY DEF Canonical
  <2> QED BY <2>1 DEF Partition, Record, Area, End, CanonicalRanges
<1>11. /\ Record(Canonical.logicals[9]) = CanonicalRanges[17]
      /\ Area(Canonical.logicals[9]) = CanonicalRanges[18]
  <2>1. Canonical.logicals[9] = Partition(221849718, 10491904, "linux", 221847670)
    BY DEF Canonical
  <2> QED BY <2>1 DEF Partition, Record, Area, End, CanonicalRanges
<1>12. /\ Record(Canonical.logicals[10]) = CanonicalRanges[19]
      /\ Area(Canonical.logicals[10]) = CanonicalRanges[20]
  <2>1. Canonical.logicals[10] = Partition(232343670, 2097152, "linux", 232341622)
    BY DEF Canonical
  <2> QED BY <2>1 DEF Partition, Record, Area, End, CanonicalRanges
<1>13. ASSUME NEW m \in 1 .. 10
       PROVE  /\ Record(Canonical.logicals[m]) = CanonicalRanges[2 * m - 1]
              /\ Area(Canonical.logicals[m]) = CanonicalRanges[2 * m]
  BY <1>3, <1>4, <1>5, <1>6, <1>7, <1>8, <1>9, <1>10, <1>11, <1>12
<1>14. ASSUME NEW k \in 1 .. 20 PROVE Occupied(Canonical)[k] = CanonicalRanges[k]
  <2> DEFINE m == (k + 1) \div 2
  <2>1. m \in 1 .. 10 /\ IF (k % 2) = 1 THEN k = 2 * m - 1 ELSE k = 2 * m
    OBVIOUS
  <2>2. Occupied(Canonical)[k] = IF (k % 2) = 1 THEN Record(Canonical.logicals[m])
                                 ELSE Area(Canonical.logicals[m])
    BY <1>2
  <2> HIDE DEF m
  <2> QED BY <1>13, <2>1, <2>2
<1> QED BY <1>1, <1>2, <1>12, <1>14

LEMMA CanonicalAscends ==
  ASSUME NEW a \in 1 .. 20, NEW b \in 1 .. 20
  PROVE  Before(CanonicalRanges, a, b) <=> a < b
<1> DEFINE s == CanonicalRanges
<1>1. \A k \in 1 .. 20 : s[k].start \in Nat
  BY DEF CanonicalRanges
<1>2. \A k \in 1 .. 19 : s[k].start < s[k + 1].start
  BY DEF CanonicalRanges
<1> HIDE DEF s
<1>3. ASSUME NEW x \in 1 .. 20, NEW y \in 1 .. 20, x < y PROVE s[x].start < s[y].start
  <2> DEFINE Amiss == {k \in 1 .. 20 : x < k /\ ~(s[x].start < s[k].start)}
  <2>1. SUFFICES ASSUME Amiss # {} PROVE FALSE
    BY <1>3
  <2>2. PICK k \in Amiss : \A z \in Amiss : k <= z
    <3>1. Amiss \in SUBSET Nat
      OBVIOUS
    <3> HIDE DEF Amiss
    <3> QED BY <2>1, <3>1, LeastNatural
  <2>3. k - 1 \in 1 .. 19 /\ k - 1 + 1 = k /\ x <= k - 1 /\ ~(k <= k - 1)
    BY <2>2
  <2>4. s[k - 1].start < s[k].start
    BY <1>2, <2>3
  <2>5. CASE x = k - 1
    BY <2>2, <2>4, <2>5
  <2>6. CASE x # k - 1
    <3>1. s[x].start < s[k - 1].start
      BY <2>2, <2>3, <2>6
    <3>2. s[x].start \in Nat /\ s[k - 1].start \in Nat /\ s[k].start \in Nat
      BY <1>1, <2>2, <2>3
    <3> QED BY <2>2, <2>4, <3>1, <3>2
  <2> QED BY <2>5, <2>6
<1>4. CASE a < b
  BY <1>3, <1>4 DEF Before, s
<1>5. CASE ~(a < b)
  <2>1. s[a].start > s[b].start \/ a = b
    BY <1>1, <1>3, <1>5
  <2>2. ~Before(s, a, b)
    <3>1. s[a].end = s[a].end /\ ~(a < b)
      BY <1>5
    <3>2. CASE a = b
      <4>1. ~(s[a].start < s[a].start) /\ ~(a < a)
        BY <1>1
      <4>2. s[a].end \in Nat
        BY DEF s, CanonicalRanges
      <4>3. ~(s[a].end < s[a].end)
        BY <4>2
      <4> QED BY <3>2, <4>1, <4>3 DEF Before
    <3>3. CASE s[a].start > s[b].start
      BY <1>1, <3>3 DEF Before
    <3> QED BY <2>1, <3>2, <3>3
  <2> QED BY <1>5, <2>2 DEF s
<1> QED BY <1>4, <1>5

LEMMA CanonicalGaps ==
  {k \in 1 .. 19 : AppendedGap(k).start < AppendedGap(k).end} = {12, 13, 15, 17, 19}
<1>1. \A k \in 1 .. 19 : /\ AppendedGap(k).start = CanonicalRanges[k].end
                         /\ AppendedGap(k).end = CanonicalRanges[k + 1].start
  BY DEF AppendedGap
<1>2. \A k \in 1 .. 19 : CanonicalRanges[k].end < CanonicalRanges[k + 1].start
                         <=> k \in {12, 13, 15, 17, 19}
  BY DEF CanonicalRanges
<1> QED BY <1>1, <1>2

LEMMA CanonicalZeroRanges ==
  ZeroRanges(Canonical) =
    {AppendedGap(k) : k \in {12, 13, 15, 17, 19}}
      \union {[start |-> 234440822, end |-> 234441648], CanonicalRanges[20]}
<1> DEFINE p(m) == Canonical.logicals[m - 4]
           Gap(from, to) == IF to > from THEN {[start |-> from, end |-> to]} ELSE {}
<1>1. /\ End(p(10)) = 201402368
      /\ p(11).ebr = 205037595 /\ p(11).start = 205039734
      /\ p(12).ebr = 213442678 /\ p(12).start = 213444726
      /\ p(13).ebr = 221847670 /\ p(13).start = 221849718
      /\ p(14).ebr = 232341622 /\ p(14).start = 232343670 /\ End(p(14)) = 234440822
  BY DEF Canonical, Partition, End
<1>2. Canonical.disk = 234441648
  BY DEF Canonical
<1>3. ZeroRanges(Canonical) =
        Gap(End(p(10)), p(11).ebr)
          \union (UNION {Gap(p(m).ebr + 1, p(m).start) : m \in 11..14})
          \union Gap(p(14).start, End(p(14))) \union Gap(End(p(14)), Canonical.disk)
  BY DEF ZeroRanges
<1> HIDE DEF p
<1>4. /\ Gap(End(p(10)), p(11).ebr) = {[start |-> 201402368, end |-> 205037595]}
      /\ Gap(p(11).ebr + 1, p(11).start) = {[start |-> 205037596, end |-> 205039734]}
      /\ Gap(p(12).ebr + 1, p(12).start) = {[start |-> 213442679, end |-> 213444726]}
      /\ Gap(p(13).ebr + 1, p(13).start) = {[start |-> 221847671, end |-> 221849718]}
      /\ Gap(p(14).ebr + 1, p(14).start) = {[start |-> 232341623, end |-> 232343670]}
      /\ Gap(p(14).start, End(p(14))) = {[start |-> 232343670, end |-> 234440822]}
      /\ Gap(End(p(14)), Canonical.disk) = {[start |-> 234440822, end |-> 234441648]}
  BY <1>1, <1>2, SMT
<1> HIDE DEF Gap
<1>5. UNION {Gap(p(m).ebr + 1, p(m).start) : m \in 11..14} =
        Gap(p(11).ebr + 1, p(11).start) \union Gap(p(12).ebr + 1, p(12).start)
          \union Gap(p(13).ebr + 1, p(13).start) \union Gap(p(14).ebr + 1, p(14).start)
  <2> DEFINE G(m) == Gap(p(m).ebr + 1, p(m).start)
  <2> HIDE DEF G
  <2>1. UNION {G(m) : m \in 11..14} = G(11) \union G(12) \union G(13) \union G(14)
    BY SMT
  <2> QED BY <2>1 DEF G
<1>6. /\ AppendedGap(12) = [start |-> 201402368, end |-> 205037595]
      /\ AppendedGap(13) = [start |-> 205037596, end |-> 205039734]
      /\ AppendedGap(15) = [start |-> 213442679, end |-> 213444726]
      /\ AppendedGap(17) = [start |-> 221847671, end |-> 221849718]
      /\ AppendedGap(19) = [start |-> 232341623, end |-> 232343670]
      /\ CanonicalRanges[20] = [start |-> 232343670, end |-> 234440822]
  BY SMT DEF AppendedGap, CanonicalRanges
<1>7. {AppendedGap(k) : k \in {12, 13, 15, 17, 19}} =
        {AppendedGap(12), AppendedGap(13), AppendedGap(15), AppendedGap(17), AppendedGap(19)}
  BY SMT
<1>8. ZeroRanges(Canonical) =
        {AppendedGap(12)} \union ({AppendedGap(13)} \union {AppendedGap(15)}
          \union {AppendedGap(17)} \union {AppendedGap(19)})
          \union {CanonicalRanges[20]} \union {[start |-> 234440822, end |-> 234441648]}
  <2> DEFINE between == UNION {Gap(p(m).ebr + 1, p(m).start) : m \in 11..14}
             first == Gap(End(p(10)), p(11).ebr)
             reserved == Gap(p(14).start, End(p(14)))
             rest == Gap(End(p(14)), Canonical.disk)
  <2>1. ZeroRanges(Canonical) = first \union between \union reserved \union rest
    BY <1>3
  <2>2. between = {AppendedGap(13)} \union {AppendedGap(15)}
                    \union {AppendedGap(17)} \union {AppendedGap(19)}
    BY <1>4, <1>5, <1>6, SMT
  <2>3. first = {AppendedGap(12)} /\ reserved = {CanonicalRanges[20]}
        /\ rest = {[start |-> 234440822, end |-> 234441648]}
    BY <1>4, <1>6, SMT
  <2> HIDE DEF between, first, reserved, rest
  <2> QED BY <2>1, <2>2, <2>3, SMT
<1>9. \A tail, g1, g2, g3, g4, g5, r :
        {g1} \union ({g2} \union {g3} \union {g4} \union {g5}) \union {r} \union {tail} =
          {g1, g2, g3, g4, g5} \union {tail, r}
  OBVIOUS
<1> QED BY <1>7, <1>8, <1>9, SMT

LEMMA ZeroRangesAreGaps == ZeroRangesAreTheGaps
<1> SUFFICES ASSUME layout = Canonical PROVE ZeroRangesAreTheGaps
  BY DEF ZeroRangesAreTheGaps
<1> DEFINE s == Occupied(Canonical)
           t == CanonicalRanges
           tail == [start |-> s[2 * Count(Canonical)].end, end |-> Canonical.disk]
           gaps == {[start |-> s[ab[1]].end, end |-> s[ab[2]].start] : ab \in Neighbours(s)}
                   \union {tail}
           last == Area(Canonical.logicals[Count(Canonical)])
<1>1. Neighbours(s) = {<<k, k + 1>> : k \in 1 .. 19}
  <2>1. \A a, b \in DOMAIN s : Before(s, a, b) <=> a < b
    <3>1. \A a, b \in DOMAIN s : Before(s, a, b) <=> Before(t, a, b)
      BY CanonicalIsOccupied DEF Before
    <3> QED BY <3>1, CanonicalIsOccupied, CanonicalAscends
  <2>2. DOMAIN s = 1 .. 20
    BY CanonicalIsOccupied
  <2> HIDE DEF s
  <2>3. Neighbours(s) = {ab \in (1 .. 20) \X (1 .. 20) :
                           ab[1] < ab[2] /\ ~\E c \in 1 .. 20 : ab[1] < c /\ c < ab[2]}
    BY <2>1, <2>2 DEF Neighbours
  <2>4. ASSUME NEW ab \in Neighbours(s) PROVE ab \in {<<k, k + 1>> : k \in 1 .. 19}
    <3>1. PICK a \in 1 .. 20, b \in 1 .. 20 : ab = <<a, b>>
      BY <2>3, <2>4
    <3>2. a < b /\ ~(a < a + 1 /\ a + 1 < b) /\ a + 1 \in 1 .. 20
      BY <2>3, <2>4, <3>1
    <3>3. b = a + 1 /\ a \in 1 .. 19
      BY <3>2
    <3> QED BY <3>1, <3>3
  <2>5. ASSUME NEW k \in 1 .. 19 PROVE <<k, k + 1>> \in Neighbours(s)
    <3>1. k \in 1 .. 20 /\ k + 1 \in 1 .. 20 /\ k < k + 1 /\ ~\E c \in 1 .. 20 : k < c /\ c < k + 1
      OBVIOUS
    <3> QED BY <2>3, <3>1
  <2> QED BY <2>4, <2>5
<1>2. s[20] = t[20] /\ Count(Canonical) = 10 /\ last = t[20]
  BY CanonicalIsOccupied
<1>3. tail = [start |-> 234440822, end |-> 234441648]
  BY <1>2 DEF CanonicalRanges, Canonical
<1>4. \A k \in 1 .. 19 : [start |-> s[k].end, end |-> s[k + 1].start] = AppendedGap(k)
  BY CanonicalIsOccupied DEF AppendedGap
<1> HIDE DEF s, t, last, tail
<1>5. gaps = {AppendedGap(k) : k \in 1 .. 19} \union {tail}
  <2>1. {[start |-> s[ab[1]].end, end |-> s[ab[2]].start] : ab \in Neighbours(s)} =
          {[start |-> s[k].end, end |-> s[k + 1].start] : k \in 1 .. 19}
    <3> DEFINE F(ab) == [start |-> s[ab[1]].end, end |-> s[ab[2]].start]
    <3>1. \A k \in 1 .. 19 : F(<<k, k + 1>>) = [start |-> s[k].end, end |-> s[k + 1].start]
      OBVIOUS
    <3> HIDE DEF F
    <3>2. {F(ab) : ab \in Neighbours(s)} = {F(<<k, k + 1>>) : k \in 1 .. 19}
      BY <1>1
    <3> QED BY <3>1, <3>2 DEF F
  <2> QED BY <1>4, <2>1
<1> HIDE DEF gaps
<1>6. {g \in gaps : g.start < g.end} = {AppendedGap(k) : k \in {12, 13, 15, 17, 19}} \union {tail}
  <2>1. tail.start < tail.end
    BY <1>3
  <2> QED BY <1>5, <2>1, CanonicalGaps
<1>7. ZeroRanges(Canonical) = {g \in gaps : g.start < g.end} \union {last}
  BY <1>2, <1>3, <1>6, CanonicalZeroRanges DEF t
<1> QED BY <1>7 DEF ZeroRangesAreTheGaps, gaps, last, tail, s
-----------------------------------------------------------------------------
(***************************************************************************)
(* A definition that passes validate_definition has no overlap, in any     *)
(* number of partitions of any size, and so the copies of the payloads     *)
(* leave the table alone: verify_table rejects only what was overwritten   *)
(* by something else.                                                      *)
(***************************************************************************)
THEOREM LayoutIsDisjoint == GeometrySpec => []GeometryIsDisjoint
<1>1. GeometryInv => ValidIsDisjoint
  BY ValidHasNoOverlap DEF GeometryInv, GeometryTypes, ValidIsDisjoint
<1>2. GeometryInv => OnlyDamageIsRejected
  BY DEF GeometryInv, TableInv, OnlyDamageIsRejected
<1>3. GeometryInv => GeometryIsDisjoint
  BY <1>1, <1>2 DEF GeometryIsDisjoint
<1> QED BY <1>3, GeometryHolds, PTL

(***************************************************************************)
(* On a disk whose table verify_table accepts, the walk along the extended *)
(* boot records finds exactly the logical partitions of the definition,    *)
(* the old addresses agree with the sectors, and what has to be zero is    *)
(* what the layout leaves over.                                            *)
(***************************************************************************)
THEOREM TableIsWalked == GeometrySpec => []GeometryIsFound
<1>1. GeometryInv => VerifiedIsFound
  BY TableIsFound DEF VerifiedIsFound
<1>2. GeometryInv => AddressesAgree
  <2>1. stage # "verified" => AddressesAgree
    BY DEF AddressesAgree
  <2> QED BY <2>1, TableAddressesAgree
<1>3. GeometryInv => GeometryIsFound
  BY <1>1, <1>2, ZeroRangesAreGaps DEF GeometryIsFound
<1> QED BY <1>3, GeometryHolds, PTL
-----------------------------------------------------------------------------
(***************************************************************************)
(* FreshFilesystem.  First the numbers: what the table of fresh_ext_spec   *)
(* has for each partition, and that mkfs.ext4 arrives at the same.         *)
(***************************************************************************)
LEMMA Tables ==
  /\ Canonical4[7] = <<393216, 98496, 8208, 32>>
  /\ Canonical4[8] = <<263064, 65808, 7312, 32>>
  /\ Canonical4[9] = <<104420, 26208, 2016, 4>>
  /\ Canonical4[10] = <<P10Blocks, P10Groups * 8160, 8160, 128>>
  /\ Canonical4[12] = <<1050368, 262944, 7968, 128>>
  /\ Canonical4[13] = <<1311488, 328000, 8000, 128>>
BY DEF Canonical4, ExtNumbers

LEMMA Sizes ==
  /\ Number(3).sectors = 2104514
  /\ Number(7).sectors = 3148737 /\ Number(8).sectors = 2104513 /\ Number(9).sectors = 208843
  /\ Number(10).sectors = 180405425 /\ Number(12).sectors = 8402944
  /\ Number(13).sectors = 10491904
BY DEF Number, Canonical, Partition

LEMMA P10Numbers == P10Blocks = 22550678 /\ P10Groups = 689
BY Sizes DEF P10Blocks, P10Groups, CeilDiv, Sectors

\* The values of a file system as fresh_ext_spec has them.
SpecNumbers(n, blocks, inodes, per_group, journal) ==
  LET s == FreshExtSpec(n) IN
  /\ s.block_count = blocks /\ s.inode_count = inodes
  /\ s.inodes_per_group = per_group /\ s.journal_mb = journal
LEMMA SpecIs ==
  /\ SpecNumbers(7, 393216, 98496, 8208, 32) /\ SpecNumbers(8, 263064, 65808, 7312, 32)
  /\ SpecNumbers(9, 104420, 26208, 2016, 4) /\ SpecNumbers(10, 22550678, 5622240, 8160, 128)
  /\ SpecNumbers(12, 1050368, 262944, 7968, 128) /\ SpecNumbers(13, 1311488, 328000, 8000, 128)
<1>1. P10Groups * 8160 = 5622240
  BY P10Numbers
<1> QED BY <1>1, Tables, P10Numbers DEF SpecNumbers, FreshExtSpec

LEMMA SpecHas ==
  ASSUME NEW n \in ExtNumbers
  PROVE  LET s == FreshExtSpec(n) IN
         /\ s.block_size = IF n = 9 THEN 1024 ELSE 4096
         /\ s.blocks_per_group = IF n = 9 THEN 8192 ELSE 32768
         /\ s.inode_size = IF n = 9 THEN 128 ELSE 256
         /\ s.features = <<60, 578, IF n = 9 THEN 121 ELSE 123>>
         /\ s.mount_options = 0
         /\ s.min_extra = (IF n = 9 THEN 0 ELSE 28) /\ s.want_extra = (IF n = 9 THEN 0 ELSE 28)
BY DEF FreshExtSpec

LEMMA BitsAre == \A n \in ExtNumbers : Bits(Features(n)) = FreshExtSpec(n).features
<1>1. ASSUME NEW n \in ExtNumbers PROVE Bits(Features(n)) = <<60, 578, IF n = 9 THEN 121 ELSE 123>>
  BY DEF Bits, Features
<1> QED BY <1>1, SpecHas

\* What mkfs.ext4 makes of the canonical numbers.
Rounds(n) ==
  LET s == FreshExtSpec(n)
      groups == CeilDiv(s.block_count - FirstBlock(s.block_size), s.blocks_per_group)
  IN /\ RoundInodes(s.inode_count, groups, s.inode_size, s.block_size) = s.inodes_per_group
     /\ groups * s.inodes_per_group = s.inode_count
     /\ CutLastGroup(s.block_count, s, s.inodes_per_group) = s.block_count
     /\ s.block_count > 0 /\ s.block_count * Sectors(s.block_size) <= Number(n).sectors

LEMMA NumbersRound == \A n \in ExtNumbers : Rounds(n)
<1>1. Rounds(7)
  BY SpecIs, SpecHas, Sizes
  DEF SpecNumbers, Rounds, ExtNumbers, CeilDiv, FirstBlock, RoundInodes, CutLastGroup, Sectors, Backups
<1>2. Rounds(8)
  BY SpecIs, SpecHas, Sizes
  DEF SpecNumbers, Rounds, ExtNumbers, CeilDiv, FirstBlock, RoundInodes, CutLastGroup, Sectors, Backups
<1>3. Rounds(9)
  BY SpecIs, SpecHas, Sizes
  DEF SpecNumbers, Rounds, ExtNumbers, CeilDiv, FirstBlock, RoundInodes, CutLastGroup, Sectors, Backups
<1>4. Rounds(10)
  BY SpecIs, SpecHas, Sizes
  DEF SpecNumbers, Rounds, ExtNumbers, CeilDiv, FirstBlock, RoundInodes, CutLastGroup, Sectors, Backups
<1>5. Rounds(12)
  BY SpecIs, SpecHas, Sizes
  DEF SpecNumbers, Rounds, ExtNumbers, CeilDiv, FirstBlock, RoundInodes, CutLastGroup, Sectors, Backups
<1>6. Rounds(13)
  BY SpecIs, SpecHas, Sizes
  DEF SpecNumbers, Rounds, ExtNumbers, CeilDiv, FirstBlock, RoundInodes, CutLastGroup, Sectors, Backups
<1> QED BY <1>1, <1>2, <1>3, <1>4, <1>5, <1>6 DEF ExtNumbers

(***************************************************************************)
(* A superblock, and what is left of it when it is read.                   *)
(***************************************************************************)
Plain ==
  {"clean", "uuid", "block_count", "reserved", "blocks_per_group", "inodes_per_group",
   "inode_count", "inode_size", "features", "mount_options", "min_extra", "want_extra",
   "journal_inode"}
Fields == Plain \union {"magic", "shift", "first", "journal_mb", "journal_at"}
Right(n) == <<IF n = 9 THEN 2048 ELSE 4096, 7>>
MadeCanonical(n) == Mke2fs(FreshExtSpec(n), FreshExtSpec(n).block_count, FreshExtSpec(n).inode_count, Features(n))

\* What all deviations leave: numbers only grow, and a place becomes no place.
Superblock(r, n) ==
  /\ DOMAIN r = Fields
  /\ r.magic \in BOOLEAN /\ r.clean \in BOOLEAN
  /\ r.shift \in Nat /\ r.first \in Nat /\ FirstBlock(FreshExtSpec(n).block_size) <= r.first
  /\ r.journal_inode \in Nat /\ 8 <= r.journal_inode
  /\ r.journal_mb \in Nat /\ FreshExtSpec(n).journal_mb <= r.journal_mb
  /\ r.journal_at \in {Right(n), <<0, 0, 0>>}

LEMMA ShiftIs == \A n \in ExtNumbers :
  /\ Shift(FreshExtSpec(n).block_size) = IF n = 9 THEN 0 ELSE 2
  /\ FirstBlock(FreshExtSpec(n).block_size) = IF n = 9 THEN 1 ELSE 0
<1>1. Shift(1024) = 0 /\ Shift(4096) = 2
  BY DEF Shift, BlockSizes
<1> QED BY <1>1, SpecHas DEF FirstBlock

LEMMA ShiftTells ==
  ASSUME NEW n \in ExtNumbers, NEW k \in 0 .. 6, BlockSizes[k + 1] = FreshExtSpec(n).block_size
  PROVE  k = Shift(FreshExtSpec(n).block_size)
BY SpecHas, ShiftIs DEF BlockSizes

MadeAsAsked(r, n) ==
  LET s == FreshExtSpec(n) IN
  /\ Superblock(r, n) /\ r.magic = TRUE /\ r.clean = TRUE /\ r.uuid = "asked"
  /\ r.shift = Shift(s.block_size) /\ r.first = FirstBlock(s.block_size)
  /\ r.journal_inode = 8 /\ r.journal_mb = s.journal_mb /\ r.journal_at = Right(n)
  /\ r.blocks_per_group = s.blocks_per_group /\ r.inode_size = s.inode_size
  /\ r.features = s.features

LEMMA MadeIs ==
  ASSUME NEW n \in ExtNumbers, NEW blocks, NEW wanted
  PROVE  MadeAsAsked(Mke2fs(FreshExtSpec(n), blocks, wanted, Features(n)), n)
<1> DEFINE r == Mke2fs(FreshExtSpec(n), blocks, wanted, Features(n))
           s == FreshExtSpec(n)
<1>1. DOMAIN r = Fields
  BY DEF Mke2fs, Fields, Plain
<1>2. /\ r.magic = TRUE /\ r.clean = TRUE /\ r.uuid = "asked"
      /\ r.shift = Shift(s.block_size) /\ r.first = FirstBlock(s.block_size)
      /\ r.journal_inode = 8 /\ r.journal_mb = s.journal_mb
      /\ r.blocks_per_group = s.blocks_per_group /\ r.inode_size = s.inode_size
      /\ r.features = Bits(Features(n))
      /\ r.journal_at = <<IF s.block_size = 1024 THEN 2048 ELSE s.block_size, 7>>
  BY DEF Mke2fs
<1>3. r.journal_at = Right(n)
  BY <1>2, SpecHas DEF Right
<1>4. s.journal_mb \in Nat
  BY SpecIs DEF SpecNumbers, ExtNumbers
<1>5. r.shift \in Nat /\ r.first \in Nat /\ FirstBlock(s.block_size) <= r.first
  BY <1>2, ShiftIs
<1>6. r.features = s.features
  BY <1>2, BitsAre
<1> HIDE DEF r, s
<1>7. r.magic \in BOOLEAN /\ r.clean \in BOOLEAN
  BY <1>2
<1>8. r.journal_inode \in Nat /\ 8 <= r.journal_inode /\ r.journal_mb \in Nat /\ s.journal_mb <= r.journal_mb
  BY <1>2, <1>4
<1>9. Superblock(r, n)
  BY <1>1, <1>3, <1>5, <1>7, <1>8 DEF Superblock, s
<1> QED BY <1>2, <1>3, <1>6, <1>9 DEF MadeAsAsked, s, r

\* mkfs.ext4 arrives at the numbers that fresh_ext_spec has.
LEMMA MadeAsSpecified ==
  ASSUME NEW n \in ExtNumbers
  PROVE  LET s == FreshExtSpec(n) IN
         /\ MadeCanonical(n).block_count = s.block_count /\ MadeCanonical(n).reserved = (s.block_count * 5) \div 100
         /\ MadeCanonical(n).inodes_per_group = s.inodes_per_group /\ MadeCanonical(n).inode_count = s.inode_count
BY NumbersRound DEF Rounds, MadeCanonical, Mke2fs

LEMMA ParseIs ==
  ASSUME NEW r, DOMAIN r = Fields
  PROVE  /\ \A f \in Plain : Parse(r)[f] = r[f]
         /\ Parse(r).block_size = BlockSizes[r.shift + 1]
         /\ Parse(r).journal_mb =
              IF r.journal_inode = 0 THEN 0
              ELSE IF JournalAt(r, BlockSizes[r.shift + 1]) = r.journal_at THEN r.journal_mb
              ELSE r.journal_mb + 7
BY DEF Parse, Fields, Plain

LEMMA DeviantIs ==
  ASSUME NEW n \in ExtNumbers, NEW r, Superblock(r, n), NEW f \in Fields, NEW d \in Deviants(r, f)
  PROVE  Superblock(d, n)
<1>1. PICK wrong \in Wrongs(f, r[f]) : d = [r EXCEPT ![f] = wrong]
  BY DEF Deviants
<1>2. DOMAIN d = Fields /\ (\A g \in Fields \ {f} : d[g] = r[g]) /\ d[f] \in Wrongs(f, r[f])
  BY <1>1 DEF Superblock
<1>3. FreshExtSpec(n).journal_mb \in Nat /\ FirstBlock(FreshExtSpec(n).block_size) \in Nat
  BY SpecIs, ShiftIs DEF SpecNumbers, ExtNumbers
<1>4. d.magic \in BOOLEAN /\ d.clean \in BOOLEAN
  BY <1>2 DEF Wrongs, Superblock, Fields, Plain
<1>5. /\ d.shift \in Nat /\ d.first \in Nat /\ FirstBlock(FreshExtSpec(n).block_size) <= d.first
      /\ d.journal_inode \in Nat /\ 8 <= d.journal_inode
      /\ d.journal_mb \in Nat /\ FreshExtSpec(n).journal_mb <= d.journal_mb
  BY <1>2, <1>3 DEF Wrongs, Superblock, Fields, Plain
<1>6. d.journal_at \in {Right(n), <<0, 0, 0>>}
  BY <1>2 DEF Wrongs, Superblock, Fields, Plain
<1> QED BY <1>2, <1>4, <1>5, <1>6 DEF Superblock

(***************************************************************************)
(* What the two places accept.  The verifier asks for nothing that         *)
(* create_legacy_ext has not asked for, but for a clean file system; and   *)
(* what it accepts is what mkfs.ext4 makes, in each field.                 *)
(***************************************************************************)
LEMMA CreatedIsVerified ==
  ASSUME number \in ExtNumbers, NEW r, DOMAIN r = Fields, IsCanonical,
         Created(Parse(r)), r.clean
  PROVE  Verified(Parse(r))
<1> DEFINE p == Parse(r)
           s == FreshExtSpec(number)
<1>1. p.clean
  BY ParseIs DEF Plain
<1> HIDE DEF p, s
<1>2. /\ p.block_count = s.block_count /\ p.reserved = (s.block_count * 5) \div 100
      /\ p.journal_mb = s.journal_mb /\ \A f \in Always : p[f] = s[f]
      /\ p.inode_count = s.inode_count /\ p.inodes_per_group = s.inodes_per_group
      /\ FilesystemSectors(p) <= PartitionSize
  BY DEF Created, AsAsked, BlockCount, IsCanonical, Agree, p, s
<1>3. FilesystemSectors(p) = s.block_count * Sectors(s.block_size)
  BY <1>2 DEF FilesystemSectors, Always
<1> QED BY <1>1, <1>2, <1>3 DEF Verified, AsDefined, Agree, Always, p, s

LEMMA JournalIsFound ==
  ASSUME NEW n \in ExtNumbers, NEW r, Superblock(r, n),
         r.inodes_per_group = FreshExtSpec(n).inodes_per_group,
         JournalAt(r, FreshExtSpec(n).block_size) = r.journal_at
  PROVE  /\ r.first = FirstBlock(FreshExtSpec(n).block_size) /\ r.journal_inode = 8
         /\ r.journal_at = Right(n)
<1> DEFINE g == r.inodes_per_group
           b == FreshExtSpec(n).block_size
           q == (r.journal_inode - 1) \div g
           m == (r.journal_inode - 1) % g
<1>1. g \in Nat /\ g > 0
  BY SpecIs DEF SpecNumbers, ExtNumbers
<1>2. /\ r.first \in Nat /\ FirstBlock(b) <= r.first
      /\ r.journal_inode \in Nat /\ 8 <= r.journal_inode
      /\ r.journal_at \in {Right(n), <<0, 0, 0>>}
      /\ r.journal_at = <<(r.first + 1) * b + q * 32, m>>
  BY DEF Superblock, JournalAt
<1>3. q \in Nat /\ m \in Nat /\ r.journal_inode - 1 = g * q + m
  <2> DEFINE a == r.journal_inode - 1
  <2>1. a \in Nat
    BY <1>2
  <2> HIDE DEF a, g
  <2>2. a = g * (a \div g) + (a % g) /\ a \div g \in Nat /\ a % g \in 0 .. g - 1
    BY <1>1, <2>1, DigitsOf
  <2> QED BY <2>2 DEF a
<1> HIDE DEF g, b, q, m
<1>4. r.journal_at = Right(n)
  BY <1>2 DEF Right
<1>5. m = 7 /\ (r.first + 1) * b + q * 32 = IF n = 9 THEN 2048 ELSE 4096
  BY <1>2, <1>4 DEF Right
<1>6. r.first = FirstBlock(b) /\ q = 0
  <2>1. CASE n = 9
    <3>1. b = 1024 /\ FirstBlock(b) = 1
      BY <2>1, SpecHas, ShiftIs DEF b
    <3> QED BY <1>2, <1>3, <1>5, <2>1, <3>1
  <2>2. CASE n # 9
    <3>1. b = 4096 /\ FirstBlock(b) = 0
      BY <2>2, SpecHas, ShiftIs DEF b
    <3> QED BY <1>2, <1>3, <1>5, <2>2, <3>1
  <2> QED BY <2>1, <2>2
<1>7. g * q = 0
  BY <1>1, <1>6
<1> QED BY <1>2, <1>3, <1>4, <1>5, <1>6, <1>7 DEF b

LEMMA VerifiedIsMade ==
  ASSUME number \in ExtNumbers, NEW r, Superblock(r, number), Parses(r), Verified(Parse(r))
  PROVE  LET s == FreshExtSpec(number) IN
         /\ \A f \in Fields \ {"uuid", "mount_options", "min_extra", "want_extra"} :
              r[f] = MadeCanonical(number)[f]
         /\ Agree(r, s, {"mount_options", "min_extra", "want_extra"})
         /\ s.block_count * Sectors(s.block_size) <= Number(number).sectors
<1> DEFINE p == Parse(r)
           s == FreshExtSpec(number)
           made == MadeCanonical(number)
<1>1. /\ DOMAIN r = Fields /\ r.shift \in 0 .. 6 /\ r.magic = TRUE
      /\ r.journal_mb \in Nat /\ s.journal_mb \in Nat /\ s.journal_mb <= r.journal_mb
      /\ s.journal_mb > 0
  BY SpecIs DEF Superblock, Parses, SpecNumbers, ExtNumbers
<1>2. /\ \A f \in Plain : p[f] = r[f]
      /\ p.block_size = BlockSizes[r.shift + 1]
      /\ p.journal_mb = IF r.journal_inode = 0 THEN 0
                        ELSE IF JournalAt(r, BlockSizes[r.shift + 1]) = r.journal_at THEN r.journal_mb
                        ELSE r.journal_mb + 7
  BY <1>1, ParseIs
<1> HIDE DEF p, s, made
<1>3. /\ \A f \in Always : p[f] = s[f]
      /\ p.inode_count = s.inode_count /\ p.block_count = s.block_count
      /\ p.inodes_per_group = s.inodes_per_group /\ p.journal_mb = s.journal_mb
      /\ p.clean /\ p.reserved = (s.block_count * 5) \div 100
      /\ FilesystemSectors(p) = s.block_count * Sectors(s.block_size)
      /\ FilesystemSectors(p) <= PartitionSize
  BY DEF Verified, AsDefined, Agree, p, s
<1>4. /\ r.blocks_per_group = s.blocks_per_group /\ r.inode_size = s.inode_size
      /\ r.features = s.features /\ r.mount_options = s.mount_options
      /\ r.min_extra = s.min_extra /\ r.want_extra = s.want_extra
      /\ r.inode_count = s.inode_count /\ r.block_count = s.block_count
      /\ r.inodes_per_group = s.inodes_per_group /\ r.clean
      /\ r.reserved = (s.block_count * 5) \div 100
  BY <1>2, <1>3 DEF Plain, Always
<1>5. BlockSizes[r.shift + 1] = s.block_size
  BY <1>2, <1>3 DEF Always
<1>6. r.shift = Shift(s.block_size)
  BY <1>1, <1>5, ShiftTells DEF s
<1>7. JournalAt(r, s.block_size) = r.journal_at /\ r.journal_mb = s.journal_mb
  BY <1>1, <1>2, <1>3, <1>5
<1>8. /\ r.first = FirstBlock(s.block_size) /\ r.journal_inode = 8
      /\ r.journal_at = Right(number)
  BY <1>4, <1>7, JournalIsFound DEF s
<1>9. r.clean = TRUE
  BY <1>4 DEF Superblock
<1>10. /\ made.magic = TRUE /\ made.clean = TRUE /\ made.shift = Shift(s.block_size)
       /\ made.first = FirstBlock(s.block_size) /\ made.journal_inode = 8
       /\ made.journal_mb = s.journal_mb /\ made.journal_at = Right(number)
       /\ made.blocks_per_group = s.blocks_per_group /\ made.inode_size = s.inode_size
       /\ made.features = s.features
  <2>1. made = Mke2fs(s, s.block_count, s.inode_count, Features(number))
    BY DEF made, MadeCanonical, s
  <2>2. MadeAsAsked(made, number)
    BY <2>1, MadeIs DEF s
  <2> QED BY <2>2 DEF MadeAsAsked, s
<1>11. /\ made.block_count = s.block_count /\ made.reserved = (s.block_count * 5) \div 100
       /\ made.inodes_per_group = s.inodes_per_group /\ made.inode_count = s.inode_count
  BY MadeAsSpecified DEF made, s
<1>12. \A f \in Fields \ {"uuid", "mount_options", "min_extra", "want_extra"} : r[f] = made[f]
  <2>1. \A f \in {"magic", "clean", "shift", "first", "journal_inode", "journal_mb", "journal_at"} :
          r[f] = made[f]
    BY <1>1, <1>6, <1>7, <1>8, <1>9, <1>10
  <2>2. \A f \in {"blocks_per_group", "inode_size", "features", "block_count", "reserved",
                  "inodes_per_group", "inode_count"} : r[f] = made[f]
    BY <1>4, <1>10, <1>11
  <2> QED BY <2>1, <2>2 DEF Fields, Plain
<1>13. Agree(r, s, {"mount_options", "min_extra", "want_extra"})
  BY <1>4 DEF Agree
<1> QED BY <1>3, <1>12, <1>13 DEF made, s, PartitionSize

(***************************************************************************)
(* The invariant: what deviations leave of a superblock or a swap header   *)
(* (MadeInv), what the verifier found (VerdictInv), and what there is      *)
(* when nothing has deviated (UndeviatedInv).                             *)
(***************************************************************************)
Normal3 == {"mount_options", "min_extra", "want_extra"}
SwapFields == {"signature", "version", "last_page", "bad_pages", "uuid"}

\* As mkfs.ext4 makes it, and debugfs leaves it once the fields `left' are set.
AsMade(r, left) ==
  /\ DOMAIN r = Fields
  /\ \A f \in Fields \ Normal3 : r[f] = MadeCanonical(number)[f]
  /\ \A f \in Normal3 \ left : r[f] = FreshExtSpec(number)[f]

Accepted ==
  IF number = Swap THEN SwapVerified(super)
  ELSE Parses(super) /\ Verified(Parse(super))

PlaceInv ==
  /\ number \in {Swap} \union ExtNumbers /\ deviations \in Nat
  /\ number = Swap => size = PartitionSize
  /\ doing \in {"check", "copy", "verify", "verified", "rejected", "failed"}
       \union (IF number = Swap THEN {"mkswap", "compareSwap"}
               ELSE {"mkfs", "normalize", "compare", "fsck"})
  /\ todo \subseteq Normal3 /\ (doing = "compare" => todo = {})

MadeInv ==
  doing \in {"normalize", "compare", "compareSwap", "fsck", "copy", "verify", "verified", "rejected"} =>
    IF number = Swap THEN DOMAIN super = SwapFields /\ super.signature \in BOOLEAN
    ELSE Superblock(super, number)

VerdictInv == (doing = "verified" => Accepted) /\ (doing = "rejected" => ~Accepted)

UndeviatedInv ==
  deviations = 0 /\ IsCanonical =>
    /\ doing \notin {"failed", "rejected"}
    /\ doing = "normalize" => AsMade(super, todo)
    /\ doing \in {"compare", "fsck", "copy", "verify"} /\ number # Swap => AsMade(super, {})
    /\ doing \in {"compareSwap", "copy", "verify"} /\ number = Swap => super = Mkswap(size)

FreshInv == PlaceInv /\ MadeInv /\ VerdictInv /\ UndeviatedInv

LEMMA SwapIsNotExt == Swap = 3 /\ Swap \notin ExtNumbers
BY DEF Swap, ExtNumbers

LEMMA MkswapIs ==
  /\ DOMAIN Mkswap(size) = SwapFields /\ Mkswap(size).signature = TRUE
  /\ SwapCreated(Mkswap(size)) /\ (size = PartitionSize => SwapVerified(Mkswap(size)))
BY DEF Mkswap, SwapFields, SwapHeader, SwapCreated, SwapVerified

LEMMA DeviantSwapIs ==
  ASSUME NEW r, DOMAIN r = SwapFields, r.signature \in BOOLEAN, NEW f \in SwapFields,
         NEW d \in Deviants(r, f)
  PROVE  DOMAIN d = SwapFields /\ d.signature \in BOOLEAN
<1>1. PICK wrong \in Wrongs(f, r[f]) : d = [r EXCEPT ![f] = wrong]
  BY DEF Deviants
<1> QED BY <1>1 DEF Wrongs, SwapFields

\* What nothing has deviated from is accepted in both places.
LEMMA HonestIsCreated ==
  ASSUME number \in ExtNumbers, IsCanonical, NEW r, AsMade(r, {})
  PROVE  /\ Superblock(r, number) /\ Parses(r) /\ Created(Parse(r)) /\ r.clean
         /\ Verified(Parse(r))
<1> DEFINE made == MadeCanonical(number)
           s == FreshExtSpec(number)
           p == Parse(r)
<1>1. MadeAsAsked(made, number)
  BY MadeIs DEF MadeCanonical
<1>2. /\ made.block_count = s.block_count /\ made.reserved = (s.block_count * 5) \div 100
      /\ made.inodes_per_group = s.inodes_per_group /\ made.inode_count = s.inode_count
  BY MadeAsSpecified
<1> HIDE DEF made, s, p
<1>3. /\ \A f \in Fields \ Normal3 : r[f] = made[f]
      /\ \A f \in Normal3 : r[f] = s[f]
      /\ DOMAIN r = Fields
  BY DEF AsMade, made, s
<1>4. /\ r.magic = TRUE /\ r.clean = TRUE /\ r.uuid = "asked"
      /\ r.shift = Shift(s.block_size) /\ r.first = FirstBlock(s.block_size)
      /\ r.journal_inode = 8 /\ r.journal_mb = s.journal_mb /\ r.journal_at = Right(number)
      /\ r.blocks_per_group = s.blocks_per_group /\ r.inode_size = s.inode_size
      /\ r.features = s.features
      /\ r.block_count = s.block_count /\ r.reserved = (s.block_count * 5) \div 100
      /\ r.inodes_per_group = s.inodes_per_group /\ r.inode_count = s.inode_count
      /\ r.mount_options = s.mount_options /\ r.min_extra = s.min_extra
      /\ r.want_extra = s.want_extra
  BY <1>1, <1>2, <1>3 DEF MadeAsAsked, Fields, Plain, Normal3, s
<1>5. Superblock(r, number)
  <2>1. Superblock(made, number)
    BY <1>1 DEF MadeAsAsked
  <2>2. \A f \in {"magic", "clean", "shift", "first", "journal_inode", "journal_mb", "journal_at"} :
          r[f] = made[f]
    BY <1>3 DEF Fields, Plain, Normal3
  <2> QED BY <1>3, <2>1, <2>2 DEF Superblock
<1>6. /\ BlockSizes[r.shift + 1] = s.block_size /\ r.shift <= 6
      /\ JournalAt(r, s.block_size) = r.journal_at
      /\ r.inode_size >= 128 /\ r.inodes_per_group > 0
  <2>1. s.inodes_per_group \in {8208, 7312, 2016, 8160, 7968, 8000}
    BY SpecIs DEF SpecNumbers, ExtNumbers, s
  <2>2. CASE number = 9
    <3>1. s.block_size = 1024 /\ r.shift = 0 /\ r.first = 1 /\ r.inode_size = 128
      BY <1>4, <2>2, SpecHas, ShiftIs DEF s
    <3> QED BY <1>4, <2>1, <2>2, <3>1 DEF BlockSizes, JournalAt, Right
  <2>3. CASE number # 9
    <3>1. s.block_size = 4096 /\ r.shift = 2 /\ r.first = 0 /\ r.inode_size = 256
      BY <1>4, <2>3, SpecHas, ShiftIs DEF s
    <3> QED BY <1>4, <2>1, <2>3, <3>1 DEF BlockSizes, JournalAt, Right
  <2> QED BY <2>2, <2>3
<1>7. Parses(r)
  BY <1>4, <1>6 DEF Parses
<1>8. /\ \A f \in Plain : p[f] = r[f]
      /\ p.block_size = s.block_size /\ p.journal_mb = s.journal_mb
  BY <1>3, <1>4, <1>6, ParseIs DEF p
<1>9. Created(p)
  <2>1. p.block_count = BlockCount /\ p.reserved = (BlockCount * 5) \div 100
    BY <1>4, <1>8 DEF BlockCount, Plain, s
  <2>2. Agree(p, s, Always) /\ Agree(p, s, {"inode_count", "inodes_per_group"})
    BY <1>4, <1>8 DEF Agree, Always, Plain
  <2>3. FilesystemSectors(p) <= size
    <3>1. s.block_count * Sectors(s.block_size) <= PartitionSize
      BY NumbersRound DEF Rounds, PartitionSize, s
    <3> QED BY <1>4, <1>8, <3>1 DEF FilesystemSectors, IsCanonical, Plain
  <2>4. p.uuid = "asked"
    BY <1>4, <1>8 DEF Plain
  <2> QED BY <1>8, <2>1, <2>2, <2>3, <2>4 DEF Created, AsAsked, s
<1>10. Verified(p)
  BY <1>3, <1>4, <1>9, CreatedIsVerified DEF p
<1> QED BY <1>4, <1>5, <1>7, <1>9, <1>10 DEF p

LEMMA FreshStarts == FreshInit => FreshInv
BY SwapIsNotExt DEF FreshInit, FreshInv, PlaceInv, MadeInv, VerdictInv, UndeviatedInv, NotMade

\* What a step that only moves on leaves as it is.
LEMMA StillIs ==
  ASSUME Still
  PROVE  /\ number' = number /\ size' = size /\ super' = super /\ todo' = todo
         /\ deviations' = deviations
         /\ PartitionSize' = PartitionSize
         /\ IsCanonical' <=> IsCanonical
         /\ Accepted' <=> Accepted
         /\ AsMade(super, todo)' <=> AsMade(super, todo)
         /\ AsMade(super, {})' <=> AsMade(super, {})
<1>1. /\ number' = number /\ size' = size /\ super' = super /\ todo' = todo
      /\ deviations' = deviations
  BY DEF Still
<1>2. PartitionSize' = PartitionSize
  BY <1>1 DEF PartitionSize
<1>3. IsCanonical' <=> IsCanonical
  BY <1>1, <1>2 DEF IsCanonical
<1>4. Verified(Parse(super))' <=> Verified(Parse(super))
  BY <1>1, <1>2 DEF Verified, AsDefined
<1>5. Accepted' <=> Accepted
  BY <1>1, <1>2, <1>4 DEF Accepted, SwapVerified
<1>6. /\ AsMade(super, todo)' <=> AsMade(super, todo)
      /\ AsMade(super, {})' <=> AsMade(super, {})
  BY <1>1 DEF AsMade
<1> QED BY <1>1, <1>2, <1>3, <1>5, <1>6

LEMMA CheckFreshKeeps == FreshInv /\ CheckFresh => FreshInv'
<1> SUFFICES ASSUME FreshInv, CheckFresh PROVE FreshInv'
  OBVIOUS
<1>1. /\ number' = number /\ size' = size /\ super' = super /\ todo' = todo
      /\ deviations' = deviations /\ PartitionSize' = PartitionSize
      /\ (IsCanonical' <=> IsCanonical)
  BY StillIs DEF CheckFresh
<1>2. doing = "check" /\ doing' \in {"mkswap", "mkfs", "failed"}
      /\ (doing' = "mkswap" <=> number = Swap)
  BY DEF CheckFresh, Moves
<1>3. PlaceInv'
  BY <1>1, <1>2, SwapIsNotExt DEF FreshInv, PlaceInv
<1>4. ASSUME IsCanonical, number \in ExtNumbers PROVE doing' = "mkfs"
  <2> DEFINE s == FreshExtSpec(number)
             b == s.block_count
             k == Sectors(s.block_size)
  <2>1. b > 0 /\ b * k <= PartitionSize
    BY <1>4, NumbersRound DEF Rounds, PartitionSize
  <2>2. BlockCount = b /\ size = PartitionSize
    BY <1>4 DEF BlockCount, IsCanonical
  <2>3. PartitionSize > 0 /\ PartitionSize \in Nat
    BY <1>4, Sizes DEF PartitionSize, ExtNumbers
  <2>4. b \in Nat
    BY <1>4, SpecIs DEF SpecNumbers, ExtNumbers
  <2>5. k \in Nat
    BY <1>4, SpecHas DEF Sectors
  <2>6. b * k \in Nat
    BY <2>4, <2>5
  <2>7. doing' = IF \/ size <= 0 \/ BlockCount <= 0 \/ BlockCount * k > size
                 THEN "failed" ELSE "mkfs"
    BY <1>4, SwapIsNotExt DEF CheckFresh, Moves
  <2> HIDE DEF b, k, s
  <2> QED BY <2>1, <2>2, <2>3, <2>4, <2>6, <2>7
<1>5. MadeInv' /\ VerdictInv'
  BY <1>2 DEF MadeInv, VerdictInv
<1>6. UndeviatedInv'
  BY <1>1, <1>2, <1>4 DEF UndeviatedInv, FreshInv, PlaceInv
<1> QED BY <1>3, <1>5, <1>6 DEF FreshInv

LEMMA MkfsKeeps == FreshInv /\ Mkfs => FreshInv'
<1> SUFFICES ASSUME FreshInv, Mkfs PROVE FreshInv'
  OBVIOUS
<1> DEFINE wanted == IF IsCanonical THEN FreshExtSpec(number).inode_count ELSE CeilDiv(BlockCount, 4)
           made == Mke2fs(FreshExtSpec(number), BlockCount, wanted, Features(number))
<1>1. /\ doing = "mkfs" /\ doing' = "normalize" /\ number' = number /\ size' = size
      /\ todo' = Normal3 /\ deviations' \in {deviations, deviations + 1}
      /\ \/ super' = made
         \/ deviations' = deviations + 1 /\ \E f \in DOMAIN made : super' \in Deviants(made, f)
  BY DEF Mkfs, Moves, Normal3
<1>2. number \in ExtNumbers /\ deviations \in Nat
  BY <1>1 DEF FreshInv, PlaceInv
<1>3. MadeAsAsked(made, number)
  BY <1>2, MadeIs
<1>4. (IsCanonical' <=> IsCanonical) /\ (IsCanonical => made = MadeCanonical(number))
  <2>1. PartitionSize' = PartitionSize
    BY <1>1 DEF PartitionSize
  <2> QED BY <1>1, <2>1 DEF IsCanonical, MadeCanonical, BlockCount
<1> HIDE DEF made
<1>5. Superblock(made, number) /\ DOMAIN made = Fields
  BY <1>3 DEF MadeAsAsked, Superblock
<1>6. Superblock(super', number)
  BY <1>1, <1>2, <1>5, DeviantIs
<1>7. PlaceInv'
  BY <1>1, <1>2, SwapIsNotExt DEF PlaceInv
<1>8. MadeInv'
  BY <1>1, <1>2, <1>6, SwapIsNotExt DEF MadeInv
<1>9. UndeviatedInv'
  <2> SUFFICES ASSUME deviations' = 0, IsCanonical' PROVE AsMade(super, todo)'
    BY <1>1 DEF UndeviatedInv
  <2>1. super' = MadeCanonical(number)
    BY <1>1, <1>2, <1>4
  <2>2. DOMAIN super' = Fields
    BY <1>6 DEF Superblock
  <2> QED BY <1>1, <2>1, <2>2 DEF AsMade
<1>10. VerdictInv'
  BY <1>1 DEF VerdictInv
<1> QED BY <1>7, <1>8, <1>9, <1>10 DEF FreshInv

LEMMA SetFieldKeeps == FreshInv /\ SetField => FreshInv'
<1> SUFFICES ASSUME FreshInv, SetField PROVE FreshInv'
  OBVIOUS
<1>1. PICK f \in todo :
        /\ doing = "normalize" /\ doing' = doing /\ number' = number /\ size' = size
        /\ todo' = todo \ {f}
        /\ \/ /\ super' = [super EXCEPT ![f] = FreshExtSpec(number)[f]]
              /\ deviations' = deviations
           \/ deviations' = deviations + 1 /\ super' = super
  BY DEF SetField
<1>2. /\ number \in ExtNumbers /\ deviations \in Nat /\ f \in Normal3 /\ todo \subseteq Normal3
      /\ Superblock(super, number)
  BY <1>1 DEF FreshInv, PlaceInv, MadeInv
<1>3. /\ DOMAIN super' = Fields /\ \A g \in Fields \ {f} : super'[g] = super[g]
      /\ deviations' = 0 => super'[f] = FreshExtSpec(number)[f]
  <2>1. DOMAIN super = Fields /\ f \in Fields
    BY <1>2 DEF Superblock, Normal3, Fields, Plain
  <2>2. CASE super' = super /\ deviations' = deviations + 1
    BY <1>2, <2>1, <2>2
  <2>3. CASE super' = [super EXCEPT ![f] = FreshExtSpec(number)[f]]
    BY <2>1, <2>3
  <2> QED BY <1>1, <2>2, <2>3
<1>4. Superblock(super', number)
  <2>1. \A g \in {"magic", "clean", "shift", "first", "journal_inode", "journal_mb", "journal_at"} :
          super'[g] = super[g]
    BY <1>2, <1>3 DEF Fields, Plain, Normal3
  <2> QED BY <1>2, <1>3, <2>1 DEF Superblock
<1>5. IsCanonical' <=> IsCanonical
  <2>1. PartitionSize' = PartitionSize
    BY <1>1 DEF PartitionSize
  <2> QED BY <1>1, <2>1 DEF IsCanonical
<1>6. PlaceInv'
  BY <1>1, <1>2, SwapIsNotExt DEF PlaceInv
<1>7. MadeInv' /\ VerdictInv'
  BY <1>1, <1>2, <1>4, SwapIsNotExt DEF MadeInv, VerdictInv
<1>8. UndeviatedInv'
  <2> SUFFICES ASSUME deviations' = 0, IsCanonical' PROVE AsMade(super, todo)'
    BY <1>1 DEF UndeviatedInv
  <2>1. AsMade(super, todo)
    BY <1>1, <1>2, <1>5 DEF FreshInv, UndeviatedInv
  <2>2. \A g \in Fields \ Normal3 : super'[g] = MadeCanonical(number)[g]
    BY <1>2, <1>3, <2>1 DEF AsMade
  <2>3. \A g \in Normal3 \ todo' : super'[g] = FreshExtSpec(number)[g]
    <3> TAKE g \in Normal3 \ todo'
    <3>1. CASE g = f
      BY <1>3, <3>1
    <3>2. CASE g # f
      <4>1. g \in Normal3 \ todo /\ g \in Fields \ {f}
        BY <1>1, <3>2 DEF Fields, Plain, Normal3
      <4> QED BY <1>3, <2>1, <4>1 DEF AsMade
    <3> QED BY <3>1, <3>2
  <2> QED BY <1>1, <1>3, <2>2, <2>3 DEF AsMade
<1> QED BY <1>6, <1>7, <1>8 DEF FreshInv

LEMMA NormalizedKeeps == FreshInv /\ Normalized => FreshInv'
<1> SUFFICES ASSUME FreshInv, Normalized PROVE FreshInv'
  OBVIOUS
<1>1. /\ number' = number /\ size' = size /\ super' = super /\ todo' = todo
      /\ deviations' = deviations /\ PartitionSize' = PartitionSize
      /\ (IsCanonical' <=> IsCanonical)
      /\ (AsMade(super, {})' <=> AsMade(super, {}))
  BY StillIs DEF Normalized
<1>2. doing = "normalize" /\ doing' = "compare" /\ todo = {}
  BY DEF Normalized, Moves
<1>3. PlaceInv' /\ MadeInv' /\ VerdictInv'
  BY <1>1, <1>2 DEF FreshInv, PlaceInv, MadeInv, VerdictInv
<1>4. UndeviatedInv'
  BY <1>1, <1>2 DEF FreshInv, UndeviatedInv
<1> QED BY <1>3, <1>4 DEF FreshInv

LEMMA CompareFreshKeeps == FreshInv /\ CompareFresh => FreshInv'
<1> SUFFICES ASSUME FreshInv, CompareFresh PROVE FreshInv'
  OBVIOUS
<1>1. /\ number' = number /\ size' = size /\ super' = super /\ todo' = todo
      /\ deviations' = deviations /\ PartitionSize' = PartitionSize
      /\ (IsCanonical' <=> IsCanonical)
      /\ (AsMade(super, {})' <=> AsMade(super, {}))
  BY StillIs DEF CompareFresh
<1>2. doing = "compare"
      /\ doing' = IF Parses(super) /\ Created(Parse(super)) THEN "fsck" ELSE "failed"
  BY DEF CompareFresh, Moves
<1>3. number \in ExtNumbers
  BY <1>2 DEF FreshInv, PlaceInv
<1>4. PlaceInv' /\ MadeInv' /\ VerdictInv'
  <2>1. PlaceInv'
    BY <1>1, <1>2, <1>3, SwapIsNotExt DEF FreshInv, PlaceInv
  <2>2. MadeInv' /\ VerdictInv'
    BY <1>1, <1>2 DEF FreshInv, MadeInv, VerdictInv
  <2> QED BY <2>1, <2>2
<1>5. UndeviatedInv'
  <2> SUFFICES ASSUME deviations = 0, IsCanonical PROVE doing' = "fsck" /\ AsMade(super, {})
    BY <1>1 DEF UndeviatedInv
  <2>1. AsMade(super, {})
    BY <1>2, <1>3, SwapIsNotExt DEF FreshInv, UndeviatedInv
  <2>2. Parses(super) /\ Created(Parse(super))
    BY <1>3, <2>1, HonestIsCreated
  <2> QED BY <1>2, <2>1, <2>2
<1> QED BY <1>4, <1>5 DEF FreshInv

LEMMA MakeSwapKeeps == FreshInv /\ MakeSwap => FreshInv'
<1> SUFFICES ASSUME FreshInv, MakeSwap PROVE FreshInv'
  OBVIOUS
<1>1. /\ doing = "mkswap" /\ doing' = "compareSwap" /\ number' = number /\ size' = size
      /\ todo' = todo /\ deviations' \in {deviations, deviations + 1}
      /\ \/ super' = Mkswap(size)
         \/ /\ deviations' = deviations + 1
            /\ \E f \in DOMAIN Mkswap(size) : super' \in Deviants(Mkswap(size), f)
  BY DEF MakeSwap, Moves
<1>2. number = Swap /\ size = PartitionSize /\ deviations \in Nat /\ todo \subseteq Normal3
  BY <1>1 DEF FreshInv, PlaceInv
<1>3. DOMAIN super' = SwapFields /\ super'.signature \in BOOLEAN
  BY <1>1, MkswapIs, DeviantSwapIs
<1>4. size' = PartitionSize'
  BY <1>1, <1>2 DEF PartitionSize
<1>5. PlaceInv'
  BY <1>1, <1>2, <1>4 DEF PlaceInv
<1>6. MadeInv' /\ VerdictInv'
  BY <1>1, <1>2, <1>3 DEF MadeInv, VerdictInv
<1>7. UndeviatedInv'
  <2> SUFFICES ASSUME deviations' = 0 PROVE super' = Mkswap(size')
    BY <1>1 DEF UndeviatedInv
  <2> QED BY <1>1, <1>2
<1> QED BY <1>5, <1>6, <1>7 DEF FreshInv

LEMMA CompareSwapKeeps == FreshInv /\ CompareSwap => FreshInv'
<1> SUFFICES ASSUME FreshInv, CompareSwap PROVE FreshInv'
  OBVIOUS
<1>1. /\ number' = number /\ size' = size /\ super' = super /\ todo' = todo
      /\ deviations' = deviations /\ PartitionSize' = PartitionSize
      /\ (IsCanonical' <=> IsCanonical)
  BY StillIs DEF CompareSwap
<1>2. doing = "compareSwap"
      /\ doing' = IF SwapCreated(super) THEN "copy" ELSE "failed"
  BY DEF CompareSwap, Moves
<1>3. number = Swap
  BY <1>2 DEF FreshInv, PlaceInv
<1>4. PlaceInv' /\ MadeInv' /\ VerdictInv'
  <2>1. PlaceInv'
    BY <1>1, <1>2, <1>3, SwapIsNotExt DEF FreshInv, PlaceInv
  <2>2. MadeInv' /\ VerdictInv'
    BY <1>1, <1>2 DEF FreshInv, MadeInv, VerdictInv
  <2> QED BY <2>1, <2>2
<1>5. UndeviatedInv'
  <2> SUFFICES ASSUME deviations = 0, IsCanonical PROVE doing' = "copy" /\ super = Mkswap(size)
    BY <1>1, <1>3 DEF UndeviatedInv
  <2>1. super = Mkswap(size)
    BY <1>2, <1>3 DEF FreshInv, UndeviatedInv
  <2> QED BY <1>2, <2>1, MkswapIs
<1> QED BY <1>4, <1>5 DEF FreshInv

LEMMA FsckKeeps == FreshInv /\ Fsck => FreshInv'
<1> SUFFICES ASSUME FreshInv, Fsck PROVE FreshInv'
  OBVIOUS
<1>1. /\ number' = number /\ size' = size /\ super' = super /\ todo' = todo
      /\ deviations' = deviations /\ PartitionSize' = PartitionSize
      /\ (IsCanonical' <=> IsCanonical)
      /\ (AsMade(super, {})' <=> AsMade(super, {}))
  BY StillIs DEF Fsck
<1>2. doing = "fsck" /\ doing' \in {"copy", "failed"} /\ (super.clean => doing' = "copy")
  BY DEF Fsck
<1>3. number \in ExtNumbers
  BY <1>2 DEF FreshInv, PlaceInv
<1>4. PlaceInv' /\ MadeInv' /\ VerdictInv'
  <2>1. PlaceInv'
    BY <1>1, <1>2, <1>3, SwapIsNotExt DEF FreshInv, PlaceInv
  <2>2. MadeInv' /\ VerdictInv'
    BY <1>1, <1>2 DEF FreshInv, MadeInv, VerdictInv
  <2> QED BY <2>1, <2>2
<1>5. UndeviatedInv'
  <2> SUFFICES ASSUME deviations = 0, IsCanonical PROVE doing' = "copy" /\ AsMade(super, {})
    BY <1>1, <1>3, SwapIsNotExt DEF UndeviatedInv
  <2>1. AsMade(super, {})
    BY <1>2, <1>3, SwapIsNotExt DEF FreshInv, UndeviatedInv
  <2> QED BY <1>2, <1>3, <2>1, HonestIsCreated
<1> QED BY <1>4, <1>5 DEF FreshInv

LEMMA TamperKeeps == FreshInv /\ Tamper => FreshInv'
<1> SUFFICES ASSUME FreshInv, Tamper PROVE FreshInv'
  OBVIOUS
<1>1. PICK f \in DOMAIN super :
        /\ doing \in {"fsck", "copy", "verify"} /\ doing' = doing
        /\ number' = number /\ size' = size /\ todo' = todo
        /\ super' \in Deviants(super, f) /\ deviations' = deviations + 1
  BY DEF Tamper
<1>2. /\ number \in {Swap} \union ExtNumbers /\ deviations \in Nat
      /\ number = Swap => DOMAIN super = SwapFields /\ super.signature \in BOOLEAN
      /\ number # Swap => Superblock(super, number)
  BY <1>1 DEF FreshInv, PlaceInv, MadeInv
<1>3. /\ number = Swap => DOMAIN super' = SwapFields /\ super'.signature \in BOOLEAN
      /\ number # Swap => Superblock(super', number)
  <2>1. CASE number = Swap
    BY <1>1, <1>2, <2>1, DeviantSwapIs
  <2>2. CASE number # Swap
    <3>1. f \in Fields
      BY <1>1, <1>2, <2>2 DEF Superblock
    <3> QED BY <1>1, <1>2, <2>2, <3>1, DeviantIs
  <2> QED BY <2>1, <2>2
<1>4. PlaceInv'
  <2>1. PartitionSize' = PartitionSize
    BY <1>1 DEF PartitionSize
  <2> QED BY <1>1, <1>2, <2>1 DEF FreshInv, PlaceInv
<1>5. MadeInv'
  BY <1>1, <1>2, <1>3 DEF MadeInv
<1>6. VerdictInv' /\ UndeviatedInv'
  BY <1>1, <1>2 DEF VerdictInv, UndeviatedInv
<1> QED BY <1>4, <1>5, <1>6 DEF FreshInv

LEMMA CopyFreshKeeps == FreshInv /\ CopyFresh => FreshInv'
<1> SUFFICES ASSUME FreshInv, CopyFresh PROVE FreshInv'
  OBVIOUS
<1>1. /\ number' = number /\ size' = size /\ super' = super /\ todo' = todo
      /\ deviations' = deviations /\ PartitionSize' = PartitionSize
      /\ (IsCanonical' <=> IsCanonical)
      /\ (AsMade(super, {})' <=> AsMade(super, {}))
  BY StillIs DEF CopyFresh
<1>2. doing = "copy" /\ doing' = "verify"
  BY DEF CopyFresh, Moves
<1>3. PlaceInv' /\ MadeInv' /\ VerdictInv'
  BY <1>1, <1>2 DEF FreshInv, PlaceInv, MadeInv, VerdictInv
<1>4. UndeviatedInv'
  BY <1>1, <1>2 DEF FreshInv, UndeviatedInv
<1> QED BY <1>3, <1>4 DEF FreshInv

LEMMA VerifyKeeps == FreshInv /\ Verify => FreshInv'
<1> SUFFICES ASSUME FreshInv, Verify PROVE FreshInv'
  OBVIOUS
<1>1. /\ number' = number /\ size' = size /\ super' = super /\ todo' = todo
      /\ deviations' = deviations /\ PartitionSize' = PartitionSize
      /\ (IsCanonical' <=> IsCanonical)
      /\ (Accepted' <=> Accepted)
  BY StillIs DEF Verify
<1>2. doing = "verify" /\ doing' = IF Accepted THEN "verified" ELSE "rejected"
  BY DEF Verify, Moves, Accepted
<1>3. PlaceInv' /\ MadeInv' /\ VerdictInv'
  BY <1>1, <1>2 DEF FreshInv, PlaceInv, MadeInv, VerdictInv
<1>4. UndeviatedInv'
  <2> SUFFICES ASSUME deviations = 0, IsCanonical PROVE Accepted
    BY <1>1, <1>2 DEF UndeviatedInv
  <2>1. CASE number = Swap
    <3>1. super = Mkswap(size) /\ size = PartitionSize
      BY <1>2, <2>1 DEF FreshInv, UndeviatedInv, PlaceInv
    <3> QED BY <2>1, <3>1, MkswapIs DEF Accepted
  <2>2. CASE number # Swap
    <3>1. number \in ExtNumbers /\ AsMade(super, {})
      BY <1>2, <2>2 DEF FreshInv, UndeviatedInv, PlaceInv
    <3> QED BY <2>2, <3>1, HonestIsCreated DEF Accepted
  <2> QED BY <2>1, <2>2
<1> QED BY <1>3, <1>4 DEF FreshInv

LEMMA FailKeeps == FreshInv /\ Fail => FreshInv'
<1> SUFFICES ASSUME FreshInv, Fail PROVE FreshInv'
  OBVIOUS
<1>1. /\ number' = number /\ size' = size /\ super' = super /\ todo' = todo
      /\ deviations' = deviations + 1 /\ doing' = "failed"
  BY DEF Fail
<1>2. PlaceInv'
  <2>1. PartitionSize' = PartitionSize
    BY <1>1 DEF PartitionSize
  <2> QED BY <1>1, <2>1 DEF FreshInv, PlaceInv
<1>3. MadeInv' /\ VerdictInv' /\ UndeviatedInv'
  BY <1>1 DEF FreshInv, PlaceInv, MadeInv, VerdictInv, UndeviatedInv
<1> QED BY <1>2, <1>3 DEF FreshInv

LEMMA FreshStaysAsItIs == FreshInv /\ UNCHANGED freshVars => FreshInv'
<1> SUFFICES ASSUME FreshInv, UNCHANGED freshVars PROVE FreshInv'
  OBVIOUS
<1>1. /\ Still /\ doing' = doing
  BY DEF freshVars, Still
<1>2. /\ number' = number /\ size' = size /\ super' = super /\ todo' = todo
      /\ deviations' = deviations /\ PartitionSize' = PartitionSize
      /\ (IsCanonical' <=> IsCanonical)
      /\ (Accepted' <=> Accepted)
      /\ (AsMade(super, todo)' <=> AsMade(super, todo))
      /\ (AsMade(super, {})' <=> AsMade(super, {}))
  BY <1>1, StillIs
<1>3. PlaceInv'
  <2>1. PartitionSize' = PartitionSize
    BY <1>2 DEF PartitionSize
  <2> QED BY <1>1, <1>2, <2>1 DEF FreshInv, PlaceInv
<1>4. MadeInv' /\ VerdictInv'
  BY <1>1, <1>2 DEF FreshInv, MadeInv, VerdictInv
<1>5. UndeviatedInv'
  BY <1>1, <1>2 DEF FreshInv, UndeviatedInv
<1> QED BY <1>3, <1>4, <1>5 DEF FreshInv

LEMMA FreshHolds == FreshSpec => []FreshInv
<1>1. FreshInv /\ [FreshNext]_freshVars => FreshInv'
  BY CheckFreshKeeps, MkfsKeeps, SetFieldKeeps, NormalizedKeeps, CompareFreshKeeps,
     MakeSwapKeeps, CompareSwapKeeps, FsckKeeps, TamperKeeps, CopyFreshKeeps, VerifyKeeps,
     FailKeeps, FreshStaysAsItIs
  DEF FreshNext
<1> QED BY <1>1, FreshStarts, PTL DEF FreshSpec

(***************************************************************************)
(* create_legacy_ext, create_swap and the verifier refuse no file system   *)
(* of the canonical size that the tools made as they were asked, and the   *)
(* verifier refuses nothing that the other two would not have refused.     *)
(***************************************************************************)
THEOREM FreshFilesystemsAreAccepted == FreshSpec => []FreshIsAccepted
<1>1. FreshInv => HonestIsAccepted
  BY DEF FreshInv, PlaceInv, UndeviatedInv, HonestIsAccepted
<1>2. FreshInv => CheckedTheSame
  <2> SUFFICES ASSUME FreshInv, doing = "rejected", IsCanonical
               PROVE  IF number = Swap THEN ~SwapCreated(super)
                      ELSE ~super.clean \/ ~Parses(super) \/ ~Created(Parse(super))
    BY DEF CheckedTheSame
  <2>1. ~Accepted /\ size = PartitionSize
    BY DEF FreshInv, VerdictInv, IsCanonical
  <2>2. CASE number = Swap
    <3>1. SwapCreated(super) => SwapVerified(super)
      BY <2>1 DEF SwapCreated, SwapVerified
    <3> QED BY <2>1, <2>2, <3>1 DEF Accepted
  <2>3. CASE number # Swap
    <3>1. number \in ExtNumbers /\ DOMAIN super = Fields
      BY <2>3 DEF FreshInv, PlaceInv, MadeInv, Superblock
    <3> QED BY <2>1, <2>3, <3>1, CreatedIsVerified DEF Accepted
  <2> QED BY <2>2, <2>3
<1>3. FreshInv => FreshIsAccepted
  BY <1>1, <1>2 DEF FreshIsAccepted
<1> QED BY <1>3, FreshHolds, PTL

(***************************************************************************)
(* Whatever fields the tools got wrong or were changed since, the file     *)
(* system in a verified image has the values that the firmware expects in  *)
(* every field, and lies in its partition.                                 *)
(***************************************************************************)
THEOREM VerifiedFilesystemsAreAsSpecified == FreshSpec => []FreshIsAsSpecified
<1>1. FreshInv => FreshIsAsSpecified
  <2> SUFFICES ASSUME FreshInv, doing = "verified" PROVE FreshIsAsSpecified
    BY DEF FreshIsAsSpecified
  <2>1. Accepted
    BY DEF FreshInv, VerdictInv
  <2>2. CASE number = Swap
    <3>1. /\ DOMAIN super = SwapFields /\ super.signature \in BOOLEAN
          /\ SwapHeader(super, PartitionSize) /\ super.uuid # "zero"
      BY <2>1, <2>2 DEF FreshInv, MadeInv, Accepted, SwapVerified
    <3>2. super.signature = TRUE
      BY <3>1 DEF SwapHeader
    <3> DEFINE asked == [super EXCEPT !.uuid = "asked"]
               made == Mkswap(PartitionSize)
    <3>3. DOMAIN asked = DOMAIN made
      BY <3>1 DEF Mkswap, SwapFields
    <3>4. \A f \in SwapFields : asked[f] = made[f]
      <4>1. /\ made.signature = TRUE /\ made.version = 1 /\ made.bad_pages = 0
            /\ made.last_page = PartitionSize \div 8 - 1 /\ made.uuid = "asked"
        BY DEF Mkswap
      <4>2. /\ asked.signature = super.signature /\ asked.version = super.version
            /\ asked.bad_pages = super.bad_pages /\ asked.last_page = super.last_page
            /\ asked.uuid = "asked"
        BY <3>1 DEF SwapFields
      <4>3. /\ super.version = 1 /\ super.bad_pages = 0
            /\ super.last_page = PartitionSize \div 8 - 1
        BY <3>1 DEF SwapHeader
      <4> HIDE DEF asked, made
      <4> QED BY <3>2, <4>1, <4>2, <4>3 DEF SwapFields
    <3>5. asked = made
      <4>1. asked = [f \in SwapFields |-> asked[f]] /\ made = [f \in SwapFields |-> made[f]]
        BY <3>1, <3>3 DEF Mkswap
      <4> HIDE DEF asked, made
      <4> QED BY <3>4, <4>1
    <3> QED BY <2>2, <3>1, <3>5 DEF FreshIsAsSpecified
  <2>3. CASE number # Swap
    <3>1. number \in ExtNumbers /\ Superblock(super, number)
      BY <2>3 DEF FreshInv, PlaceInv, MadeInv
    <3>2. Parses(super) /\ Verified(Parse(super))
      BY <2>1, <2>3 DEF Accepted
    <3> DEFINE s == FreshExtSpec(number)
               made == Mke2fs(s, s.block_count, s.inode_count, Features(number))
               same == DOMAIN made \ {"uuid", "mount_options", "min_extra", "want_extra"}
    <3>3. /\ \A f \in Fields \ {"uuid", "mount_options", "min_extra", "want_extra"} :
               super[f] = MadeCanonical(number)[f]
          /\ Agree(super, s, {"mount_options", "min_extra", "want_extra"})
          /\ s.block_count * Sectors(s.block_size) <= Number(number).sectors
      BY <3>1, <3>2, VerifiedIsMade
    <3>4. made = MadeCanonical(number) /\ DOMAIN made = Fields
      BY <3>1, MadeIs DEF MadeCanonical, MadeAsAsked, Superblock
    <3>5. \A f \in same : super[f] = made[f]
      BY <3>3, <3>4
    <3> HIDE DEF made, same
    <3> QED BY <2>3, <3>3, <3>5 DEF FreshIsAsSpecified, made, same, s
  <2> QED BY <2>2, <2>3
<1> QED BY <1>1, FreshHolds, PTL

(***************************************************************************)
(* Skeleton.  First the manifests and the commands for their entries.      *)
(***************************************************************************)
LEMMA ManifestHas ==
  ASSUME NEW m \in ManifestType
  PROVE  /\ Len(m.directories) \in Nat /\ DOMAIN m.directories = 1 .. Len(m.directories)
         /\ \A i \in 1 .. Len(m.directories) :
              m.directories[i].path \in Seq(Names) /\ m.directories[i].meta \in Metas
         /\ Len(m.symlinks) \in Nat /\ DOMAIN m.symlinks = 1 .. Len(m.symlinks)
         /\ \A i \in 1 .. Len(m.symlinks) :
              /\ m.symlinks[i].path \in Seq(Names) /\ m.symlinks[i].meta \in Metas
              /\ m.symlinks[i].target \in LinkTargets
<1> DEFINE d == m.directories
           s == m.symlinks
           A == [path : Seq(Names), meta : Metas]
           B == [path : Seq(Names), meta : Metas, target : LinkTargets]
<1>1. d \in Seq(A) /\ s \in Seq(B)
  BY DEF ManifestType
<1> HIDE DEF d, s, A, B
<1>2. /\ Len(d) \in Nat /\ DOMAIN d = 1 .. Len(d) /\ \A i \in 1 .. Len(d) : d[i] \in A
  BY <1>1
<1>3. /\ Len(s) \in Nat /\ DOMAIN s = 1 .. Len(s) /\ \A i \in 1 .. Len(s) : s[i] \in B
  BY <1>1
<1> QED BY <1>2, <1>3 DEF d, s, A, B

LEMMA EntriesAre ==
  ASSUME NEW m \in ManifestType
  PROVE  /\ DOMAIN Entries(m) = 1 .. Len(m.directories) + Len(m.symlinks)
         /\ \A i \in 1 .. Len(m.directories) : Entries(m)[i] = m.directories[i]
         /\ \A i \in 1 .. Len(m.symlinks) :
              Entries(m)[Len(m.directories) + i] = m.symlinks[i]
<1> DEFINE d == m.directories
           s == m.symlinks
           A == [path : Seq(Names), meta : Metas]
           B == [path : Seq(Names), meta : Metas, target : LinkTargets]
           C == A \union B
<1>1. d \in Seq(A) /\ s \in Seq(B)
  BY DEF ManifestType
<1> HIDE DEF d, s, A, B, C
<1>2. d \in Seq(C) /\ s \in Seq(C)
  BY <1>1 DEF C
<1>3. /\ DOMAIN (d \o s) = 1 .. Len(d) + Len(s)
      /\ \A i \in 1 .. Len(d) : (d \o s)[i] = d[i]
      /\ \A i \in 1 .. Len(s) : (d \o s)[Len(d) + i] = s[i]
  BY <1>2
<1> QED BY <1>3 DEF Entries, d, s

LEMMA ValidIs ==
  ASSUME NEW m \in ManifestType, Valid(m)
  PROVE  /\ \A i \in 1 .. Len(m.directories) :
              m.directories[i].path \notin {Root, LostFound}
         /\ \A i \in 1 .. Len(m.symlinks) :
              m.symlinks[i].path \notin {Root, LostFound} /\ m.symlinks[i].target.names # <<>>
<1>1. \A k \in DOMAIN Entries(m) : Entries(m)[k].path \notin {Root, LostFound}
  BY DEF Valid, Fits, Seen
<1>2. \A k \in 1 .. Len(m.symlinks) : m.symlinks[k].target.names # <<>>
  BY ManifestHas DEF Valid, Safe
<1>3. Len(m.directories) \in Nat /\ Len(m.symlinks) \in Nat
  BY ManifestHas
<1>4. ASSUME NEW i \in 1 .. Len(m.directories) PROVE m.directories[i].path \notin {Root, LostFound}
  <2>1. DOMAIN Entries(m) = 1 .. Len(m.directories) + Len(m.symlinks)
        /\ Entries(m)[i] = m.directories[i]
    BY EntriesAre
  <2> DEFINE a == Len(m.directories)
             b == Len(m.symlinks)
  <2>2. a \in Nat /\ b \in Nat /\ i \in 1 .. a
    BY <1>3, <1>4
  <2> HIDE DEF a, b
  <2>3. i \in 1 .. a + b
    BY <2>2
  <2> QED BY <1>1, <2>1, <2>3 DEF a, b
<1>5. ASSUME NEW i \in 1 .. Len(m.symlinks) PROVE m.symlinks[i].path \notin {Root, LostFound}
  <2>1. DOMAIN Entries(m) = 1 .. Len(m.directories) + Len(m.symlinks)
        /\ Entries(m)[Len(m.directories) + i] = m.symlinks[i]
    BY EntriesAre
  <2> DEFINE a == Len(m.directories)
             b == Len(m.symlinks)
  <2>2. a \in Nat /\ b \in Nat /\ i \in 1 .. b
    BY <1>3, <1>5
  <2> HIDE DEF a, b
  <2>3. a + i \in 1 .. a + b
    BY <2>2
  <2> QED BY <1>1, <2>1, <2>3 DEF a, b
<1> QED BY <1>2, <1>4, <1>5

LEMMA SequenceOf ==
  ASSUME NEW T, NEW n \in Nat, NEW f \in [1 .. n -> T]
  PROVE  f \in Seq(T) /\ Len(f) = n
OBVIOUS

LEMMA Joined ==
  ASSUME NEW T, NEW u \in Seq(T), NEW v \in Seq(T)
  PROVE  /\ Len(u \o v) = Len(u) + Len(v)
         /\ \A k \in 1 .. Len(u) : (u \o v)[k] = u[k]
         /\ \A k \in 1 .. Len(v) : (u \o v)[Len(u) + k] = v[k]
OBVIOUS

\* The commands of the second batch by number: four a directory, three a link.
LEMMA PopulateIs ==
  ASSUME manifest \in ManifestType
  PROVE  LET d == manifest.directories
             s == manifest.symlinks
         IN /\ Len(Populate) = 4 * Len(d) + 3 * Len(s)
            /\ \A i \in 1 .. Len(d), l \in 1 .. 4 :
                 Populate[4 * (i - 1) + l] = MakeDirectory(d[i])[l]
            /\ \A i \in 1 .. Len(s), l \in 1 .. 3 :
                 Populate[4 * Len(d) + 3 * (i - 1) + l] = MakeSymlink(s[i])[l]
<1> DEFINE d == manifest.directories
           s == manifest.symlinks
           first == [k \in 1 .. 4 * Len(d) |->
                       MakeDirectory(d[(k - 1) \div 4 + 1])[((k - 1) % 4) + 1]]
           second == [k \in 1 .. 3 * Len(s) |->
                       MakeSymlink(s[(k - 1) \div 3 + 1])[((k - 1) % 3) + 1]]
<1>1. Populate = first \o second
  BY DEF Populate
<1>2. Len(d) \in Nat /\ Len(s) \in Nat
  BY ManifestHas
<1>3. \A i \in 1 .. Len(d), l \in 1 .. 4 :
        /\ 4 * (i - 1) + l \in 1 .. 4 * Len(d)
        /\ first[4 * (i - 1) + l] = MakeDirectory(d[i])[l]
  <2> TAKE i \in 1 .. Len(d), l \in 1 .. 4
  <2> DEFINE k == 4 * (i - 1) + l
  <2>1. k \in 1 .. 4 * Len(d) /\ (k - 1) \div 4 + 1 = i /\ ((k - 1) % 4) + 1 = l
    BY <1>2
  <2> HIDE DEF k, d
  <2>2. first[k] = MakeDirectory(d[(k - 1) \div 4 + 1])[((k - 1) % 4) + 1]
    BY <2>1
  <2> QED BY <2>1, <2>2 DEF k
<1>4. \A i \in 1 .. Len(s), l \in 1 .. 3 :
        /\ 3 * (i - 1) + l \in 1 .. 3 * Len(s)
        /\ second[3 * (i - 1) + l] = MakeSymlink(s[i])[l]
  <2> TAKE i \in 1 .. Len(s), l \in 1 .. 3
  <2> DEFINE k == 3 * (i - 1) + l
  <2>1. k \in 1 .. 3 * Len(s) /\ (k - 1) \div 3 + 1 = i /\ ((k - 1) % 3) + 1 = l
    BY <1>2
  <2> HIDE DEF k, s
  <2>2. second[k] = MakeSymlink(s[(k - 1) \div 3 + 1])[((k - 1) % 3) + 1]
    BY <2>1
  <2> QED BY <2>1, <2>2 DEF k
<1>5. /\ Len(first) = 4 * Len(d) /\ DOMAIN first = 1 .. 4 * Len(d)
      /\ Len(second) = 3 * Len(s) /\ DOMAIN second = 1 .. 3 * Len(s)
      /\ 4 * Len(d) \in Nat /\ 3 * Len(s) \in Nat
      /\ \E T : first \in Seq(T) /\ second \in Seq(T)
  <2>1. DOMAIN first = 1 .. 4 * Len(d) /\ DOMAIN second = 1 .. 3 * Len(s)
    OBVIOUS
  <2>2. 4 * Len(d) \in Nat /\ 3 * Len(s) \in Nat
    BY <1>2
  <2> DEFINE T == {first[k] : k \in 1 .. 4 * Len(d)} \union {second[k] : k \in 1 .. 3 * Len(s)}
             a == 4 * Len(d)
             b == 3 * Len(s)
  <2>3. first \in [1 .. a -> T] /\ second \in [1 .. b -> T]
    OBVIOUS
  <2> HIDE DEF first, second, T, a, b
  <2>4. first \in Seq(T) /\ Len(first) = a /\ second \in Seq(T) /\ Len(second) = b
    <3>1. a \in Nat /\ b \in Nat
      BY <2>2 DEF a, b
    <3> QED BY <2>3, <3>1, SequenceOf
  <2> QED BY <2>1, <2>2, <2>4 DEF a, b
<1> HIDE DEF first, second, d, s
<1>6. /\ Len(first \o second) = Len(first) + Len(second)
      /\ \A k \in 1 .. Len(first) : (first \o second)[k] = first[k]
      /\ \A k \in 1 .. Len(second) : (first \o second)[Len(first) + k] = second[k]
  <2>1. PICK T : first \in Seq(T) /\ second \in Seq(T)
    BY <1>5
  <2> QED BY <2>1, Joined
<1>7. \A i \in 1 .. Len(d), l \in 1 .. 4 : Populate[4 * (i - 1) + l] = MakeDirectory(d[i])[l]
  BY <1>1, <1>3, <1>5, <1>6
<1>8. \A i \in 1 .. Len(s), l \in 1 .. 3 :
        Populate[4 * Len(d) + 3 * (i - 1) + l] = MakeSymlink(s[i])[l]
  <2> TAKE i \in 1 .. Len(s), l \in 1 .. 3
  <2> DEFINE k == 3 * (i - 1) + l
  <2>1. 4 * Len(d) + 3 * (i - 1) + l = 4 * Len(d) + k
    BY <1>2
  <2>2. k \in 1 .. Len(second) /\ second[k] = MakeSymlink(s[i])[l]
    BY <1>4, <1>5
  <2> HIDE DEF k
  <2> QED BY <1>1, <1>5, <1>6, <2>1, <2>2
<1> QED BY <1>1, <1>5, <1>6, <1>7, <1>8 DEF d, s

LEMMA MakesAre ==
  ASSUME NEW e
  PROVE  /\ MakeDirectory(e)[1] = Make("directory", e.path, NoTarget)
         /\ MakeDirectory(e)[2] = Set(e.path, "mode", e.meta.mode)
         /\ MakeDirectory(e)[3] = Set(e.path, "uid", e.meta.uid)
         /\ MakeDirectory(e)[4] = Set(e.path, "gid", e.meta.gid)
         /\ MakeSymlink(e)[1] = Make("symlink", e.path, e.target)
         /\ MakeSymlink(e)[2] = Set(e.path, "uid", e.meta.uid)
         /\ MakeSymlink(e)[3] = Set(e.path, "gid", e.meta.gid)
BY DEF MakeDirectory, MakeSymlink, SetOwner

\* Which entry and which of its commands is next.
LEMMA CommandNumber ==
  ASSUME NEW a \in Nat, NEW b \in Nat, NEW c \in 1 .. 4 * a + 3 * b
  PROVE  \/ \E i \in 1 .. a, l \in 1 .. 4 : c = 4 * (i - 1) + l
         \/ \E i \in 1 .. b, l \in 1 .. 3 : c = 4 * a + 3 * (i - 1) + l
<1>1. CASE c <= 4 * a
  <2> DEFINE i == (c - 1) \div 4 + 1
             l == ((c - 1) % 4) + 1
  <2>1. i \in 1 .. a /\ l \in 1 .. 4 /\ c = 4 * (i - 1) + l
    BY <1>1
  <2> HIDE DEF i, l
  <2> QED BY <2>1
<1>2. CASE c > 4 * a
  <2> DEFINE k == c - 4 * a
             i == (k - 1) \div 3 + 1
             l == ((k - 1) % 3) + 1
  <2>1. i \in 1 .. b /\ l \in 1 .. 3 /\ c = 4 * a + 3 * (i - 1) + l
    BY <1>2
  <2> HIDE DEF i, l, k
  <2> QED BY <2>1
<1> QED BY <1>1, <1>2

(***************************************************************************)
(* The tree: what each of its nodes is, and where paths lead in it.        *)
(***************************************************************************)
IsNode(t) ==
  /\ t = Node(t.type, t.meta, t.target) /\ t.meta \in Metas
  /\ IF t.type = "directory" THEN t.target = NoTarget
     ELSE t.type = "symlink" /\ t.target \in LinkTargets /\ t.target.names # <<>>
IsTree(t) == \A p \in DOMAIN t : p \in Seq(Names) /\ IsNode(t[p])

\* A route that followed a link has two names behind or before it.
OnTheWay(w, path) ==
  /\ w = Route(w.at, w.names) /\ w.at \in Seq(Names) /\ w.names \in Seq(Names)
  /\ \/ w = Route(Root, path)
     \/ w = Route(NoPlace, <<>>)
     \/ Len(w.at) + Len(w.names) >= 2

LEMMA RouteStays ==
  ASSUME NEW path, NEW place \in Seq(Names), NEW names \in Seq(Names),
         \/ Route(place, names) \in {Route(Root, path), Route(NoPlace, <<>>)}
         \/ Len(place) + Len(names) >= 2
  PROVE  OnTheWay(Route(place, names), path)
BY DEF OnTheWay, Route

LEMMA NoPlaceIs ==
  /\ Root \in Seq(Names) /\ Len(Root) = 0
  /\ NoPlace \in Seq(Names) /\ Len(NoPlace) = 1 /\ NoPlace # LostFound
  /\ LostFound \in Seq(Names) /\ Len(LostFound) = 1
<1>1. NoPlace[1] = "." /\ LostFound[1] = "lost+found"
  BY DEF NoPlace, LostFound
<1>2. "." # "lost+found"
  OBVIOUS
<1>3. NoPlace # LostFound
  BY <1>1, <1>2
<1>4. NoPlace \in Seq(Names) /\ Len(NoPlace) = 1
  <2>1. "." \in Names
    BY SkeletonAssumption
  <2> QED BY <2>1 DEF NoPlace
<1>5. LostFound \in Seq(Names) /\ Len(LostFound) = 1
  <2>1. "lost+found" \in Names
    BY SkeletonAssumption
  <2> QED BY <2>1 DEF LostFound
<1>6. Root \in Seq(Names) /\ Len(Root) = 0
  BY DEF Root
<1> QED BY <1>3, <1>4, <1>5, <1>6

LEMMA FollowStays ==
  ASSUME IsTree(tree), NEW path, NEW w, OnTheWay(w, path)
  PROVE  OnTheWay(FollowLink(tree, w), path)
<1> DEFINE r == CHOOSE r \in Stops(tree, w) : \A i \in Stops(tree, w) : r <= i
           link == Below(w, r)
           target == tree[link].target
           base == IF target.absolute THEN Root ELSE Below(w, r - 1)
           rest == SubSeq(w.names, r + 1, Len(w.names))
<1>1. CASE Stops(tree, w) = {}
  BY <1>1 DEF FollowLink
<1>2. CASE Stops(tree, w) # {} /\ link \notin DOMAIN tree
  <2>1. FollowLink(tree, w) = Route(NoPlace, <<>>)
    BY <1>2 DEF FollowLink
  <2>2. NoPlace \in Seq(Names) /\ <<>> \in Seq(Names)
    BY NoPlaceIs
  <2> QED BY <2>1, <2>2, RouteStays
<1>3. CASE Stops(tree, w) # {} /\ link \in DOMAIN tree
  <2>1. FollowLink(tree, w) = Route(base, target.names \o rest)
    BY <1>3 DEF FollowLink
  <2>2. w.at \in Seq(Names) /\ w.names \in Seq(Names)
    BY DEF OnTheWay
  <2>3. r \in Stops(tree, w)
    <3>1. Stops(tree, w) \in SUBSET Nat
      BY <2>2 DEF Stops
    <3>2. \E x \in Stops(tree, w) : \A y \in Stops(tree, w) : x <= y
      BY <1>3, <3>1, LeastNatural
    <3> QED BY <3>2
  <2> HIDE DEF r
  <2>4. r \in 1 .. Len(w.names) - 1 /\ ~IsDirectory(tree, link)
    BY <2>3 DEF Stops
  <2>5. target \in LinkTargets /\ target.names # <<>>
    BY <1>3, <2>4 DEF IsTree, IsNode, IsDirectory
  <2>6. target.names \in Seq(Names) /\ Len(target.names) >= 1
    <3>1. target.names \in Seq(Names)
      BY <2>5 DEF LinkTargets
    <3> HIDE DEF target
    <3> QED BY <2>5, <3>1
  <2>7. rest \in Seq(Names) /\ Len(rest) = Len(w.names) - r
    BY <2>2, <2>4
  <2>8. base \in Seq(Names)
    <3>1. SubSeq(w.names, 1, r - 1) \in Seq(Names)
      BY <2>2, <2>4
    <3>2. Below(w, r - 1) \in Seq(Names)
      BY <2>2, <3>1 DEF Below
    <3> QED BY <3>2, NoPlaceIs
  <2> HIDE DEF rest, base, target
  <2>9. /\ target.names \o rest \in Seq(Names)
        /\ Len(base) + Len(target.names \o rest) >= 2
    BY <2>2, <2>4, <2>6, <2>7, <2>8
  <2> QED BY <2>1, <2>8, <2>9, RouteStays
<1> QED BY <1>1, <1>2, <1>3

LEMMA LocateIs ==
  ASSUME IsTree(tree), NEW path \in Seq(Names)
  PROVE  Locate(tree, path) \in {path, NoPlace} \/ Len(Locate(tree, path)) >= 2
<1> DEFINE route == Route(Root, path)
           w == FollowFour(tree, FollowFour(tree, route))
<1>1. OnTheWay(route, path)
  BY DEF OnTheWay, Route, Root
<1>2. \A v : OnTheWay(v, path) => OnTheWay(FollowTwo(tree, v), path)
  BY FollowStays DEF FollowTwo
<1>3. \A v : OnTheWay(v, path) => OnTheWay(FollowFour(tree, v), path)
  BY <1>2 DEF FollowFour
<1>4. OnTheWay(w, path)
  BY <1>1, <1>3
<1>5. Locate(tree, path) = IF Stops(tree, w) = {} THEN w.at \o w.names ELSE NoPlace
  BY DEF Locate
<1> HIDE DEF w
<1>6. CASE w = Route(Root, path)
  <2>1. w.at \o w.names = path
    BY <1>6 DEF Route, Root
  <2> QED BY <1>5, <2>1
<1>7. CASE w = Route(NoPlace, <<>>)
  <2>1. w.at = NoPlace /\ w.names = <<>>
    BY <1>7 DEF Route
  <2>2. w.at \o w.names = NoPlace
    BY <2>1, NoPlaceIs
  <2> QED BY <1>5, <2>2
<1>8. CASE Len(w.at) + Len(w.names) >= 2
  <2>1. w.at \in Seq(Names) /\ w.names \in Seq(Names)
    BY <1>4 DEF OnTheWay
  <2>2. Len(w.at \o w.names) = Len(w.at) + Len(w.names)
    BY <2>1
  <2> QED BY <1>5, <1>8, <2>2
<1> QED BY <1>4, <1>6, <1>7, <1>8 DEF OnTheWay

\* The system's two nodes are only found by their own names.
LEMMA LocateSystem ==
  ASSUME IsTree(tree)
  PROVE  /\ Locate(tree, Root) = Root /\ Locate(tree, LostFound) = LostFound
         /\ \A path \in Seq(Names) :
              path \notin {Root, LostFound} => Locate(tree, path) \notin {Root, LostFound}
<1>1. ASSUME NEW path \in Seq(Names), Len(path) <= 1 PROVE Locate(tree, path) = path
  <2> DEFINE route == Route(Root, path)
  <2>1. Stops(tree, route) = {} /\ route.at \o route.names = path
    BY <1>1 DEF Stops, Route, Root
  <2>2. FollowLink(tree, route) = route
    BY <2>1 DEF FollowLink
  <2> HIDE DEF route
  <2> QED BY <2>1, <2>2 DEF Locate, FollowFour, FollowTwo, route
<1>2. Locate(tree, Root) = Root /\ Locate(tree, LostFound) = LostFound
  <2>1. Root \in Seq(Names) /\ LostFound \in Seq(Names)
    BY NoPlaceIs
  <2>2. Len(Root) <= 1 /\ Len(LostFound) <= 1
    BY NoPlaceIs
  <2> QED BY <1>1, <2>1, <2>2
<1>3. ASSUME NEW path \in Seq(Names), path \notin {Root, LostFound}
      PROVE  Locate(tree, path) \notin {Root, LostFound}
  <2>1. Locate(tree, path) \in {path, NoPlace} \/ Len(Locate(tree, path)) >= 2
    BY LocateIs
  <2>2. NoPlace \notin {Root, LostFound}
    BY NoPlaceIs
  <2>3. ~(Len(Root) >= 2) /\ ~(Len(LostFound) >= 2)
    BY NoPlaceIs
  <2> QED BY <1>3, <2>1, <2>2, <2>3
<1> QED BY <1>2, <1>3

(***************************************************************************)
(* The effect of a command.                                                *)
(***************************************************************************)
IsCommand(c) ==
  /\ c.path \in Seq(Names)
  /\ \/ c.op = "make" /\ c.path # <<>> /\ IsNode(c.node)
     \/ c.op = "set" /\ c.field \in {"mode", "uid", "gid"} /\ c.value \in Settings

LEMMA EffectIsTree ==
  ASSUME IsTree(tree), NEW c, IsCommand(c)
  PROVE  IsTree(Effect(c)) /\ DOMAIN tree \subseteq DOMAIN Effect(c)
<1>1. CASE c.op = "make" /\ CanCreate(c.path)
  <2> DEFINE place == Place(c.path)
  <2>1. Effect(c) = [p \in DOMAIN tree \union {place} |-> IF p = place THEN c.node ELSE tree[p]]
    BY <1>1 DEF Effect
  <2>2. place \in Seq(Names)
    <3>1. Locate(tree, Parent(c.path)) \in Seq(Names)
      BY <1>1 DEF CanCreate, IsDirectory, IsTree
    <3>2. c.path[Len(c.path)] \in Names
      BY <1>1 DEF IsCommand
    <3> QED BY <3>1, <3>2 DEF Place
  <2>3. IsNode(c.node)
    BY <1>1 DEF IsCommand
  <2> HIDE DEF place
  <2> QED BY <2>1, <2>2, <2>3 DEF IsTree
<1>2. CASE c.op # "make" /\ Locate(tree, c.path) \in DOMAIN tree
  <2> DEFINE place == Locate(tree, c.path)
             node == [tree[place] EXCEPT !.meta[c.field] = c.value]
  <2>1. Effect(c) = [tree EXCEPT ![place] = node]
    BY <1>2 DEF Effect
  <2>2. IsNode(tree[place])
    BY <1>2 DEF IsTree
  <2>3. node = Node(tree[place].type, [tree[place].meta EXCEPT ![c.field] = c.value],
                    tree[place].target)
    BY <2>2 DEF IsNode, Node
  <2>4. [tree[place].meta EXCEPT ![c.field] = c.value] \in Metas
    BY <1>2, <2>2 DEF IsCommand, IsNode, Metas
  <2>5. IsNode(node)
    <3> HIDE DEF node
    <3> QED BY <2>2, <2>3, <2>4 DEF IsNode, Node
  <2> HIDE DEF place, node
  <2> QED BY <2>1, <2>5 DEF IsTree
<1>3. CASE Effect(c) = tree
  BY <1>3
<1> QED BY <1>1, <1>2, <1>3 DEF Effect

LEMMA EffectKeepsSystem ==
  ASSUME IsTree(tree), NEW c, IsCommand(c), c.path \notin {Root, LostFound},
         NEW q \in {Root, LostFound}, q \in DOMAIN tree
  PROVE  Effect(c)[q] = tree[q]
<1>1. CASE c.op = "make" /\ CanCreate(c.path)
  <2>1. q # Place(c.path)
    BY <1>1 DEF CanCreate
  <2> QED BY <1>1, <2>1 DEF Effect
<1>2. CASE c.op # "make" /\ Locate(tree, c.path) \in DOMAIN tree
  <2>1. q # Locate(tree, c.path)
    BY LocateSystem DEF IsCommand
  <2> QED BY <1>2, <2>1 DEF Effect
<1> QED BY <1>1, <1>2 DEF Effect

\* All commands are well formed; those of the second batch keep off the system's nodes.
LEMMA CommandsAre ==
  ASSUME manifest \in ManifestType, Valid(manifest), NEW k \in 1 .. Len(Populate)
  PROVE  IsCommand(Populate[k]) /\ Populate[k].path \notin {Root, LostFound}
<1> DEFINE d == manifest.directories
           s == manifest.symlinks
<1>1. Len(d) \in Nat /\ Len(s) \in Nat /\ k \in 1 .. 4 * Len(d) + 3 * Len(s)
  BY ManifestHas, PopulateIs
<1>2. ASSUME NEW e, e.path \in Seq(Names), e.path \notin {Root, LostFound}, e.meta \in Metas,
             NEW l \in 1 .. 4
      PROVE  IsCommand(MakeDirectory(e)[l]) /\ MakeDirectory(e)[l].path \notin {Root, LostFound}
  <2>1. IsNode(Node("directory", Meta("new", "new", "new"), NoTarget))
    <3>1. Meta("new", "new", "new") \in Metas
      BY SkeletonAssumption DEF Meta, Metas
    <3> QED BY <3>1 DEF IsNode, Node
  <2>2. e.meta.mode \in Settings /\ e.meta.uid \in Settings /\ e.meta.gid \in Settings
    BY <1>2 DEF Metas
  <2>3. MakeDirectory(e)[l] \in {Make("directory", e.path, NoTarget),
          Set(e.path, "mode", e.meta.mode), Set(e.path, "uid", e.meta.uid),
          Set(e.path, "gid", e.meta.gid)}
    <3>1. l = 1 \/ l = 2 \/ l = 3 \/ l = 4
      BY <1>2
    <3> QED BY <3>1, MakesAre
  <2> QED BY <1>2, <2>1, <2>2, <2>3 DEF IsCommand, Make, Set, Root
<1>3. ASSUME NEW e, e.path \in Seq(Names), e.path \notin {Root, LostFound}, e.meta \in Metas,
             e.target \in LinkTargets, e.target.names # <<>>, NEW l \in 1 .. 3
      PROVE  IsCommand(MakeSymlink(e)[l]) /\ MakeSymlink(e)[l].path \notin {Root, LostFound}
  <2>1. IsNode(Node("symlink", Meta("new", "new", "new"), e.target))
    <3>1. Meta("new", "new", "new") \in Metas
      BY SkeletonAssumption DEF Meta, Metas
    <3> QED BY <1>3, <3>1 DEF IsNode, Node
  <2>2. e.meta.uid \in Settings /\ e.meta.gid \in Settings
    BY <1>3 DEF Metas
  <2>3. MakeSymlink(e)[l] \in {Make("symlink", e.path, e.target),
          Set(e.path, "uid", e.meta.uid), Set(e.path, "gid", e.meta.gid)}
    <3>1. l = 1 \/ l = 2 \/ l = 3
      BY <1>3
    <3> QED BY <3>1, MakesAre
  <2> QED BY <1>3, <2>1, <2>2, <2>3 DEF IsCommand, Make, Set, Root
<1>4. CASE \E i \in 1 .. Len(d), l \in 1 .. 4 : k = 4 * (i - 1) + l
  <2>1. PICK i \in 1 .. Len(d), l \in 1 .. 4 : k = 4 * (i - 1) + l
    BY <1>4
  <2>2. Populate[k] = MakeDirectory(d[i])[l]
    BY <2>1, PopulateIs
  <2>3. d[i].path \in Seq(Names) /\ d[i].meta \in Metas /\ d[i].path \notin {Root, LostFound}
    BY ManifestHas, ValidIs
  <2> HIDE DEF d
  <2> QED BY <1>2, <2>2, <2>3
<1>5. CASE \E i \in 1 .. Len(s), l \in 1 .. 3 : k = 4 * Len(d) + 3 * (i - 1) + l
  <2>1. PICK i \in 1 .. Len(s), l \in 1 .. 3 : k = 4 * Len(d) + 3 * (i - 1) + l
    BY <1>5
  <2>2. Populate[k] = MakeSymlink(s[i])[l]
    BY <2>1, PopulateIs
  <2>3. /\ s[i].path \in Seq(Names) /\ s[i].meta \in Metas /\ s[i].path \notin {Root, LostFound}
        /\ s[i].target \in LinkTargets /\ s[i].target.names # <<>>
    BY ManifestHas, ValidIs
  <2> HIDE DEF s
  <2> QED BY <1>3, <2>2, <2>3
<1> QED BY <1>1, <1>4, <1>5, CommandNumber

LEMMA NormalizeIs ==
  /\ Len(Normalize) = 6
  /\ \A f \in {"mode", "uid", "gid"} : Normal[Root][f] = "wanted" /\ Normal[LostFound][f] = "wanted"
  /\ Normalize[1] = Set(Root, "mode", "wanted") /\ Normalize[2] = Set(Root, "uid", "wanted")
  /\ Normalize[3] = Set(Root, "gid", "wanted") /\ Normalize[4] = Set(LostFound, "mode", "wanted")
  /\ Normalize[5] = Set(LostFound, "uid", "wanted")
  /\ Normalize[6] = Set(LostFound, "gid", "wanted")
<1>1. \A p \in {Root, LostFound} : Normal[p] = Meta("wanted", "wanted", "wanted")
  BY DEF Normal
<1>2. \A p \in {Root, LostFound} :
        SetNormal(p) =
          <<Set(p, "mode", "wanted"), Set(p, "uid", "wanted"), Set(p, "gid", "wanted")>>
  BY <1>1 DEF SetNormal, Meta
<1>3. Normalize = <<Set(Root, "mode", "wanted"), Set(Root, "uid", "wanted"),
                    Set(Root, "gid", "wanted")>>
        \o <<Set(LostFound, "mode", "wanted"), Set(LostFound, "uid", "wanted"),
             Set(LostFound, "gid", "wanted")>>
  BY <1>2 DEF Normalize
<1> QED BY <1>1, <1>3 DEF Meta

LEMMA NormalizeCommands == \A k \in 1 .. Len(Normalize) : IsCommand(Normalize[k])
<1> SUFFICES ASSUME NEW k \in 1 .. Len(Normalize) PROVE IsCommand(Normalize[k])
  OBVIOUS
<1>1. k \in 1 .. 6
  BY NormalizeIs
<1>2. \E p \in {Root, LostFound}, f \in {"mode", "uid", "gid"} : Normalize[k] = Set(p, f, "wanted")
  BY <1>1, NormalizeIs
<1>3. "wanted" \in Settings /\ Root \in Seq(Names) /\ LostFound \in Seq(Names)
  BY SkeletonAssumption, NoPlaceIs
<1> QED BY <1>2, <1>3 DEF IsCommand, Set

(***************************************************************************)
(* The invariant: the manifest is accepted (CourseInv), the tree is one    *)
(* and keeps the nodes of the system (SystemInv), and nothing happens to   *)
(* it after the audit (AuditInv).                                          *)
(***************************************************************************)
CourseInv ==
  /\ manifest \in ManifestType /\ (activity = "refused" \/ Valid(manifest))
  /\ batch \in {"normalize", "populate"} /\ passed \in Nat
  /\ batch = "normalize" => activity \notin {"done", "refused"}
  /\ batch = "populate" => activity # "validate"

SystemInv ==
  /\ IsTree(tree) /\ {Root, LostFound} \subseteq DOMAIN tree
  /\ activity = "validate" \/ batch = "populate" =>
       \A p \in {Root, LostFound} : tree[p].meta = Normal[p]

AuditInv == activity = "done" => AuditManifest(manifest)

ListedInv == CourseInv /\ SystemInv /\ AuditInv

LEMMA ListedStarts == SkeletonInit => ListedInv
<1> SUFFICES ASSUME SkeletonInit PROVE ListedInv
  OBVIOUS
<1>1. manifest \in ManifestType /\ Valid(manifest)
  <2>1. manifest.directories = <<>> /\ manifest.symlinks = <<>> /\ manifest = NoManifest
    BY DEF SkeletonInit, NoManifest
  <2>2. manifest \in ManifestType
    BY <2>1 DEF ManifestType, NoManifest
  <2>3. Entries(manifest) = <<>>
    BY <2>1 DEF Entries
  <2> QED BY <2>1, <2>2, <2>3 DEF Valid
<1>2. CourseInv
  BY <1>1 DEF SkeletonInit, CourseInv
<1>3. Normal[Root] \in Metas /\ Meta("wanted", "new", "new") \in Metas
  <2>1. Normal[Root] = Meta("wanted", "wanted", "wanted")
    BY DEF Normal
  <2> QED BY <2>1, SkeletonAssumption DEF Meta, Metas
<1>4. SystemInv
  <2> DEFINE first(p) == Node("directory",
                          IF p = Root THEN Normal[p] ELSE Meta("wanted", "new", "new"), NoTarget)
  <2>1. tree = [p \in {Root, LostFound} |-> first(p)]
    BY DEF SkeletonInit
  <2>2. \A p \in {Root, LostFound} : IsNode(first(p))
    BY <1>3 DEF IsNode, Node
  <2> HIDE DEF first
  <2>3. IsTree(tree) /\ DOMAIN tree = {Root, LostFound}
    BY <2>1, <2>2, NoPlaceIs DEF IsTree
  <2> QED BY <2>3 DEF SystemInv, SkeletonInit
<1>5. AuditInv
  BY DEF AuditInv, SkeletonInit
<1> QED BY <1>2, <1>4, <1>5 DEF ListedInv

LEMMA DebugfsCommandListed == ListedInv /\ DebugfsCommand => ListedInv'
<1> SUFFICES ASSUME ListedInv, DebugfsCommand PROVE ListedInv'
  OBVIOUS
<1> DEFINE c == Commands[passed + 1]
<1>1. /\ activity = "run" /\ activity' = "run" /\ batch' = batch /\ manifest' = manifest
      /\ passed' = passed + 1 /\ passed \in Nat /\ passed < Len(Commands)
      /\ tree' \in {tree, Effect(c)}
  BY DEF DebugfsCommand, ListedInv, CourseInv
<1>2. CourseInv'
  BY <1>1 DEF ListedInv, CourseInv
<1>3. IsTree(tree) /\ Root \in DOMAIN tree /\ LostFound \in DOMAIN tree
      /\ manifest \in ManifestType /\ Valid(manifest)
  BY <1>1 DEF ListedInv, SystemInv, CourseInv
<1>4. IsCommand(c) /\ (batch = "populate" => c.path \notin {Root, LostFound})
  <2>1. CASE batch = "normalize"
    <3>1. Commands = Normalize
      BY <2>1 DEF Commands
    <3>2. passed + 1 \in 1 .. Len(Normalize)
      BY <1>1, <3>1, NormalizeIs
    <3> QED BY <2>1, <3>1, <3>2, NormalizeCommands
  <2>2. CASE batch # "normalize"
    <3>1. Commands = Populate
      BY <2>2 DEF Commands
    <3>2. Len(Populate) \in Nat
      <4>1. Len(manifest.directories) \in Nat /\ Len(manifest.symlinks) \in Nat
        BY <1>3, ManifestHas
      <4> QED BY <1>3, <4>1, PopulateIs
    <3>3. passed + 1 \in 1 .. Len(Populate)
      BY <1>1, <3>1, <3>2
    <3> QED BY <1>3, <3>1, <3>3, CommandsAre
  <2> QED BY <2>1, <2>2
<1> HIDE DEF c
<1>5. IsTree(tree') /\ DOMAIN tree \subseteq DOMAIN tree'
  BY <1>1, <1>3, <1>4, EffectIsTree
<1>6. batch = "populate" => \A q \in {Root, LostFound} : tree'[q] = tree[q]
  BY <1>1, <1>3, <1>4, EffectKeepsSystem
<1>7. SystemInv'
  BY <1>1, <1>3, <1>5, <1>6 DEF ListedInv, SystemInv
<1>8. AuditInv'
  BY <1>1 DEF AuditInv
<1> QED BY <1>2, <1>7, <1>8 DEF ListedInv

LEMMA AuditListed == ListedInv /\ Audit => ListedInv'
<1> SUFFICES ASSUME ListedInv, Audit PROVE ListedInv'
  OBVIOUS
<1>1. /\ activity = "audit" /\ batch' = batch /\ manifest' = manifest /\ passed' = passed
      /\ tree' = tree
      /\ activity' \in {"validate", "done", "failed"}
      /\ activity' = "validate" => batch = "normalize" /\ AuditNormal
      /\ activity' = "done" => batch # "normalize" /\ AuditManifest(manifest)
  BY DEF Audit
<1>2. CourseInv'
  BY <1>1 DEF ListedInv, CourseInv
<1>3. SystemInv'
  <2>1. AuditNormal => \A p \in {Root, LostFound} : tree[p].meta = Normal[p]
    BY LocateSystem DEF ListedInv, SystemInv, AuditNormal, Shown
  <2> QED BY <1>1, <2>1 DEF ListedInv, SystemInv
<1>4. AuditInv'
  <2>1. AuditManifest(manifest)' <=> AuditManifest(manifest)
    BY <1>1 DEF AuditManifest, Shown, ShownTarget
  <2> QED BY <1>1, <2>1 DEF AuditInv
<1> QED BY <1>2, <1>3, <1>4 DEF ListedInv

LEMMA ValidateListed == ListedInv /\ Validate => ListedInv'
<1> SUFFICES ASSUME ListedInv, Validate PROVE ListedInv'
  OBVIOUS
<1>1. /\ activity = "validate" /\ batch' = "populate" /\ passed' = 0 /\ tree' = tree
      /\ manifest' \in ManifestType
      /\ activity' = IF Valid(manifest') THEN "open" ELSE "refused"
  BY SkeletonAssumption DEF Validate
<1>2. CourseInv'
  BY <1>1 DEF CourseInv
<1>3. SystemInv' /\ AuditInv'
  BY <1>1 DEF ListedInv, SystemInv, AuditInv
<1> QED BY <1>2, <1>3 DEF ListedInv

LEMMA OthersListed ==
  ASSUME ListedInv,
         \/ OpenListing \/ WriteListing \/ DebugfsEnds \/ UNCHANGED skeletonVars
  PROVE  ListedInv'
<1>1. /\ batch' = batch /\ manifest' = manifest /\ passed' = passed /\ tree' = tree
      /\ activity' = activity \/ activity' \in {"write", "run", "audit", "failed"}
      /\ activity' # activity => activity \in {"open", "write", "run"}
  BY DEF OpenListing, WriteListing, DebugfsEnds, skeletonVars
<1>2. CourseInv'
  BY <1>1 DEF ListedInv, CourseInv
<1>3. SystemInv'
  BY <1>1 DEF ListedInv, SystemInv
<1>4. AuditInv'
  <2>1. AuditManifest(manifest)' <=> AuditManifest(manifest)
    BY <1>1 DEF AuditManifest, Shown, ShownTarget
  <2> QED BY <1>1, <2>1 DEF ListedInv, AuditInv
<1> QED BY <1>2, <1>3, <1>4 DEF ListedInv

LEMMA ListedHolds == SkeletonSpec => []ListedInv
<1>1. ListedInv /\ [SkeletonNext]_skeletonVars => ListedInv'
  BY DebugfsCommandListed, AuditListed, ValidateListed, OthersListed DEF SkeletonNext
<1> QED BY <1>1, ListedStarts, PTL DEF SkeletonSpec

(***************************************************************************)
(* Whatever debugfs skipped, a populated file system has every entry of    *)
(* its manifest as listed, and the two nodes of the system as before.      *)
(***************************************************************************)
THEOREM SkeletonListed == SkeletonSpec => []SkeletonIsListed
<1>1. ListedInv => PopulatedAsListed
  <2> DEFINE d == manifest.directories
             s == manifest.symlinks
  <2> SUFFICES ASSUME ListedInv, activity = "done", NEW k \in DOMAIN Entries(manifest)
               PROVE  LET e == Entries(manifest)[k]
                          place == Locate(tree, e.path)
                      IN /\ place \in DOMAIN tree
                         /\ tree[place] = IF k > Len(d) THEN Node("symlink", LinkMeta(e), e.target)
                                          ELSE Node("directory", e.meta, NoTarget)
    BY DEF PopulatedAsListed
  <2>1. manifest \in ManifestType /\ IsTree(tree) /\ AuditManifest(manifest)
    BY DEF ListedInv, CourseInv, SystemInv, AuditInv
  <2>2. /\ Len(d) \in Nat /\ DOMAIN d = 1 .. Len(d) /\ Len(s) \in Nat /\ DOMAIN s = 1 .. Len(s)
    BY <2>1, ManifestHas
  <2>3. k \in 1 .. Len(d) + Len(s)
    BY <2>1, EntriesAre
  <2>4. CASE k <= Len(d)
    <3> DEFINE place == Locate(tree, d[k].path)
    <3>1. k \in 1 .. Len(d) /\ ~(k > Len(d))
      BY <2>2, <2>3, <2>4
    <3>2. Entries(manifest)[k] = d[k]
      BY <2>1, <3>1, EntriesAre
    <3>3. place \in DOMAIN tree /\ tree[place].type = "directory" /\ tree[place].meta = d[k].meta
      BY <2>1, <2>2, <3>1 DEF AuditManifest, Shown
    <3>4. tree[place] = Node("directory", d[k].meta, NoTarget)
      BY <2>1, <3>3 DEF IsTree, IsNode
    <3> HIDE DEF place
    <3> QED BY <3>1, <3>2, <3>3, <3>4 DEF place
  <2>5. CASE k > Len(d)
    <3> DEFINE i == k - Len(d)
               place == Locate(tree, s[i].path)
    <3>1. i \in 1 .. Len(s) /\ k = Len(d) + i
      <4> HIDE DEF d, s
      <4> QED BY <2>2, <2>3, <2>5
    <3> HIDE DEF i
    <3>2. Entries(manifest)[k] = s[i]
      BY <2>1, <3>1, EntriesAre
    <3>3. /\ place \in DOMAIN tree /\ tree[place].type = "symlink"
          /\ tree[place].meta = LinkMeta(s[i]) /\ tree[place].target = s[i].target
      BY <2>1, <2>2, <3>1 DEF AuditManifest, Shown, ShownTarget
    <3>4. tree[place] = Node("symlink", LinkMeta(s[i]), s[i].target)
      BY <2>1, <3>3 DEF IsTree, IsNode
    <3> HIDE DEF place
    <3> QED BY <2>5, <3>2, <3>3, <3>4 DEF place
  <2> QED BY <2>2, <2>3, <2>4, <2>5
<1>2. ListedInv => SystemNodesKept
  BY DEF ListedInv, SystemInv, SystemNodesKept
<1>3. ListedInv => SkeletonIsListed
  BY <1>1, <1>2 DEF SkeletonIsListed
<1> QED BY <1>3, ListedHolds, PTL

(***************************************************************************)
(* With a debugfs that skips nothing the tree grows as the manifest says.  *)
(* From(r) commands come before those of entry r, of which there are       *)
(* CommandsFor(r); NodeAfter(r, l) is its node after l of them.                  *)
(***************************************************************************)
From(r) ==
  LET m == Len(manifest.directories)
  IN IF r <= m THEN 4 * (r - 1) ELSE 4 * m + 3 * (r - m - 1)
CommandsFor(r) == IF r <= Len(manifest.directories) THEN 4 ELSE 3
EntryCount == Len(manifest.directories) + Len(manifest.symlinks)

NodeAfter(r, l) ==
  LET e == Entries(manifest)[r]
      since(k, setting) == IF k <= l THEN setting ELSE "new"
  IN IF r <= Len(manifest.directories)
       THEN Node("directory",
                 Meta(since(2, e.meta.mode), since(3, e.meta.uid), since(4, e.meta.gid)), NoTarget)
       ELSE Node("symlink", Meta("new", since(2, e.meta.uid), since(3, e.meta.gid)), e.target)
EntryCommand(r, l) ==
  LET e == Entries(manifest)[r]
  IN IF r <= Len(manifest.directories) THEN MakeDirectory(e)[l] ELSE MakeSymlink(e)[l]

Begun(k) == {r \in 1 .. EntryCount : From(r) < k}

HasParents(t) == \A p \in DOMAIN t : \A k \in 1 .. Len(p) - 1 : IsDirectory(t, SubSeq(p, 1, k))

NormalTree(t, k) ==
  t = [p \in {Root, LostFound} |->
         Node("directory",
              IF p = Root THEN Normal[Root]
              ELSE Meta("wanted", IF k >= 5 THEN "wanted" ELSE "new",
                        IF k >= 6 THEN "wanted" ELSE "new"), NoTarget)]

BuiltTree(t, k) ==
  /\ DOMAIN t = {Root, LostFound} \union {Entries(manifest)[r].path : r \in Begun(k)}
  /\ t[Root].type = "directory" /\ t[LostFound].type = "directory"
  /\ \A r \in Begun(k) : t[Entries(manifest)[r].path] = NodeAfter(r, k - From(r))
  /\ HasParents(t)

LEMMA FromIs ==
  ASSUME manifest \in ManifestType
  PROVE  /\ EntryCount \in Nat
         /\ \A r \in 1 .. EntryCount : From(r) \in Nat /\ CommandsFor(r) \in {3, 4}
         /\ \A i, r \in 1 .. EntryCount : i < r => From(i) + CommandsFor(i) <= From(r)
         /\ \A r \in 1 .. EntryCount : From(r) + CommandsFor(r) <= Len(Populate)
         /\ \A k \in 1 .. Len(Populate) :
              \E r \in 1 .. EntryCount : \E l \in 1 .. CommandsFor(r) : k = From(r) + l
         /\ \A r \in 1 .. EntryCount : \A l \in 1 .. CommandsFor(r) :
              Populate[From(r) + l] = EntryCommand(r, l)
<1> DEFINE d == manifest.directories
           s == manifest.symlinks
           a == Len(d)
           b == Len(s)
<1>1. a \in Nat /\ b \in Nat /\ Len(Populate) = 4 * a + 3 * b
  BY ManifestHas, PopulateIs
<1>2. /\ EntryCount = a + b
      /\ \A r : From(r) = IF r <= a THEN 4 * (r - 1) ELSE 4 * a + 3 * (r - a - 1)
      /\ \A r : CommandsFor(r) = IF r <= a THEN 4 ELSE 3
  BY DEF EntryCount, From, CommandsFor
<1>3. \A r \in 1 .. EntryCount : \A l \in 1 .. CommandsFor(r) :
        Populate[From(r) + l] = EntryCommand(r, l)
  <2> TAKE r \in 1 .. EntryCount
  <2> TAKE l \in 1 .. CommandsFor(r)
  <2>1. CASE r <= a
    <3>1. r \in 1 .. a /\ l \in 1 .. 4 /\ From(r) = 4 * (r - 1)
      <4> HIDE DEF a, b
      <4> QED BY <1>1, <1>2, <2>1
    <3>2. Entries(manifest)[r] = d[r]
      BY <3>1, EntriesAre
    <3>3. Populate[4 * (r - 1) + l] = MakeDirectory(d[r])[l]
      BY <3>1, PopulateIs
    <3> QED BY <2>1, <3>1, <3>2, <3>3 DEF EntryCommand
  <2>2. CASE ~(r <= a)
    <3> DEFINE i == r - a
    <3>1. i \in 1 .. b /\ l \in 1 .. 3 /\ From(r) = 4 * a + 3 * (i - 1) /\ r = a + i
      <4> HIDE DEF a, b
      <4> QED BY <1>1, <1>2, <2>2
    <3> HIDE DEF i
    <3>2. Entries(manifest)[r] = s[i]
      BY <3>1, EntriesAre
    <3>3. Populate[4 * a + 3 * (i - 1) + l] = MakeSymlink(s[i])[l]
      BY <3>1, PopulateIs
    <3> QED BY <2>2, <3>1, <3>2, <3>3 DEF EntryCommand
  <2> QED BY <2>1, <2>2
<1>4. \A k \in 1 .. Len(Populate) :
        \E r \in 1 .. EntryCount : \E l \in 1 .. CommandsFor(r) : k = From(r) + l
  <2> HIDE DEF a, b
  <2> TAKE k \in 1 .. Len(Populate)
  <2>1. CASE \E i \in 1 .. a, l \in 1 .. 4 : k = 4 * (i - 1) + l
    <3>1. PICK i \in 1 .. a, l \in 1 .. 4 : k = 4 * (i - 1) + l
      BY <2>1
    <3>2. i \in 1 .. EntryCount /\ l \in 1 .. CommandsFor(i) /\ k = From(i) + l
      BY <1>1, <1>2, <3>1
    <3> QED BY <3>2
  <2>2. CASE \E i \in 1 .. b, l \in 1 .. 3 : k = 4 * a + 3 * (i - 1) + l
    <3>1. PICK i \in 1 .. b, l \in 1 .. 3 : k = 4 * a + 3 * (i - 1) + l
      BY <2>2
    <3> DEFINE h == a + i
    <3>2. ~(h <= a) /\ h - a - 1 = i - 1 /\ h \in 1 .. a + b
      BY <1>1
    <3> HIDE DEF h
    <3>3. From(h) = 4 * a + 3 * (i - 1) /\ CommandsFor(h) = 3 /\ h \in 1 .. EntryCount
      BY <1>2, <3>2
    <3>4. l \in 1 .. CommandsFor(h) /\ k = From(h) + l
      BY <3>1, <3>3
    <3> QED BY <3>3, <3>4
  <2>3. k \in 1 .. 4 * a + 3 * b
    BY <1>1
  <2>4. \/ \E i \in 1 .. a, l \in 1 .. 4 : k = 4 * (i - 1) + l
        \/ \E i \in 1 .. b, l \in 1 .. 3 : k = 4 * a + 3 * (i - 1) + l
    BY <1>1, <2>3, CommandNumber
  <2> QED BY <2>1, <2>2, <2>4
<1> HIDE DEF a, b
<1>5. ASSUME NEW r \in 1 .. EntryCount
      PROVE  \/ r \in 1 .. a /\ From(r) = 4 * (r - 1) /\ CommandsFor(r) = 4
             \/ /\ r \in Int /\ a < r /\ r <= a + b
                /\ From(r) = 4 * a + 3 * (r - a - 1) /\ CommandsFor(r) = 3
  <2>1. r \in 1 .. a + b
    BY <1>2
  <2>2. CASE r <= a
    <3>1. From(r) = 4 * (r - 1) /\ CommandsFor(r) = 4
      BY <1>2, <2>2
    <3> QED BY <1>1, <2>1, <2>2, <3>1
  <2>3. CASE ~(r <= a)
    <3>1. From(r) = 4 * a + 3 * (r - a - 1) /\ CommandsFor(r) = 3
      BY <1>2, <2>3
    <3> QED BY <1>1, <2>1, <2>3, <3>1
  <2> QED BY <2>2, <2>3
<1>6. ASSUME NEW r \in 1 .. EntryCount
      PROVE  /\ From(r) \in Nat /\ CommandsFor(r) \in {3, 4}
             /\ From(r) + CommandsFor(r) <= Len(Populate)
             /\ \A i \in 1 .. EntryCount : i < r => From(i) + CommandsFor(i) <= From(r)
  <2>1. From(r) \in Nat /\ CommandsFor(r) \in {3, 4} /\ From(r) + CommandsFor(r) <= Len(Populate)
    BY <1>1, <1>5
  <2>2. ASSUME NEW i \in 1 .. EntryCount, i < r PROVE From(i) + CommandsFor(i) <= From(r)
    <3>1. \/ i \in 1 .. a /\ From(i) = 4 * (i - 1) /\ CommandsFor(i) = 4
          \/ /\ i \in Int /\ a < i /\ i <= a + b
             /\ From(i) = 4 * a + 3 * (i - a - 1) /\ CommandsFor(i) = 3
      BY <1>5
    <3>2. \/ r \in 1 .. a /\ From(r) = 4 * (r - 1) /\ CommandsFor(r) = 4
          \/ /\ r \in Int /\ a < r /\ r <= a + b
             /\ From(r) = 4 * a + 3 * (r - a - 1) /\ CommandsFor(r) = 3
      BY <1>5
    <3> QED BY <1>1, <2>2, <3>1, <3>2
  <2> QED BY <2>1, <2>2
<1>7. /\ \A r \in 1 .. EntryCount : From(r) \in Nat /\ CommandsFor(r) \in {3, 4}
      /\ \A i, r \in 1 .. EntryCount : i < r => From(i) + CommandsFor(i) <= From(r)
      /\ \A r \in 1 .. EntryCount : From(r) + CommandsFor(r) <= Len(Populate)
  BY <1>6
<1>8. EntryCount \in Nat
  BY <1>1, <1>2
<1> QED BY <1>3, <1>4, <1>7, <1>8

LEMMA EntryFits ==
  ASSUME manifest \in ManifestType, Valid(manifest), NEW r \in 1 .. EntryCount
  PROVE  LET e == Entries(manifest)[r] IN
         /\ e.path \in Seq(Names) /\ e.path # <<>> /\ e.path \notin {Root, LostFound}
         /\ e.meta \in Metas
         /\ \A i \in 1 .. EntryCount : Entries(manifest)[i].path = e.path => i = r
         /\ \/ Parent(e.path) \in {Root, LostFound}
            \/ \E i \in 1 .. r - 1 : Parent(e.path) = Entries(manifest)[i].path
<1> DEFINE d == manifest.directories
           s == manifest.symlinks
           E == Entries(manifest)
<1>1. Len(d) \in Nat /\ Len(s) \in Nat /\ EntryCount = Len(d) + Len(s)
      /\ DOMAIN E = 1 .. EntryCount
  BY ManifestHas, EntriesAre DEF EntryCount
<1>2. \A k \in 1 .. EntryCount : Fits(E, k)
  BY <1>1 DEF Valid
<1>3. E[r].path \in Seq(Names) /\ E[r].meta \in Metas
  <2>1. CASE r <= Len(d)
    <3>1. r \in 1 .. Len(d)
      <4> HIDE DEF d, s
      <4> QED BY <1>1, <2>1
    <3>2. E[r] = d[r]
      BY <3>1, EntriesAre
    <3> QED BY <3>1, <3>2, ManifestHas
  <2>2. CASE ~(r <= Len(d))
    <3> DEFINE i == r - Len(d)
    <3>1. i \in 1 .. Len(s) /\ r = Len(d) + i
      <4> HIDE DEF d, s
      <4> QED BY <1>1, <2>2
    <3> HIDE DEF i
    <3>2. E[r] = s[i]
      BY <3>1, EntriesAre
    <3> QED BY <3>1, <3>2, ManifestHas
  <2> QED BY <2>1, <2>2
<1> HIDE DEF E
<1>4. ASSUME NEW i \in 1 .. EntryCount, E[i].path = E[r].path PROVE i = r
  <2>1. CASE i < r
    <3>1. i \in 1 .. r - 1
      BY <1>1, <2>1
    <3> QED BY <1>2, <1>4, <3>1 DEF Fits, Seen
  <2>2. CASE r < i
    <3>1. r \in 1 .. i - 1
      BY <1>1, <2>2
    <3> QED BY <1>2, <1>4, <3>1 DEF Fits, Seen
  <2> QED BY <1>1, <2>1, <2>2
<1>5. /\ E[r].path # <<>> /\ E[r].path \notin {Root, LostFound}
      /\ \/ Parent(E[r].path) \in {Root, LostFound}
         \/ \E i \in 1 .. r - 1 : Parent(E[r].path) = E[i].path
  BY <1>2 DEF Fits, Safe, Seen
<1> QED BY <1>3, <1>4, <1>5 DEF E

LEMMA LocateDirect ==
  ASSUME NEW t, NEW path \in Seq(Names),
         \A k \in 1 .. Len(path) - 1 : IsDirectory(t, SubSeq(path, 1, k))
  PROVE  Locate(t, path) = path
<1> DEFINE route == Route(Root, path)
<1>1. \A k \in 1 .. Len(path) - 1 : Below(route, k) = SubSeq(path, 1, k)
  <2> TAKE k \in 1 .. Len(path) - 1
  <2>1. SubSeq(path, 1, k) \in Seq(Names)
    OBVIOUS
  <2>2. Below(route, k) = <<>> \o SubSeq(path, 1, k)
    BY DEF Below, Route, Root
  <2> HIDE DEF route
  <2> QED BY <2>1, <2>2
<1>2. Stops(t, route) = {}
  BY <1>1 DEF Stops, Route
<1>3. route.at \o route.names = path
  BY DEF Route, Root
<1>4. FollowLink(t, route) = route
  BY <1>2 DEF FollowLink
<1> HIDE DEF route
<1> QED BY <1>2, <1>3, <1>4 DEF Locate, FollowFour, FollowTwo, route

LEMMA ParentIs ==
  ASSUME NEW path \in Seq(Names), path # <<>>
  PROVE  /\ Parent(path) \in Seq(Names) /\ Len(Parent(path)) = Len(path) - 1
         /\ Append(Parent(path), path[Len(path)]) = path
         /\ \A k \in 1 .. Len(path) - 2 : SubSeq(Parent(path), 1, k) = SubSeq(path, 1, k)
<1> DEFINE n == Len(path)
           q == SubSeq(path, 1, n - 1)
<1>1. n \in Nat /\ n >= 1 /\ DOMAIN path = 1 .. n /\ path[n] \in Names
  OBVIOUS
<1>2. q \in Seq(Names) /\ Len(q) = n - 1 /\ \A i \in 1 .. n - 1 : q[i] = path[i]
  BY <1>1
<1>3. Parent(path) = q
  BY DEF Parent
<1> HIDE DEF q
<1>4. Append(q, path[n]) = path
  <2> DEFINE w == Append(q, path[n])
  <2> HIDE DEF n
  <2>1. w \in Seq(Names) /\ Len(w) = n
    BY <1>1, <1>2
  <2>2. w[n] = path[n] /\ \A i \in 1 .. n - 1 : w[i] = path[i]
    BY <1>1, <1>2
  <2> HIDE DEF w
  <2>3. \A i \in 1 .. n : w[i] = path[i]
    BY <1>1, <2>2
  <2>4. DOMAIN w = 1 .. n
    BY <2>1
  <2>5. w = [i \in 1 .. n |-> w[i]] /\ path = [i \in 1 .. n |-> path[i]]
    BY <1>1, <2>1, <2>4
  <2>6. w = path
    BY <2>3, <2>5
  <2> QED BY <2>6 DEF w
<1>5. ASSUME NEW k \in 1 .. n - 2 PROVE SubSeq(q, 1, k) = SubSeq(path, 1, k)
  <2>1. /\ SubSeq(q, 1, k) \in Seq(Names) /\ Len(SubSeq(q, 1, k)) = k
        /\ \A i \in 1 .. k : SubSeq(q, 1, k)[i] = q[i]
    BY <1>1, <1>2
  <2>2. /\ SubSeq(path, 1, k) \in Seq(Names) /\ Len(SubSeq(path, 1, k)) = k
        /\ \A i \in 1 .. k : SubSeq(path, 1, k)[i] = path[i]
    BY <1>1
  <2>3. \A i \in 1 .. k : i \in 1 .. n - 1
    BY <1>1
  <2> QED BY <1>2, <2>1, <2>2, <2>3
<1> QED BY <1>2, <1>3, <1>4, <1>5

LEMMA MakeEffect ==
  ASSUME IsTree(tree), HasParents(tree), NEW path \in Seq(Names), path # <<>>,
         path \notin DOMAIN tree, IsDirectory(tree, Parent(path)),
         path[Len(path)] \notin LongNames, NEW type, NEW target
  PROVE  LET t == Effect(Make(type, path, target)) IN
         /\ t = [p \in DOMAIN tree \union {path} |->
                   IF p = path THEN Node(type, Meta("new", "new", "new"), target) ELSE tree[p]]
         /\ HasParents(t)
<1> DEFINE c == Make(type, path, target)
           node == Node(type, Meta("new", "new", "new"), target)
           t == [p \in DOMAIN tree \union {path} |-> IF p = path THEN node ELSE tree[p]]
<1>1. /\ Parent(path) \in Seq(Names) /\ Len(Parent(path)) = Len(path) - 1 /\ Len(path) \in Nat
      /\ Append(Parent(path), path[Len(path)]) = path
      /\ \A k \in 1 .. Len(path) - 2 : SubSeq(Parent(path), 1, k) = SubSeq(path, 1, k)
  BY ParentIs
<1>2. \A k \in 1 .. Len(path) - 2 : IsDirectory(tree, SubSeq(path, 1, k))
  <2> TAKE k \in 1 .. Len(path) - 2
  <2>1. k \in 1 .. Len(Parent(path)) - 1
    BY <1>1
  <2> QED BY <1>1, <2>1 DEF HasParents, IsDirectory
<1>3. Locate(tree, Parent(path)) = Parent(path)
  <2>1. \A k \in 1 .. Len(Parent(path)) - 1 : IsDirectory(tree, SubSeq(Parent(path), 1, k))
    BY DEF HasParents, IsDirectory
  <2> QED BY <1>1, <2>1, LocateDirect
<1>4. Place(path) = path
  BY <1>1, <1>3 DEF Place
<1>5. CanCreate(path)
  BY <1>3, <1>4 DEF CanCreate
<1>6. c.op = "make" /\ c.path = path /\ c.node = node
  BY DEF Make
<1>7. Effect(c) = t
  BY <1>4, <1>5, <1>6 DEF Effect
<1>8. \A q : IsDirectory(tree, q) => IsDirectory(t, q)
  BY DEF IsDirectory
<1>9. HasParents(t)
  <2> SUFFICES ASSUME NEW p \in DOMAIN t, NEW k \in 1 .. Len(p) - 1
               PROVE  IsDirectory(t, SubSeq(p, 1, k))
    BY DEF HasParents
  <2>1. CASE p = path /\ k = Len(path) - 1
    BY <1>8, <2>1 DEF Parent
  <2>2. CASE p = path /\ k # Len(path) - 1
    <3>1. k \in 1 .. Len(path) - 2
      BY <1>1, <2>2
    <3> QED BY <1>2, <1>8, <2>2, <3>1
  <2>3. CASE p # path
    <3>1. p \in DOMAIN tree
      BY <2>3
    <3> HIDE DEF t
    <3> QED BY <1>8, <3>1 DEF HasParents
  <2> HIDE DEF t
  <2> QED BY <2>1, <2>2, <2>3
<1> HIDE DEF t, c
<1> QED BY <1>7, <1>9 DEF t, c

LEMMA SetEffect ==
  ASSUME IsTree(tree), HasParents(tree), NEW path \in DOMAIN tree,
         NEW field \in {"mode", "uid", "gid"}, NEW setting
  PROVE  LET t == Effect(Set(path, field, setting)) IN
         /\ t = [tree EXCEPT ![path].meta[field] = setting]
         /\ HasParents(t)
<1> DEFINE c == Set(path, field, setting)
           t == [tree EXCEPT ![path].meta[field] = setting]
<1>1. Locate(tree, path) = path
  <2>1. path \in Seq(Names) /\ \A k \in 1 .. Len(path) - 1 : IsDirectory(tree, SubSeq(path, 1, k))
    BY DEF IsTree, HasParents
  <2> QED BY <2>1, LocateDirect
<1>2. c.op = "set" /\ c.path = path /\ c.field = field /\ c.value = setting
  BY DEF Set
<1>3. Effect(c) = t
  BY <1>1, <1>2 DEF Effect
<1>4. DOMAIN t = DOMAIN tree /\ \A p \in DOMAIN tree : t[p].type = tree[p].type
  <2>1. tree[path] = Node(tree[path].type, tree[path].meta, tree[path].target)
    BY DEF IsTree, IsNode
  <2> QED BY <2>1 DEF Node
<1> HIDE DEF t, c
<1>5. HasParents(t)
  BY <1>4 DEF HasParents, IsDirectory
<1> QED BY <1>3, <1>5 DEF t, c

LEMMA SystemParents ==
  ASSUME NEW t, DOMAIN t = {Root, LostFound}
  PROVE  HasParents(t)
<1>1. \A p \in DOMAIN t : Len(p) \in {0, 1}
  BY NoPlaceIs
<1>2. \A n \in {0, 1} : \A k \in 1 .. n - 1 : FALSE
  OBVIOUS
<1> QED BY <1>1, <1>2 DEF HasParents

LEMMA NormalStep ==
  ASSUME IsTree(tree), passed \in 0 .. 5, NormalTree(tree, passed)
  PROVE  NormalTree(Effect(Normalize[passed + 1]), passed + 1)
<1> DEFINE lost(k) == Meta("wanted", IF k >= 5 THEN "wanted" ELSE "new",
                           IF k >= 6 THEN "wanted" ELSE "new")
           T == Effect(Normalize[passed + 1])
<1>1. Root # LostFound /\ Normal[Root] = Meta("wanted", "wanted", "wanted")
  BY NoPlaceIs DEF Normal
<1>2. /\ DOMAIN tree = {Root, LostFound}
      /\ tree[Root] = Node("directory", Normal[Root], NoTarget)
      /\ tree[LostFound] = Node("directory", lost(passed), NoTarget)
  BY <1>1 DEF NormalTree
<1>3. HasParents(tree)
  BY <1>2, SystemParents
<1>4. ASSUME NEW p \in {Root, LostFound}, NEW f \in {"mode", "uid", "gid"},
             NEW meta, [tree[p].meta EXCEPT ![f] = "wanted"] = meta
      PROVE  Effect(Set(p, f, "wanted"))
               = [q \in {Root, LostFound} |->
                    IF q = p THEN Node("directory", meta, NoTarget) ELSE tree[q]]
  <2>1. Effect(Set(p, f, "wanted")) = [tree EXCEPT ![p].meta[f] = "wanted"]
    <3>1. p \in DOMAIN tree
      BY <1>2
    <3> QED BY <1>3, <3>1, SetEffect
  <2>2. [tree[p] EXCEPT !.meta[f] = "wanted"] = Node("directory", meta, NoTarget)
    <3>1. tree[p] = Node("directory", tree[p].meta, NoTarget)
      BY <1>2 DEF Node
    <3> QED BY <1>4, <3>1 DEF Node
  <2> QED BY <1>2, <2>1, <2>2
<1>5. ASSUME NEW f \in {"mode", "uid", "gid"}, Normalize[passed + 1] = Set(Root, f, "wanted"),
             lost(passed + 1) = lost(passed)
      PROVE  NormalTree(Effect(Normalize[passed + 1]), passed + 1)
  <2>1. [tree[Root].meta EXCEPT ![f] = "wanted"] = Normal[Root]
    BY <1>1, <1>2 DEF Meta, Node
  <2>2. T = [q \in {Root, LostFound} |-> IF q = Root THEN Node("directory", Normal[Root], NoTarget)
                                         ELSE tree[q]]
    BY <1>4, <1>5, <2>1
  <2> HIDE DEF T, lost
  <2>3. T = [q \in {Root, LostFound} |->
               Node("directory", IF q = Root THEN Normal[Root] ELSE lost(passed + 1), NoTarget)]
    BY <1>1, <1>2, <1>5, <2>2
  <2> QED BY <2>3 DEF NormalTree, lost, T
<1>6. ASSUME NEW f \in {"mode", "uid", "gid"}, Normalize[passed + 1] = Set(LostFound, f, "wanted"),
             [lost(passed) EXCEPT ![f] = "wanted"] = lost(passed + 1)
      PROVE  NormalTree(Effect(Normalize[passed + 1]), passed + 1)
  <2>1. tree[LostFound].meta = lost(passed)
    BY <1>2 DEF Node
  <2>2. T = [q \in {Root, LostFound} |-> IF q = LostFound
                                         THEN Node("directory", lost(passed + 1), NoTarget)
                                         ELSE tree[q]]
    BY <1>4, <1>6, <2>1
  <2> HIDE DEF T, lost
  <2>3. T = [q \in {Root, LostFound} |->
               Node("directory", IF q = Root THEN Normal[Root] ELSE lost(passed + 1), NoTarget)]
    BY <1>1, <1>2, <1>6, <2>2
  <2> QED BY <2>3 DEF NormalTree, lost, T
<1>7. CASE passed \in 0 .. 2
  <2>1. lost(passed + 1) = lost(passed)
    BY <1>7
  <2>2. PICK f \in {"mode", "uid", "gid"} : Normalize[passed + 1] = Set(Root, f, "wanted")
    BY <1>7, NormalizeIs
  <2> HIDE DEF lost
  <2> QED BY <1>5, <2>1, <2>2
<1>8. CASE passed = 3
  <2>1. [lost(passed) EXCEPT !["mode"] = "wanted"] = lost(passed + 1)
    BY <1>8 DEF Meta
  <2>2. Normalize[passed + 1] = Set(LostFound, "mode", "wanted")
    BY <1>8, NormalizeIs
  <2> HIDE DEF lost
  <2> QED BY <1>6, <2>1, <2>2
<1>9. CASE passed = 4
  <2>1. [lost(passed) EXCEPT !["uid"] = "wanted"] = lost(passed + 1)
    BY <1>9 DEF Meta
  <2>2. Normalize[passed + 1] = Set(LostFound, "uid", "wanted")
    BY <1>9, NormalizeIs
  <2> HIDE DEF lost
  <2> QED BY <1>6, <2>1, <2>2
<1>10. CASE passed = 5
  <2>1. [lost(passed) EXCEPT !["gid"] = "wanted"] = lost(passed + 1)
    BY <1>10 DEF Meta
  <2>2. Normalize[passed + 1] = Set(LostFound, "gid", "wanted")
    BY <1>10, NormalizeIs
  <2> HIDE DEF lost
  <2> QED BY <1>6, <2>1, <2>2
<1> QED BY <1>7, <1>8, <1>9, <1>10

LEMMA NodeGrows ==
  ASSUME NEW r \in 1 .. EntryCount, NEW l \in 2 .. CommandsFor(r)
  PROVE  \E field \in {"mode", "uid", "gid"} : \E setting :
           /\ EntryCommand(r, l) = Set(Entries(manifest)[r].path, field, setting)
           /\ NodeAfter(r, l) = [NodeAfter(r, l - 1) EXCEPT !.meta[field] = setting]
<1> DEFINE e == Entries(manifest)[r]
<1> HIDE DEF e
<1>1. CASE r <= Len(manifest.directories)
  <2>1. l \in 2 .. 4
    BY <1>1 DEF CommandsFor
  <2>2. \A k \in Nat : NodeAfter(r, k) = Node("directory",
          Meta(IF 2 <= k THEN e.meta.mode ELSE "new", IF 3 <= k THEN e.meta.uid ELSE "new",
               IF 4 <= k THEN e.meta.gid ELSE "new"), NoTarget)
    BY <1>1 DEF NodeAfter, e
  <2>3. EntryCommand(r, l) = MakeDirectory(e)[l]
    BY <1>1 DEF EntryCommand, e
  <2>4. CASE l = 2
    <3>1. NodeAfter(r, 2) = [NodeAfter(r, 1) EXCEPT !.meta["mode"] = e.meta.mode]
      BY <2>2 DEF Node, Meta
    <3>2. EntryCommand(r, l) = Set(e.path, "mode", e.meta.mode)
      BY <2>3, <2>4, MakesAre
    <3>3. NodeAfter(r, l) = [NodeAfter(r, l - 1) EXCEPT !.meta["mode"] = e.meta.mode]
      BY <2>4, <3>1
    <3> QED BY <3>2, <3>3 DEF e
  <2>5. CASE l = 3
    <3>1. NodeAfter(r, 3) = [NodeAfter(r, 2) EXCEPT !.meta["uid"] = e.meta.uid]
      BY <2>2 DEF Node, Meta
    <3>2. EntryCommand(r, l) = Set(e.path, "uid", e.meta.uid)
      BY <2>3, <2>5, MakesAre
    <3>3. NodeAfter(r, l) = [NodeAfter(r, l - 1) EXCEPT !.meta["uid"] = e.meta.uid]
      BY <2>5, <3>1
    <3> QED BY <3>2, <3>3 DEF e
  <2>6. CASE l = 4
    <3>1. NodeAfter(r, 4) = [NodeAfter(r, 3) EXCEPT !.meta["gid"] = e.meta.gid]
      BY <2>2 DEF Node, Meta
    <3>2. EntryCommand(r, l) = Set(e.path, "gid", e.meta.gid)
      BY <2>3, <2>6, MakesAre
    <3>3. NodeAfter(r, l) = [NodeAfter(r, l - 1) EXCEPT !.meta["gid"] = e.meta.gid]
      BY <2>6, <3>1
    <3> QED BY <3>2, <3>3 DEF e
  <2> QED BY <2>1, <2>4, <2>5, <2>6
<1>2. CASE ~(r <= Len(manifest.directories))
  <2>1. l \in 2 .. 3
    BY <1>2 DEF CommandsFor
  <2>2. \A k \in Nat : NodeAfter(r, k) = Node("symlink",
          Meta("new", IF 2 <= k THEN e.meta.uid ELSE "new", IF 3 <= k THEN e.meta.gid ELSE "new"),
          e.target)
    BY <1>2 DEF NodeAfter, e
  <2>3. EntryCommand(r, l) = MakeSymlink(e)[l]
    BY <1>2 DEF EntryCommand, e
  <2>4. CASE l = 2
    <3>1. NodeAfter(r, 2) = [NodeAfter(r, 1) EXCEPT !.meta["uid"] = e.meta.uid]
      BY <2>2 DEF Node, Meta
    <3>2. EntryCommand(r, l) = Set(e.path, "uid", e.meta.uid)
      BY <2>3, <2>4, MakesAre
    <3>3. NodeAfter(r, l) = [NodeAfter(r, l - 1) EXCEPT !.meta["uid"] = e.meta.uid]
      BY <2>4, <3>1
    <3> QED BY <3>2, <3>3 DEF e
  <2>5. CASE l = 3
    <3>1. NodeAfter(r, 3) = [NodeAfter(r, 2) EXCEPT !.meta["gid"] = e.meta.gid]
      BY <2>2 DEF Node, Meta
    <3>2. EntryCommand(r, l) = Set(e.path, "gid", e.meta.gid)
      BY <2>3, <2>5, MakesAre
    <3>3. NodeAfter(r, l) = [NodeAfter(r, l - 1) EXCEPT !.meta["gid"] = e.meta.gid]
      BY <2>5, <3>1
    <3> QED BY <3>2, <3>3 DEF e
  <2> QED BY <2>1, <2>4, <2>5
<1> QED BY <1>1, <1>2

LEMMA NodeStarts ==
  ASSUME NEW r \in 1 .. EntryCount
  PROVE  \E type, target :
           /\ EntryCommand(r, 1) = Make(type, Entries(manifest)[r].path, target)
           /\ NodeAfter(r, 1) = Node(type, Meta("new", "new", "new"), target)
<1> DEFINE e == Entries(manifest)[r]
           fresh == Meta("new", "new", "new")
<1> HIDE DEF e
<1>1. CASE r <= Len(manifest.directories)
  <2>1. EntryCommand(r, 1) = MakeDirectory(e)[1]
    BY <1>1 DEF EntryCommand, e
  <2>2. EntryCommand(r, 1) = Make("directory", e.path, NoTarget)
    BY <2>1, MakesAre
  <2>3. NodeAfter(r, 1) = Node("directory", fresh, NoTarget)
    BY <1>1 DEF NodeAfter
  <2> QED BY <2>2, <2>3 DEF e
<1>2. CASE ~(r <= Len(manifest.directories))
  <2>1. EntryCommand(r, 1) = MakeSymlink(e)[1]
    BY <1>2 DEF EntryCommand, e
  <2>2. EntryCommand(r, 1) = Make("symlink", e.path, e.target)
    BY <2>1, MakesAre
  <2>3. NodeAfter(r, 1) = Node("symlink", fresh, e.target)
    BY <1>2 DEF NodeAfter, e
  <2> QED BY <2>2, <2>3 DEF e
<1> QED BY <1>1, <1>2

\* The settings of the entry: with a link, but for its mode.
LEMMA NodeEnds ==
  ASSUME manifest \in ManifestType, NEW r \in 1 .. EntryCount, NEW l \in Nat, l >= CommandsFor(r)
  PROVE  LET e == Entries(manifest)[r] IN
         NodeAfter(r, l) = IF r <= Len(manifest.directories)
                           THEN Node("directory",
                                     Meta(e.meta.mode, e.meta.uid, e.meta.gid), NoTarget)
                           ELSE Node("symlink", Meta("new", e.meta.uid, e.meta.gid), e.target)
BY DEF NodeAfter, CommandsFor

LEMMA BegunIs ==
  ASSUME manifest \in ManifestType, NEW n \in Nat, NEW r \in 1 .. EntryCount,
         NEW l \in 1 .. CommandsFor(r), n + 1 = From(r) + l
  PROVE  /\ Begun(n + 1) = Begun(n) \union {r}
         /\ r \in Begun(n) <=> l # 1
         /\ \A i \in 1 .. r - 1 : i \in Begun(n)
         /\ \A i \in Begun(n) :
              i # r => i \in 1 .. r - 1 /\ n - From(i) >= CommandsFor(i) /\ From(i) \in Nat
<1>1. /\ EntryCount \in Nat
      /\ \A i \in 1 .. EntryCount : From(i) \in Nat /\ CommandsFor(i) \in {3, 4}
      /\ \A h, i \in 1 .. EntryCount : h < i => From(h) + CommandsFor(h) <= From(i)
  BY FromIs
<1>2. \A i \in 1 .. r - 1 : i \in 1 .. EntryCount /\ From(i) + CommandsFor(i) <= n
  BY <1>1
<1>3. \A i \in 1 .. EntryCount : i > r => From(i) >= n + 1
  BY <1>1
<1>4. From(r) <= n /\ (From(r) < n <=> l # 1)
  BY <1>1
<1>5. \A i \in 1 .. EntryCount : i # r => i \in 1 .. r - 1 \/ i > r
  BY <1>1
<1>6. \A i \in 1 .. EntryCount : i \in Begun(n + 1) <=> i \in Begun(n) \/ i = r
  <2> TAKE i \in 1 .. EntryCount
  <2>1. CASE i = r
    BY <1>1, <1>4, <2>1 DEF Begun
  <2>2. CASE i \in 1 .. r - 1
    BY <1>1, <1>2, <2>2 DEF Begun
  <2>3. CASE i > r
    BY <1>1, <1>3, <2>3 DEF Begun
  <2> QED BY <1>5, <2>1, <2>2, <2>3
<1>7. Begun(n + 1) = Begun(n) \union {r}
  BY <1>6 DEF Begun
<1>8. r \in Begun(n) <=> l # 1
  BY <1>4 DEF Begun
<1>9. \A i \in 1 .. r - 1 : i \in Begun(n)
  BY <1>1, <1>2 DEF Begun
<1>10. ASSUME NEW i \in Begun(n), i # r
       PROVE  i \in 1 .. r - 1 /\ n - From(i) >= CommandsFor(i) /\ From(i) \in Nat
  <2>1. i \in 1 .. EntryCount /\ From(i) < n
    BY DEF Begun
  <2>2. i \in 1 .. r - 1
    BY <1>1, <1>3, <1>5, <1>10, <2>1
  <2> QED BY <1>1, <1>2, <2>1, <2>2
<1> QED BY <1>7, <1>8, <1>9, <1>10

\* Nothing changes a finished entry.
LEMMA NodeStays ==
  ASSUME manifest \in ManifestType, NEW i \in 1 .. EntryCount, NEW n \in Nat, From(i) \in Nat,
         CommandsFor(i) \in {3, 4}, n - From(i) >= CommandsFor(i)
  PROVE  NodeAfter(i, n - From(i)) = NodeAfter(i, (n + 1) - From(i))
<1> DEFINE k == n - From(i)
<1>1. k \in Nat /\ k + 1 >= CommandsFor(i) /\ k >= CommandsFor(i) /\ (n + 1) - From(i) = k + 1
  OBVIOUS
<1> HIDE DEF k
<1>2. NodeAfter(i, k) = NodeAfter(i, k + 1)
  BY <1>1, NodeEnds
<1> QED BY <1>1, <1>2 DEF k

\* Of an entry that can be built debugfs takes the name and shows the owners.
LEMMA EntryBuildable ==
  ASSUME manifest \in ManifestType, Buildable(manifest), NEW r \in 1 .. EntryCount
  PROVE  /\ Readable(Entries(manifest)[r].meta)
         /\ \A i \in DOMAIN Entries(manifest)[r].path : Entries(manifest)[r].path[i] \notin LongNames
<1>1. r \in DOMAIN Entries(manifest)
  BY EntriesAre DEF EntryCount
<1> QED BY <1>1 DEF Buildable

\* What stands above an entry is a directory.
LEMMA ParentListed ==
  ASSUME manifest \in ManifestType, Buildable(manifest), NEW r \in 1 .. EntryCount,
         NEW i \in 1 .. r - 1, Parent(Entries(manifest)[r].path) = Entries(manifest)[i].path
  PROVE  i <= Len(manifest.directories)
<1> DEFINE d == manifest.directories
           s == manifest.symlinks
           a == Len(d)
           b == Len(s)
<1>1. a \in Nat /\ b \in Nat /\ DOMAIN s = 1 .. b
  BY ManifestHas
<1>2. \A k \in 1 .. b : Entries(manifest)[a + k] = s[k]
  BY EntriesAre
<1>3. \A k \in 1 .. b : Parent(s[k].path) \notin {s[h].path : h \in 1 .. b}
  BY <1>1 DEF Buildable, Paths
<1>4. r \in 1 .. a + b
  BY DEF EntryCount
<1> HIDE DEF a, b, s
<1>5. ASSUME ~(i <= a) PROVE FALSE
  <2>1. i - a \in 1 .. b /\ r - a \in 1 .. b /\ a + (i - a) = i /\ a + (r - a) = r
    BY <1>1, <1>4, <1>5
  <2>2. Entries(manifest)[i] = s[i - a] /\ Entries(manifest)[r] = s[r - a]
    BY <1>2, <2>1
  <2> QED BY <1>3, <2>1, <2>2
<1> QED BY <1>5 DEF a

\* The command that makes an entry finds its parent, and the place free.
LEMMA MakeStep ==
  ASSUME manifest \in ManifestType, Valid(manifest), Buildable(manifest), IsTree(tree),
         NEW n \in Nat, BuiltTree(tree, n),
         NEW r \in 1 .. EntryCount, n = From(r)
  PROVE  BuiltTree(Effect(EntryCommand(r, 1)), n + 1)
<1> DEFINE e == Entries(manifest)[r]
           T == Effect(EntryCommand(r, 1))
<1>1. /\ Begun(n + 1) = Begun(n) \union {r} /\ r \notin Begun(n)
      /\ \A i \in 1 .. r - 1 : i \in Begun(n)
      /\ \A i \in Begun(n) :
              i # r => i \in 1 .. r - 1 /\ n - From(i) >= CommandsFor(i) /\ From(i) \in Nat
  <2>1. CommandsFor(r) \in {3, 4}
    BY FromIs
  <2>2. 1 \in 1 .. CommandsFor(r) /\ n + 1 = From(r) + 1
    BY <2>1
  <2> QED BY <2>2, BegunIs
<1>2. /\ e.path \in Seq(Names) /\ e.path # <<>> /\ e.path \notin {Root, LostFound}
      /\ \A i \in 1 .. EntryCount : Entries(manifest)[i].path = e.path => i = r
      /\ \/ Parent(e.path) \in {Root, LostFound}
         \/ \E i \in 1 .. r - 1 : Parent(e.path) = Entries(manifest)[i].path
  BY EntryFits
<1>3. /\ DOMAIN tree = {Root, LostFound} \union {Entries(manifest)[i].path : i \in Begun(n)}
      /\ tree[Root].type = "directory" /\ tree[LostFound].type = "directory"
      /\ \A i \in Begun(n) : tree[Entries(manifest)[i].path] = NodeAfter(i, n - From(i))
      /\ HasParents(tree)
  BY DEF BuiltTree
<1>4. \A i \in Begun(n) : i \in 1 .. EntryCount
  BY DEF Begun
<1>5. e.path \notin DOMAIN tree
  BY <1>1, <1>2, <1>3, <1>4
<1>6. IsDirectory(tree, Parent(e.path))
  <2>1. CASE Parent(e.path) \in {Root, LostFound}
    BY <1>3, <2>1 DEF IsDirectory
  <2>2. CASE \E i \in 1 .. r - 1 : Parent(e.path) = Entries(manifest)[i].path
    <3>1. PICK i \in 1 .. r - 1 : Parent(e.path) = Entries(manifest)[i].path
      BY <2>2
    <3>2. i <= Len(manifest.directories)
      BY <3>1, ParentListed
    <3>3. tree[Parent(e.path)] = NodeAfter(i, n - From(i)) /\ Parent(e.path) \in DOMAIN tree
      BY <1>1, <1>3, <3>1
    <3>4. NodeAfter(i, n - From(i)).type = "directory"
      BY <3>2 DEF NodeAfter, Node
    <3> QED BY <3>3, <3>4 DEF IsDirectory
  <2> QED BY <1>2, <2>1, <2>2
<1>7. PICK type, target : /\ EntryCommand(r, 1) = Make(type, e.path, target)
                          /\ NodeAfter(r, 1) = Node(type, Meta("new", "new", "new"), target)
  BY NodeStarts
<1> HIDE DEF e
<1>8. /\ T = [p \in DOMAIN tree \union {e.path} |-> IF p = e.path THEN NodeAfter(r, 1) ELSE tree[p]]
      /\ HasParents(T)
  <2> DEFINE U == Effect(Make(type, e.path, target))
             node == Node(type, Meta("new", "new", "new"), target)
  <2>1. e.path[Len(e.path)] \notin LongNames
    BY <1>2, EntryBuildable DEF e
  <2>2. /\ U = [p \in DOMAIN tree \union {e.path} |-> IF p = e.path THEN node ELSE tree[p]]
        /\ HasParents(U)
    BY <1>2, <1>3, <1>5, <1>6, <2>1, MakeEffect
  <2>3. T = U /\ NodeAfter(r, 1) = node
    BY <1>7
  <2> HIDE DEF T, U, node
  <2> QED BY <2>2, <2>3
<1> HIDE DEF T
<1>9. DOMAIN T = {Root, LostFound} \union {Entries(manifest)[i].path : i \in Begun(n + 1)}
  <2>1. DOMAIN T = DOMAIN tree \union {e.path}
    BY <1>8
  <2> QED BY <1>1, <1>3, <2>1 DEF e
<1>10. T[Root].type = "directory" /\ T[LostFound].type = "directory"
  BY <1>2, <1>3, <1>8
<1>11. ASSUME NEW i \in Begun(n + 1)
       PROVE  T[Entries(manifest)[i].path] = NodeAfter(i, (n + 1) - From(i))
  <2>1. CASE i = r
    <3>1. (n + 1) - From(r) = 1
      BY FromIs
    <3>2. T[e.path] = NodeAfter(r, 1)
      BY <1>8
    <3> QED BY <2>1, <3>1, <3>2 DEF e
  <2>2. CASE i # r
    <3>1. i \in Begun(n) /\ i \in 1 .. EntryCount /\ From(i) \in Nat
          /\ n - From(i) >= CommandsFor(i) /\ CommandsFor(i) \in {3, 4}
      BY <1>1, <1>4, <2>2, FromIs
    <3>2. T[Entries(manifest)[i].path] = tree[Entries(manifest)[i].path]
      BY <1>2, <1>3, <1>8, <2>2, <3>1
    <3>3. NodeAfter(i, n - From(i)) = NodeAfter(i, (n + 1) - From(i))
      BY <3>1, NodeStays
    <3> QED BY <1>3, <3>1, <3>2, <3>3
  <2> QED BY <2>1, <2>2
<1>12. \A i \in Begun(n + 1) : T[Entries(manifest)[i].path] = NodeAfter(i, (n + 1) - From(i))
  BY <1>11
<1>13. HasParents(T)
  BY <1>8
<1>14. BuiltTree(T, n + 1)
  BY <1>9, <1>10, <1>12, <1>13 DEF BuiltTree
<1> QED BY <1>14 DEF T

\* Every further one finds the entry.
LEMMA SetStep ==
  ASSUME manifest \in ManifestType, Valid(manifest), IsTree(tree),
         NEW n \in Nat, BuiltTree(tree, n),
         NEW r \in 1 .. EntryCount, NEW l \in 2 .. CommandsFor(r), n + 1 = From(r) + l
  PROVE  BuiltTree(Effect(EntryCommand(r, l)), n + 1)
<1> DEFINE e == Entries(manifest)[r]
           T == Effect(EntryCommand(r, l))
<1>1. /\ Begun(n + 1) = Begun(n) /\ r \in Begun(n)
      /\ \A i \in Begun(n) : i # r => n - From(i) >= CommandsFor(i) /\ From(i) \in Nat
  <2>1. l \in 1 .. CommandsFor(r) /\ l # 1
    BY FromIs
  <2>2. /\ Begun(n + 1) = Begun(n) \union {r} /\ (r \in Begun(n) <=> l # 1)
        /\ \A i \in Begun(n) : i # r => n - From(i) >= CommandsFor(i) /\ From(i) \in Nat
    BY <2>1, BegunIs
  <2> QED BY <2>1, <2>2
<1>2. /\ e.path \notin {Root, LostFound}
      /\ \A i \in 1 .. EntryCount : Entries(manifest)[i].path = e.path => i = r
  BY EntryFits
<1>3. /\ DOMAIN tree = {Root, LostFound} \union {Entries(manifest)[i].path : i \in Begun(n)}
      /\ tree[Root].type = "directory" /\ tree[LostFound].type = "directory"
      /\ \A i \in Begun(n) : tree[Entries(manifest)[i].path] = NodeAfter(i, n - From(i))
      /\ HasParents(tree)
  BY DEF BuiltTree
<1>4. \A i \in Begun(n) : i \in 1 .. EntryCount
  BY DEF Begun
<1>5. e.path \in DOMAIN tree /\ tree[e.path] = NodeAfter(r, l - 1)
  <2>1. n - From(r) = l - 1
    BY FromIs
  <2> QED BY <1>1, <1>3, <2>1
<1>6. PICK field \in {"mode", "uid", "gid"} : \E setting :
        /\ EntryCommand(r, l) = Set(e.path, field, setting)
        /\ NodeAfter(r, l) = [NodeAfter(r, l - 1) EXCEPT !.meta[field] = setting]
  BY NodeGrows
<1>7. PICK setting :
        /\ EntryCommand(r, l) = Set(e.path, field, setting)
        /\ NodeAfter(r, l) = [NodeAfter(r, l - 1) EXCEPT !.meta[field] = setting]
  BY <1>6
<1> HIDE DEF e
<1>8. T = [tree EXCEPT ![e.path] = NodeAfter(r, l)] /\ HasParents(T)
  <2> DEFINE U == Effect(Set(e.path, field, setting))
  <2> HIDE DEF T
  <2>1. HasParents(tree) /\ e.path \in DOMAIN tree
    BY <1>3, <1>5
  <2>2. U = [tree EXCEPT ![e.path].meta[field] = setting] /\ HasParents(U)
    BY <2>1, SetEffect
  <2>3. T = U
    BY <1>7 DEF T
  <2>4. [tree EXCEPT ![e.path].meta[field] = setting] = [tree EXCEPT ![e.path] = NodeAfter(r, l)]
    BY <1>5, <1>7
  <2> HIDE DEF T, U
  <2> QED BY <2>2, <2>3, <2>4
<1> HIDE DEF T
<1>9. DOMAIN T = {Root, LostFound} \union {Entries(manifest)[i].path : i \in Begun(n + 1)}
  BY <1>1, <1>3, <1>8
<1>10. T[Root].type = "directory" /\ T[LostFound].type = "directory"
  BY <1>2, <1>3, <1>8
<1>11. ASSUME NEW i \in Begun(n + 1)
       PROVE  T[Entries(manifest)[i].path] = NodeAfter(i, (n + 1) - From(i))
  <2>1. CASE i = r
    <3>1. (n + 1) - From(r) = l
      <4>1. From(r) \in Nat
        BY FromIs
      <4> QED BY <4>1
    <3>2. T[e.path] = NodeAfter(r, l)
      BY <1>5, <1>8
    <3> QED BY <2>1, <3>1, <3>2 DEF e
  <2>2. CASE i # r
    <3>1. i \in Begun(n) /\ i \in 1 .. EntryCount /\ From(i) \in Nat
          /\ n - From(i) >= CommandsFor(i) /\ CommandsFor(i) \in {3, 4}
      BY <1>1, <1>4, <1>11, <2>2, FromIs
    <3>2. T[Entries(manifest)[i].path] = tree[Entries(manifest)[i].path]
      BY <1>2, <1>3, <1>8, <2>2, <3>1
    <3>3. NodeAfter(i, n - From(i)) = NodeAfter(i, (n + 1) - From(i))
      BY <3>1, NodeStays
    <3> QED BY <1>3, <3>1, <3>2, <3>3
  <2> QED BY <2>1, <2>2
<1>12. \A i \in Begun(n + 1) : T[Entries(manifest)[i].path] = NodeAfter(i, (n + 1) - From(i))
  BY <1>11
<1>13. HasParents(T)
  BY <1>8
<1>14. BuiltTree(T, n + 1)
  BY <1>9, <1>10, <1>12, <1>13 DEF BuiltTree
<1> QED BY <1>14 DEF T

LEMMA PopulateStep ==
  ASSUME manifest \in ManifestType, Valid(manifest), Buildable(manifest), IsTree(tree),
         passed \in Nat, passed < Len(Populate), BuiltTree(tree, passed)
  PROVE  BuiltTree(Effect(Populate[passed + 1]), passed + 1)
<1>1. passed + 1 \in 1 .. Len(Populate)
  <2>1. Len(manifest.directories) \in Nat /\ Len(manifest.symlinks) \in Nat
    BY ManifestHas
  <2>2. Len(Populate) \in Nat
    BY <2>1, PopulateIs
  <2> QED BY <2>2
<1>2. PICK r \in 1 .. EntryCount : \E l \in 1 .. CommandsFor(r) : passed + 1 = From(r) + l
  BY <1>1, FromIs
<1>3. PICK l \in 1 .. CommandsFor(r) : passed + 1 = From(r) + l
  BY <1>2
<1>4. From(r) \in Nat /\ CommandsFor(r) \in {3, 4}
  BY FromIs
<1>5. Populate[passed + 1] = EntryCommand(r, l)
  BY <1>3, FromIs
<1>6. CASE l = 1
  <2>1. passed = From(r)
    BY <1>3, <1>4, <1>6
  <2> QED BY <1>5, <1>6, <2>1, MakeStep
<1>7. CASE l # 1
  <2>1. l \in 2 .. CommandsFor(r)
    BY <1>4, <1>7
  <2> QED BY <1>3, <1>5, <2>1, SetStep
<1> QED BY <1>6, <1>7

\* After the last the audit finds all of it.
LEMMA BuiltIsAudited ==
  ASSUME manifest \in ManifestType, Buildable(manifest), IsTree(tree),
         BuiltTree(tree, Len(Populate))
  PROVE  AuditManifest(manifest)
<1> DEFINE d == manifest.directories
           s == manifest.symlinks
           E == Entries(manifest)
           n == Len(Populate)
<1>1. /\ Len(d) \in Nat /\ DOMAIN d = 1 .. Len(d) /\ Len(s) \in Nat /\ DOMAIN s = 1 .. Len(s)
      /\ EntryCount = Len(d) + Len(s)
  BY ManifestHas DEF EntryCount
<1>2. n \in Nat
  <2> HIDE DEF d, s
  <2> QED BY <1>1, PopulateIs DEF d, s
<1>3. ASSUME NEW r \in 1 .. EntryCount
      PROVE  /\ E[r].path \in DOMAIN tree /\ Locate(tree, E[r].path) = E[r].path
             /\ tree[E[r].path] = NodeAfter(r, n - From(r))
             /\ n - From(r) \in Nat /\ n - From(r) >= CommandsFor(r)
  <2>1. From(r) \in Nat /\ CommandsFor(r) \in {3, 4} /\ From(r) + CommandsFor(r) <= n
    BY FromIs
  <2>2. n - From(r) \in Nat /\ n - From(r) >= CommandsFor(r) /\ From(r) < n
    BY <1>2, <2>1
  <2>3. r \in Begun(n)
    BY <2>2 DEF Begun
  <2>4. E[r].path \in DOMAIN tree /\ tree[E[r].path] = NodeAfter(r, n - From(r)) /\ HasParents(tree)
    BY <2>3 DEF BuiltTree
  <2>5. /\ E[r].path \in Seq(Names)
        /\ \A k \in 1 .. Len(E[r].path) - 1 : IsDirectory(tree, SubSeq(E[r].path, 1, k))
    BY <2>4 DEF IsTree, HasParents
  <2> HIDE DEF E
  <2> QED BY <2>2, <2>4, <2>5, LocateDirect
<1>4. ASSUME NEW k \in 1 .. Len(d) PROVE Shown(d[k].path, "directory", d[k].meta)
  <2>1. k \in 1 .. EntryCount /\ k <= Len(d)
    <3> HIDE DEF d, s
    <3> QED BY <1>1, <1>4
  <2>2. E[k] = d[k] /\ d[k].meta \in Metas
    BY EntriesAre, ManifestHas
  <2>3. tree[d[k].path] = Node("directory",
                               Meta(d[k].meta.mode, d[k].meta.uid, d[k].meta.gid), NoTarget)
        /\ d[k].path \in DOMAIN tree /\ Locate(tree, d[k].path) = d[k].path
    BY <1>3, <2>1, <2>2, NodeEnds
  <2>4. Meta(d[k].meta.mode, d[k].meta.uid, d[k].meta.gid) = d[k].meta
    BY <2>2 DEF Meta, Metas
  <2>5. Readable(d[k].meta)
    BY <2>1, <2>2, EntryBuildable
  <2> QED BY <2>3, <2>4, <2>5 DEF Shown, Node
<1>5. ASSUME NEW k \in 1 .. Len(s)
      PROVE  Shown(s[k].path, "symlink", LinkMeta(s[k])) /\ ShownTarget(s[k])
  <2> DEFINE r == Len(d) + k
  <2>1. r \in 1 .. EntryCount /\ ~(r <= Len(d))
    <3> HIDE DEF d, s
    <3> QED BY <1>1, <1>5
  <2>2. E[r] = s[k] /\ s[k].meta \in Metas
    BY EntriesAre, ManifestHas
  <2> HIDE DEF r
  <2>3. tree[s[k].path] = Node("symlink", Meta("new", s[k].meta.uid, s[k].meta.gid), s[k].target)
        /\ s[k].path \in DOMAIN tree /\ Locate(tree, s[k].path) = s[k].path
    BY <1>3, <2>1, <2>2, NodeEnds
  <2>4. Meta("new", s[k].meta.uid, s[k].meta.gid) = LinkMeta(s[k])
    BY <2>2 DEF Meta, Metas, LinkMeta
  <2>5. ~s[k].target.slow
    BY <1>1 DEF Buildable
  <2>6. Readable(LinkMeta(s[k]))
    <3>1. Readable(s[k].meta)
      BY <2>1, <2>2, EntryBuildable
    <3> QED BY <2>2, <3>1 DEF Readable, LinkMeta, Metas
  <2> QED BY <2>3, <2>4, <2>5, <2>6 DEF Shown, ShownTarget, Node
<1> QED BY <1>1, <1>4, <1>5 DEF AuditManifest

(***************************************************************************)
(* The invariant: the file of commands is gone when one is opened, and     *)
(* without a fault the tree holds what the commands passed have made.      *)
(***************************************************************************)
NormalizeInv ==
  /\ activity # "failed" /\ passed \in 0 .. 6 /\ NormalTree(tree, passed)
  /\ activity \in {"audit", "validate"} => passed = 6
PopulateInv ==
  /\ activity # "failed" /\ BuiltTree(tree, passed)
  /\ activity = "audit" => passed = Len(Populate)
BuiltInv ==
  /\ faults \in Nat
  /\ activity \in {"open", "audit", "validate"} => ~listing
  /\ faults = 0 =>
       IF batch = "normalize" THEN NormalizeInv
       ELSE activity # "refused" /\ Buildable(manifest) => PopulateInv

LEMMA BuiltStarts == SkeletonInit => BuiltInv
<1> SUFFICES ASSUME SkeletonInit PROVE BuiltInv
  OBVIOUS
<1>1. Normal[Root] = Meta("wanted", "wanted", "wanted")
  BY DEF Normal
<1>2. NormalTree(tree, 0)
  BY <1>1 DEF SkeletonInit, NormalTree
<1> QED BY <1>2 DEF SkeletonInit, BuiltInv, NormalizeInv

LEMMA DebugfsCommandBuilt == ListedInv /\ BuiltInv /\ DebugfsCommand => BuiltInv'
<1> SUFFICES ASSUME ListedInv, BuiltInv, DebugfsCommand PROVE BuiltInv'
  OBVIOUS
<1>1. /\ activity = "run" /\ activity' = "run" /\ batch' = batch /\ manifest' = manifest
      /\ listing' = listing /\ passed' = passed + 1 /\ passed < Len(Commands)
      /\ \/ tree' = Effect(Commands[passed + 1]) /\ faults' = faults
         \/ faults' = faults + 1
  BY DEF DebugfsCommand
<1>2. /\ manifest \in ManifestType /\ Valid(manifest) /\ passed \in Nat /\ IsTree(tree)
      /\ faults \in Nat
  BY <1>1 DEF ListedInv, CourseInv, SystemInv, BuiltInv
<1>3. faults' \in Nat /\ (faults' = 0 => faults = 0 /\ tree' = Effect(Commands[passed + 1]))
  BY <1>1, <1>2
<1>4. ASSUME faults' = 0, batch = "normalize" PROVE NormalizeInv'
  <2>1. NormalTree(tree, passed) /\ passed \in 0 .. 6
    BY <1>3, <1>4 DEF BuiltInv, NormalizeInv
  <2>2. Commands = Normalize /\ Len(Commands) = 6
    BY <1>4, NormalizeIs DEF Commands
  <2>3. passed \in 0 .. 5
    BY <1>1, <2>1, <2>2
  <2>4. NormalTree(tree', passed + 1)
    BY <1>2, <1>3, <1>4, <2>1, <2>2, <2>3, NormalStep
  <2>5. NormalTree(tree, passed)'
    BY <1>1, <2>4 DEF NormalTree
  <2> QED BY <1>1, <2>3, <2>5 DEF NormalizeInv
<1>5. ASSUME faults' = 0, batch # "normalize", Buildable(manifest) PROVE PopulateInv'
  <2>1. BuiltTree(tree, passed)
    BY <1>1, <1>3, <1>5 DEF BuiltInv, PopulateInv
  <2>2. Commands = Populate
    BY <1>5 DEF Commands
  <2>3. BuiltTree(tree', passed + 1)
    BY <1>1, <1>2, <1>3, <1>5, <2>1, <2>2, PopulateStep
  <2>4. BuiltTree(tree, passed)' /\ Populate' = Populate
    BY <1>1, <2>3 DEF BuiltTree, Begun, From, EntryCount, NodeAfter, Populate
  <2> QED BY <1>1, <1>2, <2>2, <2>4 DEF PopulateInv
<1>6. (Buildable(manifest))' <=> Buildable(manifest)
  BY <1>1
<1> QED BY <1>1, <1>3, <1>4, <1>5, <1>6 DEF BuiltInv

LEMMA AuditBuilt == ListedInv /\ BuiltInv /\ Audit => BuiltInv'
<1> SUFFICES ASSUME ListedInv, BuiltInv, Audit PROVE BuiltInv'
  OBVIOUS
<1>1. /\ activity = "audit" /\ UNCHANGED <<manifest, tree, batch, passed, listing, faults>>
      /\ activity' = IF batch = "normalize"
                       THEN IF AuditNormal THEN "validate" ELSE "failed"
                       ELSE IF AuditManifest(manifest) THEN "done" ELSE "failed"
  BY DEF Audit
<1>2. manifest \in ManifestType /\ IsTree(tree) /\ faults \in Nat /\ ~listing
  BY <1>1 DEF ListedInv, CourseInv, SystemInv, BuiltInv
<1>3. ASSUME faults = 0, batch = "normalize" PROVE NormalizeInv'
  <2>1. NormalTree(tree, 6) /\ passed = 6
    BY <1>1, <1>3 DEF BuiltInv, NormalizeInv
  <2>2. AuditNormal
    <3>1. \A p \in {Root, LostFound} : Locate(tree, p) = p /\ p \in DOMAIN tree
      BY <1>2, <2>1, LocateSystem DEF NormalTree
    <3>2. \A p \in {Root, LostFound} : Normal[p] = Meta("wanted", "wanted", "wanted")
      BY DEF Normal
    <3>3. \A p \in {Root, LostFound} : tree[p] = Node("directory", Normal[p], NoTarget)
      BY <2>1, <3>2 DEF NormalTree
    <3>4. \A p \in {Root, LostFound} : Readable(Normal[p])
      BY <3>2, SkeletonAssumption DEF Readable, Meta
    <3> QED BY <3>1, <3>3, <3>4 DEF AuditNormal, Shown, Node
  <2>3. NormalTree(tree, passed)'
    BY <1>1, <2>1 DEF NormalTree
  <2> QED BY <1>1, <1>3, <2>1, <2>2, <2>3 DEF NormalizeInv
<1>4. ASSUME faults = 0, batch # "normalize", Buildable(manifest) PROVE PopulateInv'
  <2>1. BuiltTree(tree, passed) /\ passed = Len(Populate)
    BY <1>1, <1>4 DEF BuiltInv, PopulateInv
  <2>2. AuditManifest(manifest)
    BY <1>2, <1>4, <2>1, BuiltIsAudited
  <2>3. BuiltTree(tree, passed)'
    BY <1>1, <2>1 DEF BuiltTree, Begun, From, EntryCount, NodeAfter
  <2>4. Populate' = Populate
    BY <1>1 DEF Populate
  <2> QED BY <1>1, <1>4, <2>1, <2>2, <2>3, <2>4 DEF PopulateInv
<1>5. (Buildable(manifest))' <=> Buildable(manifest)
  BY <1>1
<1> QED BY <1>1, <1>2, <1>3, <1>4, <1>5 DEF BuiltInv

LEMMA ValidateBuilt == ListedInv /\ BuiltInv /\ Validate => BuiltInv'
<1> SUFFICES ASSUME ListedInv, BuiltInv, Validate PROVE BuiltInv'
  OBVIOUS
<1>1. /\ activity = "validate" /\ batch' = "populate" /\ passed' = 0 /\ tree' = tree
      /\ manifest' \in ManifestType /\ listing' = listing /\ faults' = faults
      /\ activity' \in {"open", "refused"} /\ faults \in Nat /\ ~listing
  BY SkeletonAssumption DEF Validate, BuiltInv
<1>2. ASSUME faults = 0 PROVE PopulateInv' \/ activity' = "refused"
  <2>1. batch = "normalize"
    BY <1>1 DEF ListedInv, CourseInv
  <2>2. NormalTree(tree, 6)
    BY <1>1, <1>2, <2>1 DEF BuiltInv, NormalizeInv
  <2>3. /\ DOMAIN tree = {Root, LostFound}
        /\ tree[Root].type = "directory" /\ tree[LostFound].type = "directory"
    BY <2>2 DEF NormalTree, Node
  <2> DEFINE a == Len(manifest'.directories)
             b == Len(manifest'.symlinks)
  <2>4. a \in Nat /\ b \in Nat
    BY <1>1, ManifestHas
  <2>5. Begun(0)' = {}
    <3>1. /\ Begun(0)' = {r \in 1 .. EntryCount' : From(r)' < 0} /\ EntryCount' = a + b
          /\ \A r : From(r)' = IF r <= a THEN 4 * (r - 1) ELSE 4 * a + 3 * (r - a - 1)
      BY DEF Begun, EntryCount, From
    <3> HIDE DEF a, b
    <3>2. \A r \in 1 .. EntryCount' : ~(From(r)' < 0)
      BY <2>4, <3>1
    <3> QED BY <3>1, <3>2
  <2>6. BuiltTree(tree, 0)'
    BY <1>1, <2>3, <2>5, SystemParents DEF BuiltTree, HasParents
  <2>7. BuiltTree(tree, passed)'
    BY <1>1, <2>6 DEF BuiltTree
  <2> QED BY <1>1, <2>7 DEF PopulateInv
<1> QED BY <1>1, <1>2 DEF BuiltInv

LEMMA OthersBuilt ==
  ASSUME ListedInv, BuiltInv,
         \/ OpenListing \/ WriteListing \/ DebugfsEnds \/ UNCHANGED skeletonVars
  PROVE  BuiltInv'
<1>1. manifest \in ManifestType /\ faults \in Nat
  BY DEF ListedInv, CourseInv, BuiltInv
<1>2. /\ UNCHANGED <<manifest, tree, batch, passed>>
      /\ faults' = faults \/ faults' = faults + 1
      /\ faults' = faults =>
           \/ activity' = activity /\ listing' = listing
           \/ activity = "open" /\ activity' = IF listing THEN "failed" ELSE "write"
           \/ activity = "write" /\ activity' = "run"
           \/ activity = "run" /\ passed = Len(Commands) /\ activity' = "audit" /\ ~listing'
      /\ faults' # faults => activity' = "failed"
  BY <1>1 DEF OpenListing, WriteListing, DebugfsEnds, skeletonVars
<1>3. faults' \in Nat /\ (faults' = 0 => faults = 0)
  BY <1>1, <1>2
<1>4. /\ NormalTree(tree, passed)' <=> NormalTree(tree, passed)
      /\ BuiltTree(tree, passed)' <=> BuiltTree(tree, passed)
      /\ Populate' = Populate /\ (Buildable(manifest)' <=> Buildable(manifest))
  BY <1>2 DEF NormalTree, BuiltTree, Begun, From, EntryCount, NodeAfter, Populate
<1>5. activity' \in {"open", "audit", "validate"} => ~listing'
  BY <1>2 DEF BuiltInv
<1>6. ASSUME faults' = 0, batch = "normalize" PROVE NormalizeInv'
  <2>1. NormalizeInv
    BY <1>3, <1>6 DEF BuiltInv
  <2>2. Len(Commands) = 6
    BY <1>6, NormalizeIs DEF Commands
  <2> QED BY <1>1, <1>2, <1>3, <1>4, <1>6, <2>1, <2>2 DEF NormalizeInv, BuiltInv
<1>7. ASSUME faults' = 0, batch # "normalize", Buildable(manifest), activity' # "refused"
      PROVE  PopulateInv'
  <2>1. activity # "refused"
    BY <1>1, <1>2, <1>3, <1>7
  <2>2. PopulateInv
    BY <1>3, <1>7, <2>1 DEF BuiltInv
  <2>3. Commands = Populate
    BY <1>7 DEF Commands
  <2> QED BY <1>1, <1>2, <1>3, <1>4, <1>7, <2>2, <2>3 DEF PopulateInv, BuiltInv
<1> QED BY <1>2, <1>3, <1>4, <1>5, <1>6, <1>7 DEF BuiltInv

(***************************************************************************)
(* A manifest that is accepted is built, unless a command is skipped or a  *)
(* call fails, an entry stands below a link or a target is too long.       *)
(***************************************************************************)
THEOREM SkeletonBuilt == SkeletonSpec => []SkeletonIsBuilt
<1>1. ListedInv /\ BuiltInv /\ [SkeletonNext]_skeletonVars => BuiltInv'
  BY DebugfsCommandBuilt, AuditBuilt, ValidateBuilt, OthersBuilt DEF SkeletonNext
<1>2. ListedInv /\ BuiltInv => SkeletonIsBuilt
  BY DEF ListedInv, CourseInv, BuiltInv, NormalizeInv, PopulateInv, SkeletonIsBuilt
<1> QED BY <1>1, <1>2, BuiltStarts, ListedHolds, PTL DEF SkeletonSpec
=============================================================================
