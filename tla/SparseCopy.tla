----------------------------- MODULE SparseCopy -----------------------------
(***************************************************************************)
(* The copies of io_utils.py: copy_sparse_to_offsets, which the build uses *)
(* to put a file into one or two partitions of the fresh image, and        *)
(* copy_sparse_range, which first insists on a destination of zeros.  Both *)
(* ask the file system for extents of data, write only these, and fall     *)
(* back to reading everything when it has no such answers.                 *)
(*                                                                         *)
(* Files are functions of units, 0 a unit of zeros.  The file system tells *)
(* holes from data as it likes as long as a hole reads as zeros.  A read   *)
(* or a write may move fewer units than asked for.                         *)
(***************************************************************************)
EXTENDS Integers, Sequences

CONSTANTS
  SourceUnits,  \* size of the source
  DestUnits,    \* size of the destination
  Chunk,        \* COPY_CHUNK
  Values,       \* contents of a unit, 0 among them
  Calls         \* the calls that are made
\* A call copies [from, from + length) of the source; unit u goes to u + offset
\* for each of its offsets, with copy_sparse_range if range.

(***************************************************************************)
(* What the callers grant: there is a destination, copy_sparse_range has   *)
(* one only, and two destinations do not overlap.                          *)
(***************************************************************************)
Apart(c) ==
  \A m, n \in DOMAIN c.offsets :
    m < n => \/ c.offsets[m] + c.length <= c.offsets[n]
             \/ c.offsets[n] + c.length <= c.offsets[m]

Granted ==
  /\ SourceUnits \in Nat /\ DestUnits \in Nat /\ Chunk \in Nat
  /\ \A c \in Calls :
       /\ c.from \in Nat /\ c.length \in Nat /\ c.range \in BOOLEAN
       /\ c.offsets \in Seq(Int) /\ Len(c.offsets) > 0
       /\ c.range => Len(c.offsets) = 1
       /\ Apart(c)
ASSUME CallsAssumption == Granted

VARIABLES
  call, source, dest,
  dest0,           \* the destination before the call
  sourceHoles, destHoles,
  at, phase,       \* "check" in range_is_zero, "copy" after it
  position,        \* of the next SEEK_DATA
  start, end,      \* the extent, start being moved over what is done
  begun,           \* extent_count > 0
  skip,            \* skip_zero_chunks
  got, put, j      \* units of the chunk read, and written to the jth offset

files == <<call, source, dest0, sourceHoles, destHoles>>
chunk == <<got, put, j>>
extent == <<position, start, end, begun, skip>>
copyVars == <<files, dest, at, phase, extent, chunk>>

Units == 0 .. SourceUnits - 1
InRange(c) == c.from .. c.from + c.length - 1
Limit == call.from + call.length
InBounds(c) ==
  /\ c.from + c.length <= SourceUnits
  /\ \A n \in DOMAIN c.offsets :
       c.from + c.offsets[n] >= 0 /\ c.from + c.length + c.offsets[n] <= DestUnits
Places(c) == {u + c.offsets[n] : u \in InRange(c), n \in DOMAIN c.offsets}
                 \intersect (0 .. DestUnits - 1)
Lesser(m, n) == IF m < n THEN m ELSE n
IsFirst(u, S) == u \in S /\ \A w \in S : u <= w
Written(f, s, e, offset, w) ==
  [d \in DOMAIN f |-> IF d - offset \in s .. e - 1 THEN w[d - offset] ELSE f[d]]

-----------------------------------------------------------------------------
(***************************************************************************)
(* The destination of copy_sparse_to_offsets is the image, a file just     *)
(* grown to its size: zeros, but for the table and for other partitions.   *)
(***************************************************************************)
CopyInit ==
  /\ call \in Calls
  /\ source \in [Units -> Values]
  /\ \E content \in [Places(call) -> Values] :
       /\ ~call.range => \A d \in Places(call) : content[d] = 0
       /\ dest0 = [d \in 0 .. DestUnits - 1 |->
                     IF d \in Places(call) THEN content[d] ELSE 1]
  /\ sourceHoles \in SUBSET {u \in Units : source[u] = 0}
  /\ destHoles \in IF call.range
                     THEN SUBSET {d \in Places(call) : dest0[d] = 0} ELSE {{}}
  /\ dest = dest0
  /\ at = "bounds" /\ phase = "check"
  /\ position = call.from /\ start = call.from /\ end = call.from
  /\ begun = FALSE /\ skip = call.range
  /\ got = 0 /\ put = 0 /\ j = 1

Go(p) == at' = p
Raise == Go("raised") /\ UNCHANGED <<files, dest, phase, extent, chunk>>

\* Units of the file that is searched for data, numbered like the source's.
DestUnit(u) == u + call.offsets[1]
Searched == IF phase = "copy" THEN source ELSE [u \in InRange(call) |-> dest[DestUnit(u)]]
IsHole(u) ==
  IF phase = "copy" THEN u \in sourceHoles ELSE DestUnit(u) \in destHoles
SearchEnd == IF phase = "copy" THEN SourceUnits ELSE Limit
DataFrom(p) == {u \in p .. SearchEnd - 1 : ~IsHole(u)}
HolesFrom(p) == {u \in p .. SearchEnd - 1 : IsHole(u)} \union {SearchEnd}

CheckBoundsOnly ==
  /\ at = "bounds"
  /\ Go(IF InBounds(call) THEN "data" ELSE "raised")
  /\ phase' = "copy"
  /\ UNCHANGED <<files, dest, extent, chunk>>
\* The checks of the arguments.
CheckBounds ==
  /\ at = "bounds"
  /\ Go(IF InBounds(call) THEN "data" ELSE "raised")
  /\ phase' = IF call.range THEN "check" ELSE "copy"
  /\ UNCHANGED <<files, dest, extent, chunk>>

\* After the last extent: the end of the check or of the copy.
EndOfExtents ==
  /\ IF phase = "copy"
       THEN Go("done") /\ UNCHANGED <<phase, position, begun>>
       ELSE /\ Go("data") /\ phase' = "copy"
            /\ position' = call.from /\ begun' = FALSE
  /\ UNCHANGED <<files, dest, start, end, skip, chunk>>

\* lseek(SEEK_DATA): ENXIO after the last data.
SeekData ==
  /\ at = "data"
  /\ IF position < Limit /\ \E u \in DataFrom(position) : u < Limit
       THEN /\ \E u \in DataFrom(position) : IsFirst(u, DataFrom(position)) /\ start' = u
            /\ Go("hole")
            /\ UNCHANGED <<files, dest, phase, position, end, begun, skip, chunk>>
       ELSE EndOfExtents

Extent(hole) ==
  /\ end' = Lesser(hole, Limit) /\ position' = hole
  /\ begun' = TRUE
  /\ Go("extent")
  /\ UNCHANGED <<files, dest, phase, start, skip, chunk>>

SeekHoleUnclamped ==
  /\ at = "hole"
  /\ \E hole \in HolesFrom(start) :
       /\ IsFirst(hole, HolesFrom(start))
       /\ end' = hole /\ position' = hole
       /\ begun' = TRUE
       /\ Go("extent")
       /\ UNCHANGED <<files, dest, phase, start, skip, chunk>>
\* lseek(SEEK_HOLE): data that was punched out meanwhile is a hole at start.
SeekHole ==
  /\ at = "hole"
  /\ \/ \E hole \in HolesFrom(start) : IsFirst(hole, HolesFrom(start)) /\ Extent(hole)
     \/ Raise

\* EINVAL, ENOTSUP or EOPNOTSUPP: everything is one extent, chunks of zeros are
\* skipped; once something was copied it is too late for that.
FallBack ==
  /\ at \in {"data", "hole"} /\ position < Limit
  /\ IF phase = "copy" /\ begun
       THEN Raise
       ELSE /\ start' = call.from /\ end' = Limit /\ position' = Limit
            /\ begun' = TRUE /\ skip' = TRUE
            /\ Go("extent")
            /\ UNCHANGED <<files, dest, phase, chunk>>

\* Any other error of a system call.
CallFails == at \in {"data", "hole", "extent", "write"} /\ Raise

Zeros(n) == \A u \in start .. start + n - 1 : Searched[u] = 0

EndExtent ==
  /\ at = "extent" /\ start >= end
  /\ Go("data")
  /\ UNCHANGED <<files, dest, phase, extent, chunk>>

\* A chunk in _bytes_are_zero: data other than zeros refuses the destination.
CheckChunk ==
  /\ at = "extent" /\ phase = "check" /\ start < end
  /\ \E n \in 1 .. Lesser(Chunk, end - start) :
       IF Zeros(n)
         THEN /\ start' = start + n
              /\ UNCHANGED <<files, dest, at, phase, position, end, begun, skip, chunk>>
         ELSE Raise

\* A chunk in _copy_extent.
ReadChunk ==
  /\ at = "extent" /\ phase = "copy" /\ start < end
  /\ \E n \in 1 .. Lesser(Chunk, end - start) :
       IF skip /\ Zeros(n)
         THEN /\ start' = start + n
              /\ UNCHANGED <<files, dest, at, phase, position, end, begun, skip, chunk>>
         ELSE /\ got' = n /\ put' = 0 /\ j' = 1
              /\ Go("write")
              /\ UNCHANGED <<files, dest, phase, extent>>

WriteOnce ==
  /\ at = "write" /\ j <= Len(call.offsets)
  /\ \E n \in 1 .. got :
       dest' = Written(dest, start, start + n, call.offsets[j], source)
  /\ put' = 0 /\ j' = j + 1
  /\ UNCHANGED <<files, at, phase, extent, got>>
\* One pwrite of pwrite_all; the chunk goes to every offset.
WriteSome ==
  /\ at = "write" /\ j <= Len(call.offsets)
  /\ \E n \in 1 .. got - put :
       /\ dest' = Written(dest, start + put, start + put + n, call.offsets[j], source)
       /\ IF put + n = got THEN put' = 0 /\ j' = j + 1
                           ELSE put' = put + n /\ UNCHANGED j
  /\ UNCHANGED <<files, at, phase, extent, got>>

EndChunk ==
  /\ at = "write" /\ j > Len(call.offsets)
  /\ start' = start + got
  /\ Go("extent")
  /\ UNCHANGED <<files, dest, phase, position, end, begun, skip, chunk>>

CopyNext ==
  \/ CheckBounds \/ SeekData \/ SeekHole \/ FallBack \/ CallFails
  \/ EndExtent \/ CheckChunk \/ ReadChunk \/ WriteSome \/ EndChunk

CopySpec == CopyInit /\ [][CopyNext]_copyVars
-----------------------------------------------------------------------------
(***************************************************************************)
(* A copy that returns has put the range of the source, zeros included, at *)
(* every offset, whatever extents the file system named.                   *)
(***************************************************************************)
Exact ==
  at = "done" =>
    \A u \in InRange(call), n \in DOMAIN call.offsets :
      dest[u + call.offsets[n]] = source[u]

(***************************************************************************)
(* At no moment, and after no failure, is anything outside the targets     *)
(* written, and a target unit is what it was or what it has to become.     *)
(***************************************************************************)
NothingElseWritten ==
  \A d \in DOMAIN dest :
    dest[d] # dest0[d] =>
      \E u \in InRange(call), n \in DOMAIN call.offsets :
        d = u + call.offsets[n] /\ dest[d] = source[u]

(***************************************************************************)
(* copy_sparse_range writes nothing at all to a range that holds data.     *)
(***************************************************************************)
DirtyRangeRefused ==
  call.range /\ (\E d \in Places(call) : dest0[d] # 0) =>
    dest = dest0 /\ at # "done"

(***************************************************************************)
(* copy_sparse_to_offsets and copy_sparse_range put exactly their range at *)
(* every offset and touch nothing else, also when they fail, and nothing   *)
(* at all of a destination that should be zeros and is not.                *)
(***************************************************************************)
CopyIsExact == Exact /\ NothingElseWritten /\ DirtyRangeRefused
=============================================================================
