----------------------------- MODULE PatchBytes -----------------------------
(***************************************************************************)
(* What a set of byte patches means for one file, said without loops.  A   *)
(* file is a function on 0..n-1; a hunk has an offset and two byte strings *)
(* of one length, before and after.  PatchTarget is the code that computes *)
(* this.                                                                   *)
(***************************************************************************)
EXTENDS Integers, Sequences

HunkEnd(h) == h.offset + Len(h.before)

Span(h) == h.offset .. HunkEnd(h) - 1

\* The slice of data under h is the byte string bytes.
Reads(data, h, bytes) == \A x \in Span(h) : data[x] = bytes[x - h.offset + 1]

\* data with the slice under h replaced by bytes.
Overwrite(data, h, bytes) ==
  [x \in DOMAIN data |->
     IF x \in Span(h) THEN bytes[x - h.offset + 1] ELSE data[x]]

Disjoint(hunks) ==
  \A i, j \in DOMAIN hunks :
    i # j => Span(hunks[i]) \intersect Span(hunks[j]) = {}

Covered(hunks, x) == \E i \in DOMAIN hunks : x \in Span(hunks[i])

\* data is the source file with some of the hunks, perhaps none or all,
\* already replaced.
Mixture(data, source, hunks) ==
  /\ \A i \in DOMAIN hunks :
       /\ Reads(source, hunks[i], hunks[i].before)
       /\ \/ Reads(data, hunks[i], hunks[i].before)
          \/ Reads(data, hunks[i], hunks[i].after)
  /\ \A x \in DOMAIN source : Covered(hunks, x) \/ data[x] = source[x]

\* result is the source file with every hunk replaced and nothing else.
Patched(result, source, hunks) ==
  /\ DOMAIN result = DOMAIN source
  /\ \A i \in DOMAIN hunks : Reads(result, hunks[i], hunks[i].after)
  /\ \A x \in DOMAIN source : Covered(hunks, x) \/ result[x] = source[x]
=============================================================================
