------------------------------ MODULE Decoder ------------------------------
(***************************************************************************)
(* resources/decrypt_lg_container.c: one process that checks the trailer   *)
(* of an encrypted update file, then reads the payload in chunks, digests, *)
(* decrypts and writes each of them, and compares the digest at the end.   *)
(* read_exact_at and write_exact are loops over calls that may move fewer  *)
(* bytes than asked for, and another program may change the file between   *)
(* any two of them.                                                        *)
(*                                                                         *)
(* A byte of the payload is "sealed", what the trailer's digest was        *)
(* computed from, or "other"; equal digests are equal contents.  A byte of *)
(* the output is the byte it was decrypted from with the number of the     *)
(* counter block its keystream came from.                                  *)
(***************************************************************************)
EXTENDS Integers

CONSTANTS
  MaxSize,     \* bound on the bytes of the payload
  BlockSize,   \* bytes of an AES block, 16
  ChunkBlocks, \* blocks of a chunk, IO_CHUNK / 16
  Counters     \* values of a 32-bit counter

ASSUME DecoderAssumption ==
  /\ MaxSize \in Nat
  /\ BlockSize \in Nat \ {0} /\ ChunkBlocks \in Nat \ {0}
  /\ Counters \in Nat \ {0}

VARIABLES
  size,     \* payload_size
  input,    \* the payload in the input file, by position
  trailer,  \* the trailer passes its checks
  pc,
  offset,   \* bytes of the payload done with
  got, put, \* bytes read into the buffer and written from it
  buffer,   \* ciphertext[], by position in the payload
  digest,   \* what was fed to SHA-256, by position
  out,      \* the output file, by position
  file0,    \* the output path before the process started
  file,     \* "absent", "foreign" or "created"
  created,  \* output_created
  synced,   \* fsync(output_fd) returned 0
  status,   \* the exit status so far
  stuck     \* history: the unlink of the cleanup failed

container == <<size, input, trailer>>
chunk == <<offset, got, put, buffer>>
target == <<file0, file, created, synced>>
exit == <<status, stuck>>
vars == <<container, pc, chunk, digest, out, target, exit>>

Byte == {"sealed", "other"}
Pcs == {"trailer", "create", "read", "digest", "write", "compare", "sync",
        "close", "done", "exited"}

Positions == 0 .. size - 1
Nothing == "nothing"
Plain == [byte : Byte \union {Nothing}, counter : 0 .. Counters - 1]

Init ==
  /\ size \in 0..MaxSize /\ input \in [Positions -> Byte] /\ trailer \in BOOLEAN
  /\ pc = "trailer"
  /\ offset = 0 /\ got = 0 /\ put = 0
  /\ buffer = [x \in Positions |-> Nothing]
  /\ digest = buffer
  /\ out = [x \in Positions |-> [byte |-> Nothing, counter |-> 0]]
  /\ file0 \in {"absent", "foreign"} /\ file = file0
  /\ created = FALSE /\ synced = FALSE
  /\ status = "failure" /\ stuck = FALSE
-----------------------------------------------------------------------------
Goto(from, to) == pc = from /\ pc' = to

\* select_bytes: the positions count bytes are taken from, remainder being the
\* region's seed modulo 12.
RegionSize == 8192
Selected(base, remainder, count) ==
  {base + remainder + 8 + i * (remainder + 4) : i \in 0 .. count - 1}

\* A container that is large enough, its marker, the digest of its regions and
\* the payload digest recovered from them.
CheckTrailer ==
  /\ size > 0 /\ trailer
  /\ Goto("trailer", "create")
  /\ UNCHANGED <<container, chunk, digest, out, target, exit>>

\* O_CREAT | O_EXCL.
Create ==
  /\ file = "absent"
  /\ Goto("create", "read")
  /\ file' = "created" /\ created' = TRUE
  /\ UNCHANGED <<container, chunk, digest, out, file0, synced, exit>>

\* The end of the chunk that starts at offset: wanted bytes further.
ChunkEnd ==
  IF size - offset > ChunkBlocks * BlockSize
    THEN offset + ChunkBlocks * BlockSize
    ELSE size

\* A pread that returns at least one byte.
ReadSome ==
  /\ pc = "read" /\ got < ChunkEnd
  /\ \E n \in got + 1 .. ChunkEnd :
       /\ got' = n
       /\ buffer' = [x \in Positions |->
                       IF x \in got .. n - 1 THEN input[x] ELSE buffer[x]]
  /\ UNCHANGED <<container, pc, offset, put, digest, out, target, exit>>

EndRead ==
  /\ got = ChunkEnd
  /\ Goto("read", "digest")
  /\ UNCHANGED <<container, chunk, digest, out, target, exit>>

DigestInput ==
  /\ Goto("digest", "write")
  /\ digest' = [x \in Positions |->
                  IF x \in offset .. ChunkEnd - 1 THEN input[x] ELSE digest[x]]
  /\ UNCHANGED <<container, chunk, out, target, exit>>

\* EVP_DigestUpdate of the chunk.
Digest ==
  /\ Goto("digest", "write")
  /\ digest' = [x \in Positions |->
                  IF x \in offset .. ChunkEnd - 1 THEN buffer[x] ELSE digest[x]]
  /\ UNCHANGED <<container, chunk, out, target, exit>>

\* make_counter_blocks: the block of position x in the chunk counts from the
\* chunk's first block, and only its low 32 bits are used.
CounterFromZero(x) == ((x - offset) \div BlockSize) % Counters
Counter(x) ==
  (offset \div BlockSize + (x - offset) \div BlockSize) % Counters

\* A write that puts at least one byte of the decrypted chunk.
WriteSome ==
  /\ pc = "write" /\ put < ChunkEnd
  /\ \E n \in put + 1 .. ChunkEnd :
       /\ put' = n
       /\ out' = [x \in Positions |->
                    IF x \in put .. n - 1
                      THEN [byte |-> buffer[x], counter |-> Counter(x)]
                      ELSE out[x]]
  /\ UNCHANGED <<container, pc, offset, got, buffer, digest, target, exit>>

EndWrite ==
  /\ put = ChunkEnd
  /\ Goto("write", IF ChunkEnd < size THEN "read" ELSE "compare")
  /\ offset' = ChunkEnd
  /\ UNCHANGED <<container, got, put, buffer, digest, out, target, exit>>

Compare ==
  /\ digest = [x \in Positions |-> "sealed"]
  /\ Goto("compare", "sync")
  /\ UNCHANGED <<container, chunk, digest, out, target, exit>>

Sync ==
  /\ Goto("sync", "close")
  /\ synced' = TRUE
  /\ UNCHANGED <<container, chunk, digest, out, file0, file, created, exit>>

Close ==
  /\ Goto("close", "done")
  /\ created' = FALSE
  /\ status' = "success"
  /\ UNCHANGED <<container, chunk, digest, out, file0, file, synced, stuck>>

FailForgettingOutput ==
  /\ pc \notin {"done", "exited"}
  /\ pc' = "done"
  /\ created' = (created /\ pc # "close")
  /\ UNCHANGED <<container, chunk, digest, out, file0, file, synced, exit>>

\* goto done: a check does not hold or a call fails.
Fail ==
  /\ pc \notin {"done", "exited"}
  /\ pc' = "done"
  /\ UNCHANGED <<container, chunk, digest, out, target, exit>>

\* The cleanup; the result of unlink is not looked at.
CleanUp ==
  /\ Goto("done", "exited")
  /\ \/ /\ created
        /\ file' = "absent" /\ UNCHANGED stuck
     \/ /\ created
        /\ stuck' = TRUE /\ UNCHANGED file
     \/ /\ ~created
        /\ UNCHANGED <<file, stuck>>
  /\ UNCHANGED <<container, chunk, digest, out, file0, created, synced, status>>

\* Another program writes to the input file.
Modify ==
  /\ pc \notin {"done", "exited"}
  /\ \E x \in Positions : \E byte \in Byte \ {input[x]} :
       input' = [input EXCEPT ![x] = byte]
  /\ UNCHANGED <<size, trailer, pc, chunk, digest, out, target, exit>>

Next ==
  \/ CheckTrailer \/ Create
  \/ ReadSome \/ EndRead \/ Digest \/ WriteSome \/ EndWrite
  \/ Compare \/ Sync \/ Close \/ Fail \/ CleanUp
  \/ Modify

Spec == Init /\ [][Next]_vars
-----------------------------------------------------------------------------
(***************************************************************************)
(* Properties.                                                             *)
(***************************************************************************)
TypeOK ==
  /\ size \in 0..MaxSize /\ input \in [Positions -> Byte] /\ trailer \in BOOLEAN
  /\ pc \in Pcs
  /\ offset \in 0..size /\ got \in offset .. ChunkEnd /\ put \in offset .. got
  /\ buffer \in [Positions -> Byte \union {Nothing}]
  /\ digest \in [Positions -> Byte \union {Nothing}]
  /\ out \in [Positions -> Plain]
  /\ file0 \in {"absent", "foreign"} /\ file \in {"absent", "foreign", "created"}
  /\ created \in BOOLEAN /\ synced \in BOOLEAN
  /\ status \in {"success", "failure"} /\ stuck \in BOOLEAN

\* A process that exits with 0 has left, on the disk, the whole payload the
\* trailer vouches for, every byte decrypted with the counter of its own block
\* whatever the chunks were, although the input may have changed under it.
SuccessIsSealed ==
  status = "success" =>
    /\ file = "created" /\ synced
    /\ out = [x \in Positions |->
                [byte |-> "sealed", counter |-> (x \div BlockSize) % Counters]]

\* Nothing is written that was not digested: the bytes in the output are the
\* bytes the digest was computed from.
WrittenIsDigested ==
  \A x \in Positions : x < put => out[x].byte = digest[x]

\* A process that fails leaves the output path as it found it, unless it could
\* not unlink what it had created; in particular it never removes or replaces
\* a file it did not create.
FailureLeavesNothing ==
  pc = "exited" /\ status = "failure" /\ ~stuck => file = file0
=============================================================================
