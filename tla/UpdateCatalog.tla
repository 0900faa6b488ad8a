---------------------------- MODULE UpdateCatalog ----------------------------
(***************************************************************************)
(* parse_update_catalog: the .ver file of an update, one line per file,    *)
(* read into a table from path to size and CRC; and the comparison of a    *)
(* file with its record.                                                   *)
(*                                                                         *)
(* A directory field is the sequence of its parts and the separator they   *)
(* were written with: both spellings name the same file.  The numbers of a *)
(* line have one spelling each, since leading zeros are refused.           *)
(***************************************************************************)
EXTENDS Integers, SequencesExt

CONSTANTS
  Package,     \* the package that the name of the catalog file names
  Lines,       \* lines a catalog may have
  MaxLines,    \* bound on their number
  Required,    \* UPDATE_PATHS
  UnsafeParts, \* "", "." and ".."
  UnsafeNames, \* those, and names with a separator or control character
  CrcMod       \* 2^32, the number of CRCs

ASSUME LinesAssumption ==
  /\ Package \in STRING /\ MaxLines \in Nat
  /\ \A line \in Lines :
       /\ line.parts \in Seq(STRING) \ {<<>>} /\ line.name \in STRING
       /\ line.crc \in Int
  /\ Required # {} /\ Required \subseteq Seq(STRING)
  /\ CrcMod \in Nat \ {0} /\ CrcMod = 2 * (CrcMod \div 2)

VARIABLES
  catalog,   \* [package, lines]
  place, n,  \* the statement, and the line its loop has reached
  records, ids,
  path, crc  \* the file that is compared, and its crc32_fd

compared == <<path, crc>>
catalogVars == <<catalog, place, n, records, ids, compared>>

Crcs == 0 .. CrcMod - 1
Half == CrcMod \div 2
NoCrc == -1

SignedFrom(value, from) == IF value < from THEN value ELSE value - CrcMod
SignedCrc32OneMore(value) == SignedFrom(value, Half + 1)
SignedCrc32(value) == SignedFrom(value, Half)

NoRecords == [p \in {} |-> 0]

CatalogInit ==
  /\ catalog \in [package : {Package, "another"}, lines : BoundedSeq(Lines, MaxLines)]
  /\ place = "header" /\ n = 1
  /\ records = NoRecords /\ ids = {}
  /\ path = <<>> /\ crc = NoCrc
-----------------------------------------------------------------------------
\* normalize_catalog_path.
SafePath(line) ==
  /\ line.name \notin UnsafeNames
  /\ \A k \in DOMAIN line.parts : line.parts[k] \notin UnsafeParts
  /\ Head(line.parts) = catalog.package
Normalized(line) == Append(Tail(line.parts), line.name)

\* The four numeric fields: decimal, and the CRC within 32 bits.
Numbers(line) == line.crc \in -Half .. Half - 1

Record(line) == [id |-> line.id, crc |-> line.crc]

MoveTo(p, m) == place' = p /\ n' = m
Refuse == MoveTo("refused", n) /\ UNCHANGED <<catalog, records, ids, compared>>

\* The first line, the name of the catalog file, and at least one record.
ParseHeader ==
  /\ place = "header"
  /\ IF catalog.package = Package /\ catalog.lines # <<>>
       THEN MoveTo("line", 1) /\ UNCHANGED <<catalog, records, ids, compared>>
       ELSE Refuse

ParseLineRaw ==
  /\ place = "line" /\ n <= Len(catalog.lines)
  /\ LET line == catalog.lines[n] IN
       IF /\ SafePath(line) /\ Numbers(line) /\ line.id \notin ids
          /\ \A m \in 1 .. n - 1 : catalog.lines[m].parts # line.parts
                                   \/ catalog.lines[m].separator # line.separator
                                   \/ catalog.lines[m].name # line.name
         THEN /\ records' = [p \in DOMAIN records \union {Normalized(line)} |->
                               IF p = Normalized(line) THEN Record(line) ELSE records[p]]
              /\ ids' = ids \union {line.id}
              /\ MoveTo("line", n + 1)
              /\ UNCHANGED <<catalog, compared>>
         ELSE Refuse
ParseLine ==
  /\ place = "line" /\ n <= Len(catalog.lines)
  /\ LET line == catalog.lines[n] IN
       IF /\ SafePath(line) /\ Numbers(line)
          /\ Normalized(line) \notin DOMAIN records /\ line.id \notin ids
         THEN /\ records' = [p \in DOMAIN records \union {Normalized(line)} |->
                               IF p = Normalized(line) THEN Record(line) ELSE records[p]]
              /\ ids' = ids \union {line.id}
              /\ MoveTo("line", n + 1)
              /\ UNCHANGED <<catalog, compared>>
         ELSE Refuse

CheckMissing ==
  /\ place = "line" /\ n > Len(catalog.lines)
  /\ IF Required \subseteq DOMAIN records
       THEN MoveTo("parsed", n) /\ UNCHANGED <<catalog, records, ids, compared>>
       ELSE Refuse

\* A required file with any contents is compared with its record.
CompareCrc ==
  /\ place = "parsed"
  /\ \E p \in Required, c \in Crcs :
       /\ path' = p /\ crc' = c
       /\ MoveTo(IF SignedCrc32(c) = records[p].crc THEN "matches" ELSE "differs", n)
  /\ UNCHANGED <<catalog, records, ids>>

CatalogNext == ParseHeader \/ ParseLine \/ CheckMissing \/ CompareCrc

CatalogSpec == CatalogInit /\ [][CatalogNext]_catalogVars
-----------------------------------------------------------------------------
Accepted == place \in {"parsed", "matches", "differs"}

(***************************************************************************)
(* In a catalog that is accepted exactly one line vouches for each file,   *)
(* in whichever spelling, and the table has the CRC of that line.          *)
(***************************************************************************)
Names(line, p) == line.parts \o <<line.name>> = <<Package>> \o p
OneVoucher ==
  Accepted =>
    \A p \in Required \union DOMAIN records :
      \E k \in DOMAIN catalog.lines :
        /\ Names(catalog.lines[k], p) /\ records[p] = Record(catalog.lines[k])
        /\ \A j \in DOMAIN catalog.lines : Names(catalog.lines[j], p) => j = k

(***************************************************************************)
(* A catalog is refused only for a line that is wrong, for two lines that  *)
(* name one file or share one number, or for a file that is missing.       *)
(***************************************************************************)
CatalogRefusedForAReason ==
  place = "refused" =>
    \/ catalog.package # Package
    \/ \E k \in DOMAIN catalog.lines : ~SafePath(catalog.lines[k]) \/ ~Numbers(catalog.lines[k])
    \/ \E j, k \in DOMAIN catalog.lines :
         /\ j # k
         /\ \/ catalog.lines[j].id = catalog.lines[k].id
            \/ \E p \in Required \union DOMAIN records :
                 Names(catalog.lines[j], p) /\ Names(catalog.lines[k], p)
    \/ \E p \in Required : \A k \in DOMAIN catalog.lines : ~Names(catalog.lines[k], p)

(***************************************************************************)
(* The catalog writes CRCs as signed numbers.  A file matches exactly when *)
(* the bits are the same, also where the sign changes.                     *)
(***************************************************************************)
SameBits ==
  place \in {"matches", "differs"} =>
    (place = "matches" <=> crc = records[path].crc % CrcMod)

(***************************************************************************)
(* The three together: what the caller may rely on.                        *)
(***************************************************************************)
CatalogVouches == OneVoucher /\ SameBits /\ CatalogRefusedForAReason
=============================================================================
