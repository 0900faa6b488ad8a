------------------------------ MODULE Geometry ------------------------------
(***************************************************************************)
(* geometry.py: the layout of the disk, its check at import time, the MBR  *)
(* and the chain of extended boot records that write_table puts onto the   *)
(* image, the payloads that are copied between them, and verify_table,     *)
(* which reads the table back.                                             *)
(*                                                                         *)
(* Of the disk only the sectors are kept where the table has one; a sector *)
(* is a record of its fields or the contents of a payload.                 *)
(***************************************************************************)
EXTENDS Layout

CONSTANTS
  Layouts,    \* the layouts to consider
  MaxDamage   \* bound on the sectors that something else overwrites

(***************************************************************************)
(* The positions and sizes of a layout are numbers of sectors, its primary *)
(* partitions leave sector 0 to the MBR, and there is an extended one,     *)
(* whose first sector holds the record of the first logical partition:     *)
(* validate_definition does not ask for that, but the one layout that      *)
(* geometry.py defines is so.                                              *)
(***************************************************************************)
PartitionRecord == [start : Nat, sectors : Nat, type : STRING, ebr : Nat]
ASSUME LayoutsAssumption ==
  \A l \in Layouts :
    /\ l.disk \in Nat
    /\ l.primaries \in Seq(PartitionRecord) /\ l.primaries # <<>>
    /\ l.logicals \in Seq(PartitionRecord) /\ l.logicals # <<>>
    /\ \A m \in DOMAIN l.primaries : l.primaries[m].start > 0
    /\ l.logicals[1].ebr = Base(l)

VARIABLES
  layout,
  disk,        \* the sectors of the table
  stage, row,  \* the statement, and the index its loop has reached
  damage       \* sectors overwritten so far

geometryVars == <<layout, disk, stage, row, damage>>

-----------------------------------------------------------------------------
(***************************************************************************)
(* Encoding.                                                               *)
(***************************************************************************)
\* _chs; the sector and the two high bits of the cylinder share a byte.
SectorsPerCylinder == 255 * 63
ChsUnlimited(lba) ==
  LET cylinder == lba \div SectorsPerCylinder
      remainder == lba % SectorsPerCylinder
  IN <<remainder \div 63,
       (remainder % 63) + 1 + 64 * ((cylinder \div 256) % 4), cylinder % 256>>
Chs(lba) ==
  IF lba \div SectorsPerCylinder > 1023 THEN <<254, 255, 255>> ELSE ChsUnlimited(lba)

\* _entry.
Entry(type, start, relative, sectors) ==
  [type |-> type, first |-> Chs(start), last |-> Chs(start + sectors - 1),
   relative |-> relative, sectors |-> sectors]
Blank(type) ==
  [type |-> type, first |-> <<0, 0, 0>>, last |-> <<0, 0, 0>>, relative |-> 0, sectors |-> 0]
NoEntry == Blank("none")

DiskIds == 0..2
EncodeMbr(l, id) ==
  [bootstrap |-> "syslinux", disk_id |-> id, reserved |-> 0, signature |-> TRUE,
   entries |-> [m \in DOMAIN l.primaries |->
                  LET p == l.primaries[m]
                  IN Entry(p.type, p.start, p.start, p.sectors)]]

\* encode_ebr: data relative to the record, the link relative to EXTENDED_BASE.
Data(p) == Entry(p.type, p.start, p.start - p.ebr, p.sectors)
LinkFromRecord(l, p) ==
  Entry("extended", p.ebr, p.ebr - Base(l) - 1, p.start - p.ebr + p.sectors)
Link(l, p) == Entry("extended", p.ebr, p.ebr - Base(l), p.start - p.ebr + p.sectors)
EncodeEbr(l, m) ==
  [data |-> Data(l.logicals[m]),
   link |-> IF m < Count(l) THEN Link(l, l.logicals[m + 1]) ELSE NoEntry]

\* table_sectors: sector 0 and the record of each logical partition.
Lba(l, m) == IF m = 0 THEN 0 ELSE l.logicals[m].ebr
TableLbas(l) == {Lba(l, m) : m \in 0..Count(l)}
-----------------------------------------------------------------------------
(***************************************************************************)
(* validate_definition.                                                    *)
(***************************************************************************)
Record(p) == [start |-> p.ebr, end |-> p.ebr + 1]
Area(p) == [start |-> p.start, end |-> End(p)]
\* The records and areas in the order in which they are appended.
Occupied(l) ==
  [m \in 1 .. 2 * Count(l) |->
     LET p == l.logicals[(m + 1) \div 2] IN IF m % 2 = 1 THEN Record(p) ELSE Area(p)]

\* occupied.sort(): a is somewhere before b, and directly before it.
Before(s, a, b) ==
  \/ s[a].start < s[b].start
  \/ s[a].start = s[b].start /\ s[a].end < s[b].end
  \/ s[a] = s[b] /\ a < b
Neighbours(s) ==
  {ab \in (DOMAIN s) \X (DOMAIN s) :
     /\ Before(s, ab[1], ab[2])
     /\ ~\E c \in DOMAIN s : Before(s, ab[1], c) /\ Before(s, c, ab[2])}

OverlappingAppended(s) == \E m \in DOMAIN s \ {1} : s[m - 1].start > s[m].start
Overlapping(s) == \E ab \in Neighbours(s) : s[ab[1]].end > s[ab[2]].start

ValidDefinition(l) ==
  /\ End(Extended(l)) = l.disk
  /\ \A m \in 2 .. Len(l.primaries) : End(l.primaries[m - 1]) <= l.primaries[m].start
  /\ \A m \in 1..Count(l) :
       LET p == l.logicals[m] IN
         /\ Base(l) <= p.ebr /\ p.ebr < p.start
         /\ m > 1 => l.logicals[m - 1].ebr < p.ebr
         /\ End(p) <= End(Extended(l))
  /\ ~Overlapping(Occupied(l))
-----------------------------------------------------------------------------
Zero == [data |-> NoEntry, link |-> NoEntry]
PayloadSector == [data |-> Blank("payload"), link |-> Blank("payload")]

GeometryInit ==
  /\ layout \in Layouts
  /\ disk = [lba \in TableLbas(layout) |-> Zero]
  /\ stage = "define" /\ row = 0 /\ damage = 0

Proceed(p, m) == stage' = p /\ row' = m

Define ==
  /\ stage = "define"
  /\ Proceed(IF ValidDefinition(layout) THEN "write" ELSE "refused", 0)
  /\ UNCHANGED <<layout, disk, damage>>

\* write_table, with an identity that _new_disk_id made.
WriteTable ==
  /\ stage = "write"
  /\ \E id \in DiskIds \ {0} :
       disk' = [disk EXCEPT ![Lba(layout, row)] =
                  IF row = 0 THEN EncodeMbr(layout, id) ELSE EncodeEbr(layout, row)]
  /\ IF row < Count(layout) THEN Proceed("write", row + 1) ELSE Proceed("payloads", 1)
  /\ UNCHANGED <<layout, damage>>

\* The copies into the partitions, each up to its full size.
CopyPayload ==
  /\ stage = "payloads"
  /\ LET p == Partitions(layout)[row] IN
       disk' = [lba \in DOMAIN disk |->
                  IF p.start <= lba /\ lba < End(p) THEN PayloadSector ELSE disk[lba]]
  /\ IF row < Len(Partitions(layout)) THEN Proceed("payloads", row + 1)
                                       ELSE Proceed("verify", 0)
  /\ UNCHANGED <<layout, damage>>

\* Something else overwrites a sector of the table that is still to be read.
Overwritten(m) ==
  IF m = 0
    THEN {[EncodeMbr(layout, id) EXCEPT !.reserved = r] : id \in DiskIds, r \in 0..1}
           \union {[EncodeMbr(layout, 1) EXCEPT !.bootstrap = "other"],
                   [EncodeMbr(layout, 1) EXCEPT !.signature = FALSE],
                   [EncodeMbr(layout, 1) EXCEPT !.entries[1] = NoEntry]}
    ELSE {Zero, [EncodeEbr(layout, m) EXCEPT !.link = NoEntry]}
Overwrite ==
  /\ stage \in {"payloads", "verify"} /\ damage < MaxDamage
  /\ \E m \in (IF stage = "verify" THEN row ELSE 0) .. Count(layout) :
       \E bad \in Overwritten(m) : disk' = [disk EXCEPT ![Lba(layout, m)] = bad]
  /\ damage' = damage + 1
  /\ UNCHANGED <<layout, stage, row>>

AcceptsAnyLastRecord(l, m, sector) ==
  IF m = 0
    THEN /\ DOMAIN sector = DOMAIN EncodeMbr(l, 1)
         /\ sector.disk_id # 0 /\ sector = EncodeMbr(l, sector.disk_id)
    ELSE m < Count(l) => sector = EncodeEbr(l, m)
\* verify_table: the MBR with whatever identity it has, the records in full.
Accepts(l, m, sector) ==
  IF m = 0
    THEN /\ DOMAIN sector = DOMAIN EncodeMbr(l, 1)
         /\ sector.disk_id # 0 /\ sector = EncodeMbr(l, sector.disk_id)
    ELSE sector = EncodeEbr(l, m)

VerifyTable ==
  /\ stage = "verify"
  /\ IF ~Accepts(layout, row, disk[Lba(layout, row)]) THEN Proceed("rejected", row)
     ELSE IF row < Count(layout) THEN Proceed("verify", row + 1)
     ELSE Proceed("verified", row)
  /\ UNCHANGED <<layout, disk, damage>>

GeometryNext == Define \/ WriteTable \/ CopyPayload \/ Overwrite \/ VerifyTable

GeometrySpec == GeometryInit /\ [][GeometryNext]_geometryVars
-----------------------------------------------------------------------------
(***************************************************************************)
(* unallocated_zero_ranges.                                                *)
(***************************************************************************)
ZeroRangesWithoutTail(l) == {}
ZeroRanges(l) ==
  LET p(m) == l.logicals[m - 4]
      Gap(from, to) == IF to > from THEN {[start |-> from, end |-> to]} ELSE {}
  IN Gap(End(p(10)), p(11).ebr)
     \union (UNION {Gap(p(m).ebr + 1, p(m).start) : m \in 11..14})
     \union Gap(p(14).start, End(p(14))) \union Gap(End(p(14)), l.disk)

(***************************************************************************)
(* What a system finds that walks the chain: a record's data lies relative *)
(* to the record, its link relative to the extended partition.             *)
(***************************************************************************)
Nowhere == -1
Successor(base) ==
  [lba \in DOMAIN disk \ {0} |->
     LET link == disk[lba].link
     IN IF link # NoEntry /\ base + link.relative \in DOMAIN disk THEN base + link.relative
        ELSE Nowhere]
Walk ==
  LET base == disk[0].entries[Len(layout.primaries)].relative
      record[m \in 1 .. Count(layout) + 1] ==
        IF m = 1 THEN base
        ELSE IF record[m - 1] \in DOMAIN disk \ {0} THEN Successor(base)[record[m - 1]]
        ELSE Nowhere
  IN record
Found ==
  [m \in {o \in DOMAIN Walk : Walk[o] # Nowhere} |->
     LET data == disk[Walk[m]].data
     IN [start |-> Walk[m] + data.relative, end |-> Walk[m] + data.relative + data.sectors]]

\* The sector an address of the old kind stands for.
Decode(chs) ==
  (chs[3] + 256 * (chs[2] \div 64)) * SectorsPerCylinder + 63 * chs[1] + (chs[2] % 64) - 1
Addresses(entry, start) ==
  LET Stands(chs, lba) == IF lba < 1024 * SectorsPerCylinder THEN Decode(chs) = lba
                          ELSE chs = Chs(1024 * SectorsPerCylinder)
  IN Stands(entry.first, start) /\ Stands(entry.last, start + entry.sectors - 1)
-----------------------------------------------------------------------------
(***************************************************************************)
(* A definition that passes validate_definition has no overlap at all,     *)
(* though it compares neighbours only: records and areas are disjoint, end *)
(* on the disk, and stay clear of the MBR and the primary partitions.      *)
(***************************************************************************)
Disjoint(a, b) == a.end <= b.start \/ b.end <= a.start
ValidIsDisjoint ==
  stage \notin {"define", "refused"} =>
    LET s == Occupied(layout)
        primaries == SubSeq(layout.primaries, 1, Len(layout.primaries) - 1)
    IN /\ \A a, b \in DOMAIN s : a # b => Disjoint(s[a], s[b])
       /\ \A a \in DOMAIN s : s[a].end <= layout.disk
       /\ \A a \in DOMAIN s, m \in DOMAIN primaries : Disjoint(s[a], Area(primaries[m]))
       /\ \A m, o \in DOMAIN primaries :
            m # o => Disjoint(Area(primaries[m]), Area(primaries[o]))

(***************************************************************************)
(* Copying the payloads spoils no sector of the table: what is rejected    *)
(* was damaged by something else.                                          *)
(***************************************************************************)
OnlyDamageIsRejected == stage = "rejected" => damage > 0

(***************************************************************************)
(* The two together: a layout that is accepted has no overlap, so nothing  *)
(* the program does itself spoils the table.                               *)
(***************************************************************************)
GeometryIsDisjoint == ValidIsDisjoint /\ OnlyDamageIsRejected

(***************************************************************************)
(* On a disk that verify_table accepts, a system that walks the chain      *)
(* finds exactly the logical partitions of the definition, each within the *)
(* span that the link to it announces.                                     *)
(***************************************************************************)
VerifiedIsFound ==
  stage = "verified" =>
    /\ Found = [m \in 1..Count(layout) |-> Area(layout.logicals[m])]
    /\ \A m \in 2..Count(layout) :
         LET link == disk[Walk[m - 1]].link
         IN Walk[m] + link.sectors = End(layout.logicals[m])

(***************************************************************************)
(* The two addresses of every entry agree, and the old one is saturated    *)
(* where its cylinder has no room for the sector.                          *)
(***************************************************************************)
AddressesAgree ==
  stage = "verified" =>
    /\ \A m \in DOMAIN layout.primaries :
         Addresses(disk[0].entries[m], disk[0].entries[m].relative)
    /\ \A m \in 1..Count(layout) :
         /\ Addresses(disk[Walk[m]].data, Found[m].start)
         /\ m < Count(layout) => Addresses(disk[Walk[m]].link, Walk[m + 1])

(***************************************************************************)
(* On the disk that is built, the ranges that have to be zero are the gaps *)
(* between what is occupied, and the reserved partition.                   *)
(***************************************************************************)
ZeroRangesAreTheGaps ==
  layout = Canonical /\ stage = "verified" =>
    LET s == Occupied(layout)
        gaps == {[start |-> s[ab[1]].end, end |-> s[ab[2]].start] : ab \in Neighbours(s)}
                \union {[start |-> s[2 * Count(layout)].end, end |-> layout.disk]}
    IN ZeroRanges(layout) = {g \in gaps : g.start < g.end}
                            \union {Area(layout.logicals[Count(layout)])}

(***************************************************************************)
(* In a table that verify_table accepts the kernel finds the partitions    *)
(* of the layout, by sectors as well as by the old addresses, and what has *)
(* to be zero is what the layout leaves over.                              *)
(***************************************************************************)
GeometryIsFound == VerifiedIsFound /\ AddressesAgree /\ ZeroRangesAreTheGaps
=============================================================================
