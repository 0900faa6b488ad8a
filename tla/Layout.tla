------------------------------- MODULE Layout -------------------------------
(***************************************************************************)
(* The partitions of the disk, as geometry.py defines them.  A layout has  *)
(* its disk size, its primary partitions, the last of which is the         *)
(* extended one, and its logical partitions.  Positions and sizes are      *)
(* sectors.                                                                *)
(***************************************************************************)
EXTENDS Integers, Sequences

Partition(start, sectors, type, ebr) ==
  [start |-> start, sectors |-> sectors, type |-> type, ebr |-> ebr]
End(p) == p.start + p.sectors

\* DISK_SECTORS, EXTENDED_BASE, EXTENDED_SECTORS and the two tuples.
Canonical ==
  [disk |-> 234441648,
   primaries |->
     <<Partition(1, 417685, "linux", 0), Partition(417686, 6297478, "linux", 0),
       Partition(6715164, 2104514, "swap", 0),
       Partition(8819678, 225621970, "extended", 0)>>,
   logicals |->
     <<Partition(8819679, 417687, "linux", 8819678),
       Partition(9237367, 6297479, "linux", 9237366),
       Partition(15534847, 3148737, "linux", 15534846),
       Partition(18683585, 2104513, "linux", 18683584),
       Partition(20788099, 208843, "linux", 20788098),
       Partition(20996943, 180405425, "linux", 20996942),
       Partition(205039734, 8402944, "linux", 205037595),
       Partition(213444726, 8402944, "linux", 213442678),
       Partition(221849718, 10491904, "linux", 221847670),
       Partition(232343670, 2097152, "linux", 232341622)>>]

Extended(l) == l.primaries[Len(l.primaries)]
Base(l) == Extended(l).start
Count(l) == Len(l.logicals)

\* The partitions that get contents, in the order of their numbers.
Partitions(l) == SubSeq(l.primaries, 1, Len(l.primaries) - 1) \o l.logicals

\* PARTITION_BY_NUMBER of the disk that is built; p4 is the extended one.
Number(k) == IF k < 4 THEN Canonical.primaries[k] ELSE Canonical.logicals[k - 4]
=============================================================================
