----------------------------- MODULE DiskStream -----------------------------
(***************************************************************************)
(* kernel/disk: a stream is a position on the disk and, during a read, the *)
(* bytes that are still wanted and the depth of disk_stream_read()'s       *)
(* recursion.  One level of it reads one sector.                           *)
(*                                                                         *)
(* A byte of the disk is its position.                                     *)
(***************************************************************************)
EXTENDS Integers, Sequences

CONSTANTS
    SectorSize,   \* ENKI_SECTOR_SIZE
    DiskSectors   \* sectors of the drive

ASSUME DiskAssumption == SectorSize \in Nat \ {0} /\ DiskSectors \in Nat

NoStream == [pos |-> 0, total |-> 0, depth |-> 0]

(* disk_stream_seek(), disk_stream_read() *)
StartRead(pos, total) == [pos |-> pos, total |-> total, depth |-> 1]

(* The drive never becomes ready for a sector it does not have. *)
IsReady(s) == s.pos \div SectorSize < DiskSectors

(* Also when the read ends with the sector, and nothing is left. *)
Overflows(s) == (s.pos % SectorSize) + s.total >= SectorSize

Count(s) == IF Overflows(s) THEN SectorSize - (s.pos % SectorSize) ELSE s.total

Bytes(s) == [k \in 1 .. Count(s) |-> s.pos + k - 1]

Advance(s) ==
    [pos |-> s.pos + Count(s), total |-> s.total - Count(s), depth |-> s.depth + 1]
=============================================================================
