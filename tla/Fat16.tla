------------------------------- MODULE Fat16 -------------------------------
(***************************************************************************)
(* Reading an open file: fat16_seek(), fat16_read() and the recursion of   *)
(* fat16_read_internal_stream() over the file's cluster chain              *)
(* (kernel/fs/fat16.c), and below it the reads of the disk stream, sector  *)
(* by sector.  One step is one level of one of the recursions.             *)
(***************************************************************************)
EXTENDS DiskStream, SequencesExt, FiniteSetsExt

CONSTANTS
    LastCluster,     \* the data area has clusters 2 .. LastCluster
    SectPerCluster,  \* sectors per cluster
    SectorEnd,       \* the first sector of the data area: root.sector_end
    Stops,        \* the entries fat16_get_cluster_offset() takes for an error
    EndOfChain,   \* the entry of a file's last cluster: 0xFFFF
    MaxChain,     \* bound: clusters of the file
    Sizes,        \* sizes and
    BlockCounts,  \*   numbers of blocks callers read
    Offsets       \* offsets callers seek to

Cluster == 2 .. LastCluster
ClusterSize == SectPerCluster * SectorSize

ASSUME Fat16Assumption ==
    /\ LastCluster \in Nat /\ SectPerCluster \in Nat \ {0} /\ MaxChain \in Nat
    /\ SectorEnd \in Nat
    /\ EndOfChain \in Nat \ (Cluster \cup Stops \cup {0})
    /\ 0 \in Stops /\ Stops \subseteq Nat
    /\ Sizes \subseteq Nat \ {0} /\ BlockCounts \subseteq Nat \ {0}
    /\ Offsets \subseteq Nat

VARIABLES
    file,     \* the chain of the file's clusters, and its size
    beyond,   \* what the FAT reads as for a cluster past its end
    pos,      \* desc->pos
    frame,    \* the read that runs, or Idle
    stream,   \* private->cluster_read
    out,      \* what has been read
    result    \* what the last call returned

vars == <<file, beyond, pos, frame, stream, out, result>>

EIO == -1
EUNIMP == -7
Idle == [total |-> 0]
MaxPos == MaxChain * ClusterSize   \* bound on pos

-----------------------------------------------------------------------------
(* The disk *)

(* The FAT of a disk with this file and nothing else on it. *)
fat16_get_fat_entry(cluster) ==
    IF cluster \notin Cluster THEN beyond
    ELSE IF ~Contains(file.chain, cluster) THEN 0
    ELSE IF cluster = Last(file.chain) THEN EndOfChain
    ELSE file.chain[SelectInSeq(file.chain, LAMBDA c : c = cluster) + 1]

(* Mutant: clusters are counted from zero. *)
SectorFromZero(cluster) == SectorEnd + cluster * SectPerCluster

fat16_cluster_to_sector(cluster) == SectorEnd + (cluster - 2) * SectPerCluster

(* Mutant: the last cluster of the file is taken for an error. *)
LastIsError ==
    [cluster \in Cluster \cup {EIO, EndOfChain} |->
        LET entry == IF cluster = EIO THEN EIO ELSE fat16_get_fat_entry(cluster)
        IN  IF entry \in Stops \/ entry = Last(file.chain) THEN EIO ELSE entry]

(* One iteration of the walk; an error ends it. *)
NextCluster ==
    [cluster \in Cluster \cup {EIO, EndOfChain} |->
        LET entry == IF cluster = EIO THEN EIO ELSE fat16_get_fat_entry(cluster)
        IN  IF entry \in Stops THEN EIO ELSE entry]

(* Mutant: one entry too many. *)
WalkOneMore(offset) ==
    LET Walk[i \in Nat] ==
            IF i = 0 THEN Head(file.chain) ELSE NextCluster[Walk[i - 1]]
    IN  Walk[offset \div ClusterSize + 1]

(* The cluster that holds a byte of the file. *)
fat16_get_cluster_offset(offset) ==
    LET Walk[i \in Nat] ==
            IF i = 0 THEN Head(file.chain) ELSE NextCluster[Walk[i - 1]]
    IN  Walk[offset \div ClusterSize]

-----------------------------------------------------------------------------
(* Any chain, scattered over the disk in any order. *)
Init ==
    /\ \E n \in 1 .. MaxChain :
          \E chain \in {c \in [1 .. n -> Cluster] : IsInjective(c)},
             size \in ((n - 1) * ClusterSize + 1) .. (n * ClusterSize) :
             file = [chain |-> chain, size |-> size]
    /\ beyond \in Cluster \cup {0, EndOfChain}
    /\ pos = 0
    /\ frame = Idle
    /\ stream = NoStream
    /\ out = <<>>
    /\ result = 0

(* SEEK_CUR checks the offset, and not where it leads. *)
fat16_seek(offset, mode) ==
    /\ frame = Idle
    /\ IF offset >= file.size \/ mode = "SEEK_END"
       THEN result' = (IF offset >= file.size THEN EIO ELSE EUNIMP) /\ UNCHANGED pos
       ELSE /\ result' = 0
            /\ pos' = IF mode = "SEEK_SET" THEN offset ELSE pos + offset
            /\ pos' <= MaxPos
    /\ out' = <<>>
    /\ UNCHANGED <<file, beyond, frame, stream>>

fat16_read(size, blocks) ==
    /\ frame = Idle
    /\ frame' = [total |-> size, offset |-> pos, size |-> size, left |-> blocks - 1,
                 blocks |-> blocks, level |-> 1]
    /\ out' = <<>>
    /\ result' = 0
    /\ UNCHANGED <<file, beyond, pos, stream>>

(* Mutant: a level reads on past its cluster. *)
ReadWhole == frame.total

ToRead == Min({frame.total, ClusterSize})

(* Mutant: an error of the walk is noted, and not returned. *)
ErrorIsNotReturned ==
    /\ frame # Idle /\ stream = NoStream
    /\ LET target == fat16_get_cluster_offset(frame.offset)
       IN  IF target = EIO
           THEN result' = EIO /\ UNCHANGED stream
           ELSE /\ stream' = StartRead(fat16_cluster_to_sector(target) * SectorSize
                                         + (frame.offset % ClusterSize),
                                      ToRead)
                /\ UNCHANGED result
    /\ UNCHANGED <<file, beyond, pos, frame, out>>

(* A level finds its cluster, and starts to read from it. *)
fat16_read_internal_stream ==
    /\ frame # Idle /\ stream = NoStream
    /\ LET target == fat16_get_cluster_offset(frame.offset)
       IN  IF target = EIO
           THEN frame' = Idle /\ result' = EIO /\ UNCHANGED stream
           ELSE /\ stream' = StartRead(fat16_cluster_to_sector(target) * SectorSize
                                         + (frame.offset % ClusterSize),
                                      ToRead)
                /\ UNCHANGED <<frame, result>>
    /\ UNCHANGED <<file, beyond, pos, out>>

(* The level has its bytes: the next level, the next block, or the end.    *)
Return ==
    LET left == frame.total - ToRead
    IN  IF left = 0 /\ frame.left = 0
        THEN frame' = Idle /\ result' = frame.blocks
        ELSE /\ frame' = [frame EXCEPT
                    !.offset = @ + ToRead,
                    !.total = IF left > 0 THEN left ELSE frame.size,
                    !.left = IF left > 0 THEN @ ELSE @ - 1,
                    !.level = IF left > 0 THEN @ + 1 ELSE 1]
             /\ UNCHANGED result

disk_stream_read ==
    /\ stream # NoStream /\ IsReady(stream)
    /\ out' = out \o Bytes(stream)
    /\ IF Overflows(stream)
       THEN stream' = Advance(stream) /\ UNCHANGED <<frame, result>>
       ELSE stream' = NoStream /\ Return
    /\ UNCHANGED <<file, beyond, pos>>

Polling == stream # NoStream /\ ~IsReady(stream)

(* disk_read_sector() waits for the drive, for ever. *)
Poll == Polling /\ UNCHANGED vars

Step ==
    \/ \E offset \in Offsets, mode \in {"SEEK_SET", "SEEK_CUR", "SEEK_END"} :
          fat16_seek(offset, mode)
    \/ fat16_read_internal_stream
    \/ disk_stream_read
    \/ Poll

(* Every block of the read starts at the start of a cluster.  The loaders, *)
(* the only callers, read a file in one block from its start.              *)
IsAligned(size, blocks) == pos % ClusterSize = 0 /\ (blocks = 1 \/ size % ClusterSize = 0)

Next ==
    \/ Step
    \/ \E size \in Sizes, blocks \in BlockCounts :
          IsAligned(size, blocks) /\ fat16_read(size, blocks)

(* A read runs with interrupts disabled until it returns. *)
Spec ==
    Init /\ [][Next]_vars /\ WF_vars(fat16_read_internal_stream) /\ WF_vars(disk_stream_read)

-----------------------------------------------------------------------------
(* Properties *)

(* Byte k of the file, by its chain: where it is on the disk. *)
FileByte(k) ==
    fat16_cluster_to_sector(file.chain[k \div ClusterSize + 1]) * SectorSize + (k % ClusterSize)

(* What fat16_read() has put into the buffer are the bytes of the file     *)
(* from desc->pos on, however the file is scattered over the disk and      *)
(* wherever sectors end in it ("read from disk via a series of clusters",  *)
(* fat16.c).                                                               *)
ReadIsExact ==
    \A k \in 1 .. Len(out) : pos + k <= file.size => out[k] = FileByte(pos + k - 1)

(* A read fails only past the end of the file: no entry of the FAT inside  *)
(* the chain is taken for an error.                                        *)
NoSpuriousError ==
    [][fat16_read_internal_stream /\ frame.offset < file.size => result' # EIO]_vars

InFile == frame # Idle /\ frame.offset < file.size

(* Every read returns, unless it waits for a sector that is not there.     *)
ReadsReturn == frame # Idle ~> (frame = Idle \/ Polling)

(* Which happens to a read of the file's bytes only at the end of the      *)
(* drive: disk_stream_read() asks for one sector more than it needs.       *)
WaitsOnlyBehindDrive ==
    Polling /\ InFile => out # <<>> /\ Last(out) = DiskSectors * SectorSize - 1

(* The two recursions add up, and do not multiply ("could overflow stack   *)
(* if too many levels of recursion", disk_stream.c): one level for each    *)
(* cluster of the file and one for each sector of a cluster, and one more. *)
StackIsBounded == InFile => frame.level + stream.depth <= Len(file.chain) + SectPerCluster + 1
=============================================================================
