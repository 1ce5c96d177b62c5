---------------------------- MODULE Fat16Proofs ----------------------------
(***************************************************************************)
(* Proofs about Fat16 and DiskStream, for files, clusters and sectors of   *)
(* every size.                                                             *)
(***************************************************************************)
EXTENDS Fat16, WellFoundedInduction, TLAPS

-----------------------------------------------------------------------------
(* Numbers *)

(* Every set of numbers that is not empty has a least one. *)
LEMMA LeastNumber ==
    ASSUME NEW S \in SUBSET Nat, S # {}
    PROVE  \E x \in S : \A y \in S : x =< y
<1>1. PICK x \in S : \A y \in S : ~(<<y, x>> \in OpToRel(<, Nat))
  BY NatLessThanWellFounded, WFMin
<1>2. \A y \in S : ~(y < x)
  BY <1>1, Zenon DEF OpToRel
<1>3. \A y \in S : x =< y
  BY <1>2
<1> QED
  BY <1>3

(* h is the first n + 1 values of the iteration of g from a. *)
Iteration(S, a, g, n, h) ==
    /\ h \in [0 .. n -> S]
    /\ h[0] = a
    /\ \A i \in 1 .. n : h[i] = g[h[i - 1]]

(* A function can be iterated any number of times. *)
LEMMA IterationExists ==
    ASSUME NEW S, NEW a \in S, NEW g \in [S -> S], NEW n \in Nat
    PROVE  \E h : Iteration(S, a, g, n, h)
<1> DEFINE M == {m \in Nat : ~(\E h : Iteration(S, a, g, m, h))}
<1> SUFFICES ASSUME M # {}
             PROVE  FALSE
  OBVIOUS
<1>1. PICK m \in M : \A y \in M : m =< y
  BY LeastNumber
<1>2. m \in Nat /\ ~(\E h : Iteration(S, a, g, m, h))
  BY <1>1
<1>3. CASE m = 0
  <2>1. Iteration(S, a, g, 0, [i \in 0 .. 0 |-> a])
    BY DEF Iteration
  <2> QED
    BY <1>2, <1>3, <2>1
<1>4. CASE m # 0
  <2>1. m - 1 \in Nat /\ m - 1 \notin M
    BY <1>1, <1>2, <1>4
  <2>2. PICK h : Iteration(S, a, g, m - 1, h)
    BY <2>1
  <2> DEFINE k == [i \in 0 .. m |-> IF i = m THEN g[h[m - 1]] ELSE h[i]]
  <2>3. /\ k[m] = g[h[m - 1]]
        /\ \A i \in 0 .. (m - 1) : k[i] = h[i] /\ h[i] \in S
    BY <1>2, <2>1, <2>2 DEF Iteration
  <2>4. k \in [0 .. m -> S]
    BY <1>2, <2>1, <2>2 DEF Iteration
  <2> HIDE DEF k
  <2>5. k[0] = a
    BY <1>2, <2>1, <2>2, <2>3 DEF Iteration
  <2>6. ASSUME NEW i \in 1 .. m
        PROVE  k[i] = g[k[i - 1]]
    <3>1. k[i - 1] = h[i - 1]
      BY <1>2, <2>3
    <3>2. CASE i = m
      BY <2>3, <3>1, <3>2
    <3>3. CASE i # m
      <4>1. i \in 1 .. (m - 1) /\ i \in 0 .. (m - 1)
        BY <1>2, <3>3
      <4> QED
        BY <2>2, <2>3, <3>1, <4>1 DEF Iteration
    <3> QED
      BY <3>2, <3>3
  <2>7. Iteration(S, a, g, m, k)
    BY <2>4, <2>5, <2>6 DEF Iteration
  <2> QED
    BY <1>2, <2>7
<1> QED
  BY <1>3, <1>4

(* Two iterations agree as far as both go. *)
LEMMA IterationsAgree ==
    ASSUME NEW S, NEW a, NEW g, NEW m \in Nat, NEW n \in Nat, m =< n, NEW h, NEW k,
           Iteration(S, a, g, m, h), Iteration(S, a, g, n, k)
    PROVE  h[m] = k[m]
<1> DEFINE D == {i \in 0 .. m : h[i] # k[i]}
<1> SUFFICES ASSUME D # {}
             PROVE  FALSE
  OBVIOUS
<1>1. PICK i \in D : \A y \in D : i =< y
  <2>1. D \in SUBSET Nat
    OBVIOUS
  <2> QED
    BY <2>1, LeastNumber
<1>2. i \in 0 .. m /\ h[i] # k[i]
  BY <1>1
<1>3. i # 0
  BY <1>2 DEF Iteration
<1>4. i \in 1 .. m /\ i \in 1 .. n /\ i - 1 \in 0 .. m /\ ~(i =< i - 1)
  BY <1>2, <1>3
<1>5. h[i - 1] = k[i - 1]
  BY <1>1, <1>4
<1> QED
  BY <1>2, <1>4, <1>5 DEF Iteration

IsRecursion(f, a, g) == f = [i \in Nat |-> IF i = 0 THEN a ELSE g[f[i - 1]]]

(* So the recursive definition of an iteration defines something. *)
LEMMA RecursionExists ==
    ASSUME NEW S, NEW a \in S, NEW g \in [S -> S]
    PROVE  \E f : IsRecursion(f, a, g)
<1> DEFINE H(n) == CHOOSE h : Iteration(S, a, g, n, h)
           f == [i \in Nat |-> H(i)[i]]
<1>1. \A n \in Nat : Iteration(S, a, g, n, H(n))
  BY IterationExists
<1> HIDE DEF H
<1>2. ASSUME NEW i \in Nat
      PROVE  f[i] = IF i = 0 THEN a ELSE g[f[i - 1]]
  <2>1. CASE i = 0
    BY <1>1, <2>1 DEF Iteration
  <2>2. CASE i # 0
    <3>1. i - 1 \in Nat /\ i - 1 =< i /\ i \in 1 .. i
      BY <2>2
    <3>2. H(i - 1)[i - 1] = H(i)[i - 1]
      BY <1>1, <3>1, IterationsAgree
    <3>3. H(i)[i] = g[H(i)[i - 1]]
      BY <1>1, <3>1 DEF Iteration
    <3> QED
      BY <2>2, <3>1, <3>2, <3>3
  <2> QED
    BY <2>1, <2>2
<1>3. IsRecursion(f, a, g)
  BY <1>2 DEF IsRecursion
<1> QED
  BY <1>3

(* The walk of fat16_get_cluster_offset(), step by step. *)
LEMMA WalkUnfolds ==
    ASSUME NEW S, Head(file.chain) \in S, NextCluster \in [S -> S]
    PROVE  \E f : /\ f[0] = Head(file.chain)
                  /\ \A i \in Nat \ {0} : f[i] = NextCluster[f[i - 1]]
                  /\ \A offset : fat16_get_cluster_offset(offset) = f[offset \div ClusterSize]
<1> DEFINE w == CHOOSE f : f = [i \in Nat |-> IF i = 0 THEN Head(file.chain) ELSE NextCluster[f[i - 1]]]
<1>1. \E f : IsRecursion(f, Head(file.chain), NextCluster)
  BY RecursionExists
<1>2. w = [i \in Nat |-> IF i = 0 THEN Head(file.chain) ELSE NextCluster[w[i - 1]]]
  BY <1>1 DEF IsRecursion
<1>3. ASSUME NEW offset
      PROVE  fat16_get_cluster_offset(offset) = w[offset \div ClusterSize]
  BY DEF fat16_get_cluster_offset
<1> HIDE DEF w
<1>4. w[0] = Head(file.chain) /\ \A i \in Nat \ {0} : w[i] = NextCluster[w[i - 1]]
  BY <1>2
<1> QED
  BY <1>3, <1>4

(* Dividing what lies j past a multiple of c. *)
LEMMA DivMod ==
    ASSUME NEW c \in Nat \ {0}, NEW m \in Int, NEW j \in 0 .. (c - 1)
    PROVE  (m * c + j) \div c = m /\ (m * c + j) % c = j
  OBVIOUS

(* A number without a remainder is a multiple. *)
LEMMA IsMultiple ==
    ASSUME NEW c \in Nat \ {0}, NEW x \in Nat, x % c = 0
    PROVE  \E m \in Nat : x = m * c
<1>1. x = (x \div c) * c /\ x \div c \in Nat
  OBVIOUS
<1> QED
  BY <1>1

(* Comparing multiples. *)
LEMMA CompareMultiples ==
    ASSUME NEW c \in Nat \ {0}, NEW m \in Int, NEW n \in Int
    PROVE  /\ m * c < n * c => m < n
           /\ m * c =< n * c => m =< n
           /\ (m + 1) * c = m * c + c
           /\ m * c \in Int
           /\ m \in Nat => m * c \in Nat
  OBVIOUS

(* The sizes of sectors and clusters. *)
LEMMA SizesArePositive ==
    /\ SectorSize \in Nat \ {0} /\ SectPerCluster \in Nat \ {0}
    /\ ClusterSize \in Nat \ {0} /\ ClusterSize = SectPerCluster * SectorSize
  BY DiskAssumption, Fat16Assumption DEF ClusterSize

(* The smaller of two numbers. *)
LEMMA MinOfTwo ==
    ASSUME NEW a \in Int, NEW b \in Int
    PROVE  Min({a, b}) = IF a =< b THEN a ELSE b
<1>1. \E x \in {a, b} : \A y \in {a, b} : x =< y
  OBVIOUS
<1>2. Min({a, b}) \in {a, b} /\ \A y \in {a, b} : Min({a, b}) =< y
  BY <1>1 DEF Min
<1> QED
  BY <1>2

-----------------------------------------------------------------------------
(* The file *)

(* Cluster numbers are small enough not to be taken for one of the values  *)
(* fat16_get_cluster_offset() returns an error for.                        *)
FewClusters == Cluster \cap Stops = {}

(* The drive holds the whole data area. *)
WholeDataArea == SectorEnd + (LastCluster - 1) * SectPerCluster =< DiskSectors

FileType ==
    /\ file \in [chain : Seq(Cluster), size : Nat]
    /\ Len(file.chain) >= 1
    /\ \A i, j \in 1 .. Len(file.chain) : file.chain[i] = file.chain[j] => i = j
    /\ file.size =< Len(file.chain) * ClusterSize
    /\ beyond \in Cluster \cup {0, EndOfChain}

Walked == Cluster \cup {EIO, EndOfChain}

(* Where a cluster of the chain is in it. *)
LEMMA Found ==
    ASSUME FileType, NEW i \in 1 .. Len(file.chain)
    PROVE  SelectInSeq(file.chain, LAMBDA c : c = file.chain[i]) = i
<1> DEFINE I == {j \in 1 .. Len(file.chain) : file.chain[j] = file.chain[i]}
<1>1. I = {i}
  BY DEF FileType
<1>2. SelectInSeq(file.chain, LAMBDA c : c = file.chain[i]) = Min({i})
  BY <1>1 DEF SelectInSeq
<1>3. Min({i}) = i
  BY DEF Min
<1> QED
  BY <1>2, <1>3

(* The FAT leads from a cluster of the file to the next. *)
LEMMA EntryInChain ==
    ASSUME FileType, NEW i \in 1 .. Len(file.chain)
    PROVE  fat16_get_fat_entry(file.chain[i]) =
             IF i = Len(file.chain) THEN EndOfChain ELSE file.chain[i + 1]
<1>1. file.chain[i] \in Cluster /\ Contains(file.chain, file.chain[i])
  BY DEF FileType, Contains
<1>2. file.chain[i] = Last(file.chain) <=> i = Len(file.chain)
  BY DEF FileType, Last
<1> QED
  BY <1>1, <1>2, Found DEF fat16_get_fat_entry

(* One iteration of the walk leads to a cluster, the end or an error.      *)
LEMMA NextClusterType ==
    ASSUME FileType
    PROVE  NextCluster \in [Walked -> Walked]
<1> SUFFICES ASSUME NEW c \in Walked
             PROVE  LET entry == IF c = EIO THEN EIO ELSE fat16_get_fat_entry(c)
                    IN  (IF entry \in Stops THEN EIO ELSE entry) \in Walked
  BY DEF NextCluster, Walked
<1>1. fat16_get_fat_entry(c) \in Walked \cup {0}
  <2>1. CASE c \notin Cluster
    BY <2>1 DEF fat16_get_fat_entry, FileType, Walked
  <2>2. CASE c \in Cluster /\ ~Contains(file.chain, c)
    BY <2>2 DEF fat16_get_fat_entry
  <2>3. CASE c \in Cluster /\ Contains(file.chain, c)
    <3>1. PICK i \in 1 .. Len(file.chain) : file.chain[i] = c
      BY <2>3 DEF Contains
    <3>2. i # Len(file.chain) => i + 1 \in 1 .. Len(file.chain)
      BY DEF FileType
    <3> QED
      BY <3>1, <3>2, EntryInChain DEF FileType, Walked
  <2> QED
    BY <2>1, <2>2, <2>3
<1> QED
  BY <1>1, Fat16Assumption DEF Walked

(* fat16_get_cluster_offset() finds the cluster of every byte of the file, *)
(* and past its end something it may return.                               *)
LEMMA WalkFindsCluster ==
    ASSUME FewClusters, FileType, NEW m \in Nat, NEW offset, offset \div ClusterSize = m
    PROVE  /\ fat16_get_cluster_offset(offset) \in Walked
           /\ m < Len(file.chain) => fat16_get_cluster_offset(offset) = file.chain[m + 1]
<1>0. Head(file.chain) = file.chain[1] /\ file.chain[1] \in Cluster /\ Len(file.chain) \in Nat
  BY DEF FileType
<1>1. PICK f : /\ f[0] = Head(file.chain)
               /\ \A i \in Nat \ {0} : f[i] = NextCluster[f[i - 1]]
               /\ \A o : fat16_get_cluster_offset(o) = f[o \div ClusterSize]
  BY <1>0, NextClusterType, WalkUnfolds DEF Walked
<1>2. ASSUME f[m] \notin Walked
      PROVE  FALSE
  <2> DEFINE B == {i \in Nat : f[i] \notin Walked}
  <2>1. PICK x \in B : \A y \in B : x =< y
    BY <1>2, LeastNumber
  <2>2. x # 0
    BY <1>0, <1>1, <2>1 DEF Walked
  <2>3. x \in Nat /\ x - 1 \in Nat /\ ~(x =< x - 1)
    BY <2>1, <2>2
  <2>4. f[x - 1] \in Walked /\ f[x] = NextCluster[f[x - 1]]
    BY <1>1, <2>1, <2>2, <2>3
  <2> QED
    BY <2>1, <2>4, NextClusterType
<1>3. ASSUME m < Len(file.chain), f[m] # file.chain[m + 1]
      PROVE  FALSE
  <2> DEFINE B == {i \in Nat : i < Len(file.chain) /\ f[i] # file.chain[i + 1]}
  <2>1. PICK x \in B : \A y \in B : x =< y
    BY <1>3, LeastNumber
  <2>2. x # 0
    BY <1>0, <1>1, <2>1
  <2>3. x \in Nat /\ x - 1 \in Nat /\ ~(x =< x - 1) /\ x < Len(file.chain) /\ x - 1 < Len(file.chain)
    BY <1>0, <2>1, <2>2
  <2>4. f[x - 1] = file.chain[(x - 1) + 1] /\ f[x] = NextCluster[f[x - 1]] /\ (x - 1) + 1 = x
    BY <1>1, <2>1, <2>2, <2>3
  <2>5. x \in 1 .. Len(file.chain) /\ x # Len(file.chain) /\ x + 1 \in 1 .. Len(file.chain)
    BY <1>0, <2>2, <2>3
  <2>6. file.chain[x] \in Cluster /\ file.chain[x + 1] \in Cluster
    BY <2>5 DEF FileType
  <2>7. fat16_get_fat_entry(file.chain[x]) = file.chain[x + 1]
    BY <2>5, EntryInChain
  <2>8. file.chain[x] # EIO /\ file.chain[x + 1] \notin Stops
    BY <2>6, Fat16Assumption DEF FewClusters, Cluster, EIO
  <2>9. NextCluster[file.chain[x]] = file.chain[x + 1]
    BY <2>6, <2>7, <2>8 DEF NextCluster
  <2> QED
    BY <2>1, <2>4, <2>9
<1> QED
  BY <1>1, <1>2, <1>3

-----------------------------------------------------------------------------
(* The inductive invariant *)

Frame == [total : Nat \ {0}, offset : Nat, size : Nat \ {0}, left : Nat,
          blocks : Nat \ {0}, level : Nat \ {0}]

IsWhole(bytes) == \E m \in Nat : bytes = m * ClusterSize

(* A level of the read begins at the start of a cluster, no deeper in the  *)
(* recursion than the file has clusters before it; what it has read are    *)
(* the bytes up to there.                                                  *)
FrameInv ==
    /\ frame \in Frame
    /\ result = 0
    /\ frame.offset >= pos
    /\ \E m \in Nat : frame.offset = m * ClusterSize /\ frame.level =< m + 1
    /\ frame.left # 0 => IsWhole(frame.size) /\ IsWhole(frame.total)
    /\ stream = NoStream => Len(out) = frame.offset - pos

(* The level reads from sector z on, and has read d of its sectors. *)
StreamAt(z, d) ==
    /\ stream = [pos |-> (z + d) * SectorSize, total |-> ToRead - d * SectorSize, depth |-> d + 1]
    /\ ToRead - d * SectorSize >= 0
    /\ Len(out) = frame.offset - pos + d * SectorSize
    /\ frame.offset < file.size =>
          z = fat16_cluster_to_sector(file.chain[frame.offset \div ClusterSize + 1])
    /\ d > 0 => out[Len(out)] = stream.pos - 1

StreamInv == \E z \in Int, d \in 0 .. SectPerCluster : StreamAt(z, d)

IInv ==
    /\ pos \in Nat /\ out \in Seq(Int)
    /\ FileType
    /\ ReadIsExact
    /\ frame # Idle => FrameInv
    /\ stream # NoStream => frame # Idle /\ StreamInv

(* The parts of the invariant that only name the file. *)
LEMMA FileStays ==
    ASSUME FileType, UNCHANGED <<file, beyond>>
    PROVE  FileType'
  BY DEF FileType

LEMMA InitIInv ==
    ASSUME Init
    PROVE  IInv
<1>1. FileType
  <2>0. PICK n \in 1 .. MaxChain :
          \E c \in {c \in [1 .. n -> Cluster] : IsInjective(c)},
             size \in ((n - 1) * ClusterSize + 1) .. (n * ClusterSize) :
             file = [chain |-> c, size |-> size]
    BY Zenon DEF Init
  <2>1. PICK chain \in {c \in [1 .. n -> Cluster] : IsInjective(c)},
             size \in ((n - 1) * ClusterSize + 1) .. (n * ClusterSize) :
             file = [chain |-> chain, size |-> size]
    BY <2>0
  <2>2. n \in Nat \ {0} /\ (n - 1) * ClusterSize \in Nat /\ n * ClusterSize \in Nat
    BY Fat16Assumption, SizesArePositive
  <2>3. size \in Nat /\ size =< n * ClusterSize
    BY <2>2
  <2>4. chain \in Seq(Cluster) /\ Len(chain) = n
    BY <2>2
  <2>5. \A i, j \in 1 .. n : chain[i] = chain[j] => i = j
    BY <2>2 DEF IsInjective
  <2>6. beyond \in Cluster \cup {0, EndOfChain}
    BY DEF Init
  <2> QED
    BY <2>1, <2>2, <2>3, <2>4, <2>5, <2>6 DEF FileType
<1>2. ReadIsExact
  BY DEF Init, ReadIsExact
<1> QED
  BY <1>1, <1>2 DEF Init, IInv

(* fat16_seek() empties the buffer, and runs only between reads. *)
LEMMA SeekIInv ==
    ASSUME IInv, NEW offset \in Offsets, NEW mode \in {"SEEK_SET", "SEEK_CUR", "SEEK_END"},
           fat16_seek(offset, mode)
    PROVE  IInv'
<1>1. pos' \in Nat /\ out' = <<>> /\ frame' = Idle /\ frame = Idle /\ stream' = stream
  BY Fat16Assumption DEF IInv, fat16_seek
<1>2. FileType'
  BY FileStays DEF IInv, fat16_seek
<1>3. ReadIsExact'
  BY <1>1 DEF ReadIsExact
<1>4. stream' = NoStream
  BY <1>1 DEF IInv
<1> QED
  BY <1>1, <1>2, <1>3, <1>4 DEF IInv

(* A read is a record with more fields than Idle. *)
LEMMA FrameIsNotIdle == \A f \in Frame : f # Idle
  BY DEF Frame, Idle

(* fat16_read() starts at the start of a cluster. *)
LEMMA ReadIInv ==
    ASSUME IInv, NEW size \in Sizes, NEW blocks \in BlockCounts,
           IsAligned(size, blocks), fat16_read(size, blocks)
    PROVE  IInv'
<1>1. frame = Idle /\ stream = NoStream /\ stream' = NoStream /\ out' = <<>> /\ pos' = pos /\ pos \in Nat
  BY DEF IInv, fat16_read
<1>2. FileType'
  BY FileStays DEF IInv, fat16_read
<1>3. ReadIsExact'
  BY <1>1 DEF ReadIsExact
<1>4. size \in Nat \ {0} /\ blocks \in Nat \ {0}
  BY Fat16Assumption
<1>5. frame' = [total |-> size, offset |-> pos, size |-> size, left |-> blocks - 1,
                blocks |-> blocks, level |-> 1]
  BY DEF fat16_read
<1>6. frame' \in Frame /\ frame'.offset = pos /\ frame'.level = 1
  BY <1>1, <1>4, <1>5 DEF Frame
<1>7. PICK m \in Nat : pos = m * ClusterSize
  BY <1>1, IsMultiple, SizesArePositive DEF fat16_read, IsAligned
<1>8. ASSUME blocks # 1
      PROVE  IsWhole(size)
  BY <1>4, <1>8, IsMultiple, SizesArePositive DEF fat16_read, IsAligned, IsWhole
<1>9. frame'.left # 0 => IsWhole(frame'.size) /\ IsWhole(frame'.total)
  BY <1>4, <1>5, <1>8
<1>10. FrameInv'
  <2>1. result' = 0
    BY DEF fat16_read
  <2>2. 1 =< m + 1
    OBVIOUS
  <2>3. Len(out') = frame'.offset - pos'
    BY <1>1, <1>6
  <2>4. frame'.offset >= pos'
    BY <1>1, <1>6
  <2>5. \E n \in Nat : frame'.offset = n * ClusterSize /\ frame'.level =< n + 1
    BY <1>6, <1>7, <2>2
  <2>6. frame'.left # 0 => IsWhole(frame.size)' /\ IsWhole(frame.total)'
    BY <1>9 DEF IsWhole
  <2> QED
    BY <1>6, <2>1, <2>3, <2>4, <2>5, <2>6 DEF FrameInv
<1> QED
  BY <1>1, <1>2, <1>3, <1>10 DEF IInv

(* What a level asks of the disk is more than nothing and at most a        *)
(* cluster.                                                                *)
LEMMA ToReadIsBounded ==
    ASSUME frame \in Frame
    PROVE  /\ ToRead \in Nat \ {0} /\ ToRead =< frame.total /\ ToRead =< ClusterSize
           /\ (ToRead = frame.total \/ ToRead = ClusterSize)
<1>1. frame.total \in Nat \ {0}
  BY DEF Frame
<1>2. ToRead = IF frame.total =< ClusterSize THEN frame.total ELSE ClusterSize
  BY <1>1, MinOfTwo, SizesArePositive DEF ToRead
<1> QED
  BY <1>1, <1>2, SizesArePositive

(* The cluster of the level, when it reads bytes of the file. *)
LEMMA LevelInChain ==
    ASSUME FileType, NEW m \in Nat, frame.offset = m * ClusterSize
    PROVE  /\ frame.offset \div ClusterSize = m /\ frame.offset % ClusterSize = 0
           /\ frame.offset < file.size => m < Len(file.chain)
<1>0. ClusterSize \in Nat \ {0} /\ 0 \in 0 .. (ClusterSize - 1) /\ m \in Int
  BY SizesArePositive
<1>1. (m * ClusterSize + 0) \div ClusterSize = m /\ (m * ClusterSize + 0) % ClusterSize = 0
  BY <1>0, DivMod, Zenon
<1>2. m * ClusterSize \in Nat /\ Len(file.chain) * ClusterSize \in Nat /\ Len(file.chain) \in Nat
  BY CompareMultiples, SizesArePositive DEF FileType
<1>3. ASSUME frame.offset < file.size
      PROVE  m < Len(file.chain)
  <2>1. m * ClusterSize < Len(file.chain) * ClusterSize
    BY <1>2, <1>3 DEF FileType
  <2>2. Len(file.chain) \in Int
    BY <1>2
  <2> QED
    BY <1>0, <2>1, <2>2, CompareMultiples, Zenon
<1> QED
  BY <1>1, <1>2, <1>3

(* The bytes of the buffer are those of the file as long as buffer, file   *)
(* and position stay.                                                      *)
LEMMA ExactStays ==
    ASSUME ReadIsExact, UNCHANGED <<file, pos, out>>
    PROVE  ReadIsExact'
  BY DEF ReadIsExact, FileByte, fat16_cluster_to_sector

(* A level finds its cluster, or fails. *)
LEMMA LevelIInv ==
    ASSUME FewClusters, IInv, fat16_read_internal_stream
    PROVE  IInv'
<1> DEFINE target == fat16_get_cluster_offset(frame.offset)
<1>1. frame # Idle /\ stream = NoStream /\ UNCHANGED <<file, beyond, pos, out>>
  BY DEF fat16_read_internal_stream
<1>2. FileType' /\ ReadIsExact' /\ pos' \in Nat /\ out' \in Seq(Int)
  BY <1>1, FileStays, ExactStays DEF IInv
<1>3. CASE target = EIO
  <2>1. frame' = Idle /\ stream' = NoStream
    BY <1>1, <1>3 DEF fat16_read_internal_stream
  <2> QED
    BY <1>2, <2>1 DEF IInv
<1>4. CASE target # EIO
  <2>1. /\ stream' = StartRead(fat16_cluster_to_sector(target) * SectorSize
                                + (frame.offset % ClusterSize), ToRead)
        /\ UNCHANGED <<frame, result>>
    BY <1>4 DEF fat16_read_internal_stream
  <2>2. FrameInv
    BY <1>1 DEF IInv
  <2>3. PICK m \in Nat : frame.offset = m * ClusterSize /\ frame.level =< m + 1
    BY <2>2 DEF FrameInv
  <2>4. /\ frame.offset \div ClusterSize = m /\ frame.offset % ClusterSize = 0
        /\ frame.offset < file.size => m < Len(file.chain)
    BY <2>3, LevelInChain DEF IInv
  <2>5. target \in Walked /\ (m < Len(file.chain) => target = file.chain[m + 1])
    BY <2>4, WalkFindsCluster DEF IInv
  <2> HIDE DEF target
  <2>6. target \in Int
    BY <2>5, Fat16Assumption DEF Walked, Cluster, EIO
  <2>7. PICK z \in Int : z = fat16_cluster_to_sector(target)
    BY <2>6, Fat16Assumption DEF fat16_cluster_to_sector
  <2>8. frame.offset < file.size =>
          z = fat16_cluster_to_sector(file.chain[frame.offset \div ClusterSize + 1])
    BY <2>4, <2>5, <2>7
  <2>9. ToRead \in Nat \ {0} /\ Len(out) = frame.offset - pos /\ frame.offset \in Nat /\ pos \in Nat
    BY <1>1, <2>2, ToReadIsBounded DEF FrameInv, Frame, IInv
  <2>10. stream' = [pos |-> (z + 0) * SectorSize, total |-> ToRead - 0 * SectorSize, depth |-> 0 + 1]
    <3>1. (z + 0) * SectorSize = z * SectorSize + 0 /\ ToRead - 0 * SectorSize = ToRead
      BY <2>7, <2>9, SizesArePositive
    <3> QED
      BY <2>1, <2>4, <2>7, <3>1 DEF StartRead
  <2>11. ToRead' = ToRead
    BY <2>1 DEF ToRead
  <2>12. StreamAt(z, 0)'
    <3>1. ToRead - 0 * SectorSize >= 0 /\ Len(out) = frame.offset - pos + 0 * SectorSize
      BY <2>9, SizesArePositive
    <3>2. fat16_cluster_to_sector(file.chain[frame.offset \div ClusterSize + 1])'
            = fat16_cluster_to_sector(file.chain[frame.offset \div ClusterSize + 1])
      BY <1>1, <2>1 DEF fat16_cluster_to_sector
    <3>3. ~(0 > 0)
      OBVIOUS
    <3> QED
      BY <1>1, <2>1, <2>8, <2>10, <2>11, <3>1, <3>2, <3>3 DEF StreamAt
  <2>13. 0 \in 0 .. SectPerCluster
    BY Fat16Assumption
  <2>14. StreamInv'
    BY <2>7, <2>12, <2>13 DEF StreamInv
  <2>15. stream' # NoStream
    BY <2>10 DEF NoStream
  <2>16. FrameInv'
    BY <1>1, <2>1, <2>2, <2>15 DEF FrameInv, IsWhole
  <2> QED
    BY <1>1, <1>2, <2>1, <2>14, <2>16 DEF IInv
<1> QED
  BY <1>3, <1>4

(* One level of disk_stream_read(), which starts at the start of a sector. *)
LEMMA SectorRead ==
    ASSUME NEW y \in Int, NEW total \in Nat, NEW depth, NEW s,
           s = [pos |-> y * SectorSize, total |-> total, depth |-> depth]
    PROVE  /\ Overflows(s) <=> total >= SectorSize
           /\ Count(s) = IF total >= SectorSize THEN SectorSize ELSE total
           /\ Count(s) \in Nat
           /\ Bytes(s) \in Seq(Int) /\ Len(Bytes(s)) = Count(s)
           /\ \A k \in 1 .. Count(s) : Bytes(s)[k] = y * SectorSize + k - 1
           /\ IsReady(s) <=> y < DiskSectors
<1>0. SectorSize \in Nat \ {0} /\ 0 \in 0 .. (SectorSize - 1)
  BY SizesArePositive
<1>1. (y * SectorSize + 0) % SectorSize = 0 /\ (y * SectorSize + 0) \div SectorSize = y
  BY <1>0, DivMod, Zenon
<1>2. y * SectorSize \in Int
  BY <1>0
<1> DEFINE p == y * SectorSize
<1>3. p % SectorSize = 0 /\ p \div SectorSize = y /\ p \in Int
  BY <1>1, <1>2
<1>4. s.pos = p /\ s.total = total
  OBVIOUS
<1> HIDE DEF p
<1>5. Overflows(s) <=> total >= SectorSize
  BY <1>0, <1>3, <1>4 DEF Overflows
<1>6. Count(s) = IF total >= SectorSize THEN SectorSize ELSE total
  BY <1>0, <1>3, <1>4, <1>5 DEF Count
<1>7. Count(s) \in Nat
  BY <1>0, <1>6
<1> HIDE DEF Count
<1>8. \A k \in 1 .. Count(s) : p + k - 1 \in Int
  BY <1>3, <1>7
<1>9. Bytes(s) \in Seq(Int) /\ Len(Bytes(s)) = Count(s)
  BY <1>4, <1>7, <1>8 DEF Bytes
<1>10. \A k \in 1 .. Count(s) : Bytes(s)[k] = p + k - 1
  BY <1>4 DEF Bytes
<1>11. IsReady(s) <=> y < DiskSectors
  BY <1>3, <1>4 DEF IsReady
<1> QED
  BY <1>5, <1>6, <1>7, <1>9, <1>10, <1>11 DEF p

(* b are the c bytes of the disk from sector y on. *)
IsDisk(b, y, c) ==
    /\ b \in Seq(Int) /\ Len(b) = c
    /\ \A k \in 1 .. c : b[k] = y * SectorSize + k - 1

Appends(b) == out' = out \o b

(* What is appended, and what was there. *)
LEMMA Concatenation ==
    ASSUME NEW s \in Seq(Int), NEW t \in Seq(Int)
    PROVE  /\ s \o t \in Seq(Int) /\ Len(s \o t) = Len(s) + Len(t)
           /\ \A k \in 1 .. Len(s) : (s \o t)[k] = s[k]
           /\ \A k \in 1 .. Len(t) : (s \o t)[Len(s) + k] = t[k]
  OBVIOUS

(* They are still wanted. *)
IsWanted(d, c) == d * SectorSize + c =< ToRead

(* The bytes a level of disk_stream_read() adds to the buffer are those    *)
(* of the file at this place.                                              *)
LEMMA SectorIsExact ==
    ASSUME IInv, FrameInv, NEW z \in Int, NEW d \in Nat, StreamAt(z, d),
           NEW c \in Nat, IsWanted(d, c), NEW b, IsDisk(b, z + d, c),
           Appends(b), UNCHANGED <<file, pos>>
    PROVE  ReadIsExact'
<1> DEFINE n == Len(out)
           e == d * SectorSize
<1>1. /\ n \in Nat /\ e \in Nat /\ n = frame.offset - pos + e /\ pos \in Nat
      /\ frame.offset \in Nat /\ file.size \in Nat
  BY SizesArePositive DEF IInv, StreamAt, FrameInv, Frame, FileType
<1> HIDE DEF n, e
<1>2. PICK m \in Nat : frame.offset = m * ClusterSize
  BY DEF FrameInv
<1>3. /\ frame.offset \div ClusterSize = m
      /\ frame.offset < file.size => m < Len(file.chain)
  BY <1>2, LevelInChain DEF IInv
<1>0. out \in Seq(Int) /\ b \in Seq(Int) /\ Len(b) = c
  BY DEF IInv, IsDisk
<1>4. /\ Len(out') = n + c
      /\ \A k \in 1 .. n : out'[k] = out[k]
      /\ \A k \in 1 .. c : out'[n + k] = b[k]
  BY <1>0, Concatenation, Zenon DEF n, Appends
<1>7. ASSUME NEW k \in 1 .. c, pos + (n + k) <= file.size
      PROVE  b[k] = FileByte(pos + (n + k) - 1)
  <2> DEFINE j == e + k - 1
  <2>1. pos + (n + k) - 1 = m * ClusterSize + j
    BY <1>1, <1>2
  <2>2. frame.offset < file.size
    BY <1>1, <1>7
  <2>3. z = fat16_cluster_to_sector(file.chain[m + 1])
    BY <1>3, <2>2 DEF StreamAt
  <2>4. j \in 0 .. (ClusterSize - 1)
    <3>1. ToRead \in Nat /\ ToRead =< ClusterSize /\ ClusterSize \in Nat
      BY SizesArePositive, ToReadIsBounded DEF FrameInv
    <3>2. e + c =< ToRead
      BY DEF IsWanted, e
    <3> QED
      BY <1>1, <3>1, <3>2
  <2>5. b[k] = z * SectorSize + j
    <3>1. (z + d) * SectorSize = z * SectorSize + e /\ z * SectorSize \in Int
      BY SizesArePositive DEF e
    <3>2. b[k] = (z + d) * SectorSize + k - 1
      BY DEF IsDisk
    <3> QED
      BY <1>1, <3>1, <3>2
  <2> HIDE DEF j
  <2>6. (m * ClusterSize + j) \div ClusterSize = m /\ (m * ClusterSize + j) % ClusterSize = j
    <3>1. ClusterSize \in Nat \ {0} /\ m \in Int
      BY SizesArePositive
    <3> QED
      BY <2>4, <3>1, DivMod, Zenon
  <2>7. FileByte(m * ClusterSize + j) = z * SectorSize + j
    BY <2>3, <2>6, Zenon DEF FileByte
  <2> QED
    BY <2>1, <2>5, <2>7
<1>8. ASSUME NEW k \in 1 .. (n + c), pos + k <= file.size
      PROVE  out'[k] = FileByte(pos + k - 1)
  <2>1. CASE k \in 1 .. n
    <3>1. out[k] = FileByte(pos + k - 1)
      BY <1>8, <2>1 DEF IInv, ReadIsExact, n
    <3> QED
      BY <1>4, <2>1, <3>1
  <2>2. CASE k \notin 1 .. n
    <3>1. k - n \in 1 .. c /\ n + (k - n) = k
      BY <1>1, <2>2
    <3>2. b[k - n] = FileByte(pos + (n + (k - n)) - 1)
      BY <1>7, <1>8, <3>1
    <3> QED
      BY <1>4, <3>1, <3>2
  <2> QED
    BY <2>1, <2>2
<1>9. \A k : FileByte(k)' = FileByte(k)
  BY DEF FileByte, fat16_cluster_to_sector
<1> QED
  BY <1>4, <1>8, <1>9 DEF ReadIsExact

(* What is known of a stream that has read d sectors of the level. *)
LEMMA StreamFacts ==
    ASSUME IInv, FrameInv, NEW z \in Int, NEW d \in Nat, StreamAt(z, d)
    PROVE  /\ z + d \in Int /\ d * SectorSize \in Nat
           /\ ToRead - d * SectorSize \in Nat
           /\ stream = [pos |-> (z + d) * SectorSize, total |-> ToRead - d * SectorSize, depth |-> d + 1]
           /\ IsDisk(Bytes(stream), z + d, Count(stream)) /\ Count(stream) \in Nat
           /\ Count(stream) = IF Overflows(stream) THEN SectorSize ELSE ToRead - d * SectorSize
           /\ Overflows(stream) <=> ToRead - d * SectorSize >= SectorSize
           /\ IsReady(stream) <=> z + d < DiskSectors
<1>1. z + d \in Int /\ d * SectorSize \in Nat
  BY SizesArePositive
<1>2. ToRead \in Nat \ {0} /\ ToRead - d * SectorSize >= 0
  BY ToReadIsBounded DEF FrameInv, StreamAt
<1>3. ToRead - d * SectorSize \in Nat
  BY <1>1, <1>2
<1>4. stream = [pos |-> (z + d) * SectorSize, total |-> ToRead - d * SectorSize, depth |-> d + 1]
  BY DEF StreamAt
<1> DEFINE total == ToRead - d * SectorSize
           y == z + d
<1>5. total \in Nat /\ y \in Int /\ stream = [pos |-> y * SectorSize, total |-> total, depth |-> d + 1]
  BY <1>1, <1>3, <1>4
<1> HIDE DEF total, y
<1>6. /\ Overflows(stream) <=> total >= SectorSize
      /\ Count(stream) = IF total >= SectorSize THEN SectorSize ELSE total
      /\ Count(stream) \in Nat
      /\ Bytes(stream) \in Seq(Int) /\ Len(Bytes(stream)) = Count(stream)
      /\ \A k \in 1 .. Count(stream) : Bytes(stream)[k] = y * SectorSize + k - 1
      /\ IsReady(stream) <=> y < DiskSectors
  BY <1>5, SectorRead
<1>7. IsDisk(Bytes(stream), y, Count(stream))
  BY <1>6, Zenon DEF IsDisk
<1>8. Count(stream) = IF Overflows(stream) THEN SectorSize ELSE total
  BY <1>6, Zenon
<1> QED
  BY <1>1, <1>3, <1>4, <1>6, <1>7, <1>8 DEF total, y

(* A sector is read, and the level wants more. *)
LEMMA MoreIInv ==
    ASSUME IInv, FrameInv, NEW z \in Int, NEW d \in 0 .. SectPerCluster, StreamAt(z, d),
           Overflows(stream), Appends(Bytes(stream)), stream' = Advance(stream),
           UNCHANGED <<file, beyond, pos, frame, result>>
    PROVE  IInv'
<1>0. d \in Nat /\ SectorSize \in Nat \ {0}
  BY SizesArePositive
<1>1. /\ d * SectorSize \in Nat /\ ToRead - d * SectorSize \in Nat
      /\ stream = [pos |-> (z + d) * SectorSize, total |-> ToRead - d * SectorSize, depth |-> d + 1]
      /\ IsDisk(Bytes(stream), z + d, SectorSize)
      /\ Count(stream) = SectorSize /\ ToRead - d * SectorSize >= SectorSize
  BY <1>0, StreamFacts
<1>2. ToRead \in Nat \ {0} /\ ToRead =< ClusterSize /\ ToRead' = ToRead
  BY ToReadIsBounded DEF FrameInv, ToRead
<1>3. (d + 1) * SectorSize = d * SectorSize + SectorSize /\ (z + (d + 1)) * SectorSize = (z + d) * SectorSize + SectorSize
  BY <1>0
<1>4. IsWanted(d, SectorSize)
  BY <1>0, <1>1, <1>2 DEF IsWanted
<1>5. d + 1 \in 0 .. SectPerCluster
  <2>1. (d + 1) * SectorSize =< SectPerCluster * SectorSize
    BY <1>0, <1>1, <1>2, <1>3, SizesArePositive
  <2>2. d + 1 =< SectPerCluster
    <3>1. d + 1 \in Int /\ SectPerCluster \in Int
      BY <1>0, SizesArePositive
    <3> QED
      BY <1>0, <2>1, <3>1, CompareMultiples, Zenon
  <2> QED
    BY <1>0, <2>2, SizesArePositive
<1>6. ReadIsExact'
  BY <1>0, <1>1, <1>4, SectorIsExact
<1>7. /\ out \in Seq(Int) /\ Bytes(stream) \in Seq(Int) /\ Len(Bytes(stream)) = SectorSize
      /\ Bytes(stream)[SectorSize] = (z + d) * SectorSize + SectorSize - 1
  BY <1>0, <1>1 DEF IInv, IsDisk
<1>8. /\ out' \in Seq(Int) /\ Len(out') = Len(out) + SectorSize
      /\ \A k \in 1 .. SectorSize : out'[Len(out) + k] = Bytes(stream)[k]
  BY <1>7, Concatenation, Zenon DEF Appends
<1>9. out'[Len(out')] = (z + d) * SectorSize + SectorSize - 1
  BY <1>0, <1>7, <1>8
<1>10. stream' = [pos |-> (z + (d + 1)) * SectorSize, total |-> ToRead - (d + 1) * SectorSize,
                  depth |-> (d + 1) + 1]
  <2>1. ToRead - (d + 1) * SectorSize = ToRead - d * SectorSize - SectorSize
    BY <1>0, <1>1, <1>2, <1>3
  <2>2. /\ stream.pos = (z + d) * SectorSize /\ stream.total = ToRead - d * SectorSize
        /\ stream.depth = d + 1
    BY <1>1
  <2> QED
    BY <1>1, <1>3, <2>1, <2>2, Zenon DEF Advance
<1>11. StreamAt(z, d + 1)'
  <2>1. ToRead - (d + 1) * SectorSize >= 0
    BY <1>0, <1>1, <1>2, <1>3
  <2>2. Len(out') = frame.offset - pos + (d + 1) * SectorSize
    <3>1. Len(out) = frame.offset - pos + d * SectorSize /\ frame.offset \in Nat /\ pos \in Nat
      BY DEF StreamAt, FrameInv, Frame, IInv
    <3>2. PICK e \in Nat : e = d * SectorSize
      BY <1>1
    <3>3. Len(out') = frame.offset - pos + (e + SectorSize)
      BY <1>0, <1>8, <3>1, <3>2
    <3> QED
      BY <1>3, <3>2, <3>3
  <2>3. frame.offset < file.size =>
          z = fat16_cluster_to_sector(file.chain[frame.offset \div ClusterSize + 1])
    BY DEF StreamAt
  <2>4. fat16_cluster_to_sector(file.chain[frame.offset \div ClusterSize + 1])'
          = fat16_cluster_to_sector(file.chain[frame.offset \div ClusterSize + 1])
    BY DEF fat16_cluster_to_sector
  <2>5. out'[Len(out')] = stream'.pos - 1
    <3>1. PICK q \in Int : q = (z + d) * SectorSize
      BY <1>0
    <3>2. out'[Len(out')] = q + SectorSize - 1 /\ stream'.pos = q + SectorSize
      BY <1>3, <1>9, <1>10, <3>1
    <3> QED
      BY <1>0, <3>2
  <2> QED
    BY <1>2, <1>10, <2>1, <2>2, <2>3, <2>4, <2>5 DEF StreamAt
<1>12. StreamInv'
  BY <1>5, <1>11 DEF StreamInv
<1>13. stream' # NoStream
  <2>1. stream'.depth = (d + 1) + 1 /\ (d + 1) + 1 # 0
    BY <1>0, <1>10
  <2> QED
    BY <2>1 DEF NoStream
<1>14. FrameInv'
  BY <1>13 DEF FrameInv, IsWhole
<1>15. FileType'
  BY FileStays DEF IInv
<1>16. frame # Idle
  BY FrameIsNotIdle DEF FrameInv
<1> QED
  BY <1>6, <1>8, <1>12, <1>14, <1>15, <1>16 DEF IInv

(* Other values for the fields of a read. *)
LEMMA FrameUpdate ==
    ASSUME NEW f \in Frame, NEW o \in Nat, NEW t \in Nat \ {0}, NEW l \in Nat, NEW v \in Nat \ {0}
    PROVE  [f EXCEPT !.offset = o, !.total = t, !.left = l, !.level = v] \in Frame
  BY DEF Frame

(* The level has its bytes: the next one starts at the next cluster. *)
LEMMA ReturnIInv ==
    ASSUME IInv, FrameInv, NEW z \in Int, NEW d \in 0 .. SectPerCluster, StreamAt(z, d),
           ~Overflows(stream), Appends(Bytes(stream)), stream' = NoStream, Return,
           UNCHANGED <<file, beyond, pos>>
    PROVE  IInv'
<1>0. d \in Nat /\ ClusterSize \in Nat \ {0}
  BY SizesArePositive
<1>1. /\ d * SectorSize \in Nat /\ ToRead - d * SectorSize \in Nat
      /\ IsDisk(Bytes(stream), z + d, ToRead - d * SectorSize)
  BY <1>0, StreamFacts
<1>2. /\ ToRead \in Nat \ {0} /\ ToRead =< frame.total /\ ToRead =< ClusterSize
      /\ (ToRead = frame.total \/ ToRead = ClusterSize)
  BY ToReadIsBounded DEF FrameInv
<1>3. IsWanted(d, ToRead - d * SectorSize)
  BY <1>1, <1>2 DEF IsWanted
<1>4. ReadIsExact'
  BY <1>0, <1>1, <1>3, SectorIsExact
<1>5. /\ out \in Seq(Int) /\ Bytes(stream) \in Seq(Int)
      /\ Len(Bytes(stream)) = ToRead - d * SectorSize
  BY <1>1 DEF IInv, IsDisk
<1>6. out' \in Seq(Int) /\ Len(out') = Len(out) + (ToRead - d * SectorSize)
  BY <1>5, Concatenation, Zenon DEF Appends
<1>7. frame.offset \in Nat /\ pos \in Nat /\ frame.total \in Nat \ {0} /\ frame.left \in Nat
  BY DEF FrameInv, Frame, IInv
<1>8. Len(out') = frame.offset + ToRead - pos
  <2>1. Len(out) = frame.offset - pos + d * SectorSize
    BY DEF StreamAt
  <2>2. PICK e \in Nat : e = d * SectorSize
    BY <1>1
  <2> QED
    BY <1>2, <1>6, <1>7, <2>1, <2>2
<1>9. FileType'
  BY FileStays DEF IInv
<1>10. CASE frame.total - ToRead = 0 /\ frame.left = 0
  <2>1. frame' = Idle
    BY <1>10 DEF Return
  <2> QED
    BY <1>4, <1>6, <1>9, <2>1 DEF IInv
<1>11. CASE ~(frame.total - ToRead = 0 /\ frame.left = 0)
  <2> DEFINE left == frame.total - ToRead
  <2>1. /\ frame' = [frame EXCEPT
                    !.offset = @ + ToRead,
                    !.total = IF left > 0 THEN left ELSE frame.size,
                    !.left = IF left > 0 THEN @ ELSE @ - 1,
                    !.level = IF left > 0 THEN @ + 1 ELSE 1]
        /\ result' = result
    BY <1>11 DEF Return
  <2>2. left \in Nat /\ (left > 0 => ToRead = ClusterSize) /\ (~(left > 0) => ToRead = frame.total)
    BY <1>2, <1>7
  <2>3. /\ frame'.offset = frame.offset + ToRead
        /\ frame'.total = IF left > 0 THEN left ELSE frame.size
        /\ frame'.left = IF left > 0 THEN frame.left ELSE frame.left - 1
        /\ frame'.level = IF left > 0 THEN frame.level + 1 ELSE 1
        /\ frame'.size = frame.size
    BY <2>1 DEF FrameInv, Frame
  <2>4. ~(left > 0) => frame.left # 0
    BY <1>11, <2>2
  <2>5. frame' \in Frame
    <3>1. frame \in Frame /\ frame.size \in Nat \ {0} /\ frame.level \in Nat \ {0}
      BY DEF FrameInv, Frame
    <3>2. /\ frame.offset + ToRead \in Nat
          /\ (IF left > 0 THEN left ELSE frame.size) \in Nat \ {0}
          /\ (IF left > 0 THEN frame.left ELSE frame.left - 1) \in Nat
          /\ (IF left > 0 THEN frame.level + 1 ELSE 1) \in Nat \ {0}
      BY <1>2, <1>7, <2>2, <2>4, <3>1
    <3>3. frame' = [frame EXCEPT
                    !.offset = frame.offset + ToRead,
                    !.total = IF left > 0 THEN left ELSE frame.size,
                    !.left = IF left > 0 THEN frame.left ELSE frame.left - 1,
                    !.level = IF left > 0 THEN frame.level + 1 ELSE 1]
      BY <2>1, Zenon
    <3> QED
      BY <3>1, <3>2, <3>3, FrameUpdate
  <2> HIDE DEF left
  <2>6. frame'.left # 0 => frame.left # 0
    BY <2>3, <2>4
  <2>7. ASSUME frame.left # 0
        PROVE  IsWhole(frame.size) /\ \E m \in Nat : frame.total = m * ClusterSize
    BY <2>7 DEF FrameInv, IsWhole
  <2>8. ToRead = ClusterSize
    <3>1. CASE left > 0
      BY <2>2, <3>1
    <3>2. CASE ~(left > 0)
      <4>1. PICK m \in Nat : frame.total = m * ClusterSize
        BY <2>4, <2>7, <3>2
      <4>2. 0 * ClusterSize < m * ClusterSize
        BY <1>0, <1>7, <4>1
      <4>3. 0 < m
        BY <1>0, <4>2, CompareMultiples
      <4>4. 1 * ClusterSize =< m * ClusterSize
        BY <1>0, <4>3
      <4> QED
        BY <1>0, <1>2, <1>7, <2>2, <3>2, <4>1, <4>4
    <3> QED
      BY <3>1, <3>2
  <2>9. \E m \in Nat : frame'.offset = m * ClusterSize /\ frame'.level =< m + 1
    <3>1. PICK m \in Nat : frame.offset = m * ClusterSize /\ frame.level =< m + 1
      BY DEF FrameInv
    <3>2. (m + 1) * ClusterSize = m * ClusterSize + ClusterSize
      BY <1>0
    <3>3. frame'.offset = (m + 1) * ClusterSize
      BY <2>3, <2>8, <3>1, <3>2
    <3>4. frame'.level =< (m + 1) + 1
      BY <2>3, <3>1 DEF FrameInv, Frame
    <3> QED
      BY <3>3, <3>4
  <2>10. ASSUME frame'.left # 0
         PROVE  IsWhole(frame.size)' /\ IsWhole(frame.total)'
    <3>1. IsWhole(frame.size)
      BY <2>6, <2>7, <2>10
    <3>2. PICK m \in Nat : frame.total = m * ClusterSize
      BY <2>6, <2>7, <2>10
    <3>3. CASE left > 0
      <4>1. frame'.total = m * ClusterSize - ClusterSize
        BY <2>3, <2>8, <3>2, <3>3 DEF left
      <4>2. (m - 1) * ClusterSize = m * ClusterSize - ClusterSize
        BY <1>0
      <4>3. m # 0
        BY <1>0, <1>7, <3>2
      <4>4. m - 1 \in Nat /\ frame'.total = (m - 1) * ClusterSize
        BY <4>1, <4>2, <4>3
      <4> QED
        BY <2>3, <3>1, <4>4 DEF IsWhole
    <3>4. CASE ~(left > 0)
      BY <2>3, <3>1, <3>4 DEF IsWhole
    <3> QED
      BY <3>3, <3>4
  <2>11. frame'.offset >= pos' /\ Len(out') = frame'.offset - pos'
    <3>1. frame.offset >= pos
      BY DEF FrameInv
    <3> QED
      BY <1>2, <1>7, <1>8, <2>3, <3>1
  <2>12. FrameInv'
    <3>1. result' = 0
      BY <2>1 DEF FrameInv
    <3> QED
      BY <2>5, <2>9, <2>10, <2>11, <3>1 DEF FrameInv
  <2> QED
    BY <1>4, <1>6, <1>7, <1>9, <2>12 DEF IInv
<1> QED
  BY <1>10, <1>11

(* A level of disk_stream_read(). *)
LEMMA StreamIInv ==
    ASSUME IInv, disk_stream_read
    PROVE  IInv'
<1>1. stream # NoStream /\ Appends(Bytes(stream)) /\ UNCHANGED <<file, beyond, pos>>
  BY DEF disk_stream_read, Appends
<1>2. FrameInv
  BY <1>1 DEF IInv
<1>3. PICK z \in Int, d \in 0 .. SectPerCluster : StreamAt(z, d)
  BY <1>1 DEF IInv, StreamInv
<1>4. CASE Overflows(stream)
  <2>1. stream' = Advance(stream) /\ UNCHANGED <<frame, result>>
    BY <1>4 DEF disk_stream_read
  <2> QED
    BY <1>1, <1>2, <1>3, <1>4, <2>1, MoreIInv
<1>5. CASE ~Overflows(stream)
  <2>1. stream' = NoStream /\ Return
    BY <1>5 DEF disk_stream_read
  <2> QED
    BY <1>1, <1>2, <1>3, <1>5, <2>1, ReturnIInv
<1> QED
  BY <1>4, <1>5

LEMMA NextIInv ==
    ASSUME FewClusters, IInv, [Next]_vars
    PROVE  IInv'
<1>1. CASE \E offset \in Offsets, mode \in {"SEEK_SET", "SEEK_CUR", "SEEK_END"} : fat16_seek(offset, mode)
  BY <1>1, SeekIInv
<1>2. CASE \E size \in Sizes, blocks \in BlockCounts : IsAligned(size, blocks) /\ fat16_read(size, blocks)
  BY <1>2, ReadIInv
<1>3. CASE fat16_read_internal_stream
  BY <1>3, LevelIInv
<1>4. CASE disk_stream_read
  BY <1>4, StreamIInv
<1>5. CASE Poll \/ UNCHANGED vars
  <2>1. UNCHANGED vars
    BY <1>5 DEF Poll
  <2>2. UNCHANGED <<file, beyond, pos, frame, stream, out, result>>
    BY <2>1 DEF vars
  <2>3. FileType' /\ ReadIsExact'
    BY <2>2, FileStays, ExactStays DEF IInv
  <2>4. FrameInv => FrameInv'
    BY <2>2 DEF FrameInv, IsWhole
  <2>5. ASSUME StreamInv
        PROVE  StreamInv'
    <3>1. PICK z \in Int, d \in 0 .. SectPerCluster : StreamAt(z, d)
      BY <2>5 DEF StreamInv
    <3>2. StreamAt(z, d)'
      BY <2>2, <3>1 DEF StreamAt, ToRead, fat16_cluster_to_sector
    <3> QED
      BY <3>2 DEF StreamInv
  <2> QED
    BY <2>2, <2>3, <2>4, <2>5 DEF IInv
<1> QED
  BY <1>1, <1>2, <1>3, <1>4, <1>5 DEF Next, Step

-----------------------------------------------------------------------------
(* The theorems *)

(* The invariant holds for every size of sector, cluster and file, and for *)
(* every way the file lies on the disk.                                    *)
THEOREM Fat16Inductive ==
    ASSUME FewClusters
    PROVE  Spec => []IInv
<1>1. Init => IInv
  BY InitIInv
<1>2. IInv /\ [Next]_vars => IInv'
  BY NextIInv
<1> QED
  BY <1>1, <1>2, PTL DEF Spec

(* fat16_read() puts the bytes of the file into the buffer, and no others, *)
(* in their order.                                                         *)
THEOREM ReadsAreExact ==
    ASSUME FewClusters
    PROVE  Spec => []ReadIsExact
<1>1. IInv => ReadIsExact
  BY DEF IInv
<1> QED
  BY <1>1, Fat16Inductive, PTL

(* fat16_read_internal_stream() and disk_stream_read() together recurse no *)
(* deeper than the file has clusters and a cluster sectors.                *)
THEOREM StackStaysBounded ==
    ASSUME FewClusters
    PROVE  Spec => []StackIsBounded
<1>1. ASSUME IInv, InFile
      PROVE  frame.level + stream.depth <= Len(file.chain) + SectPerCluster + 1
  <2>1. FrameInv
    BY <1>1 DEF IInv, InFile
  <2>2. PICK m \in Nat : frame.offset = m * ClusterSize /\ frame.level =< m + 1
    BY <2>1 DEF FrameInv
  <2>3. m < Len(file.chain) /\ Len(file.chain) \in Nat
    BY <1>1, <2>2, LevelInChain DEF IInv, InFile, FileType
  <2>4. frame.level \in Nat
    BY <2>1 DEF FrameInv, Frame
  <2>5. stream.depth \in 0 .. SectPerCluster + 1
    <3>1. CASE stream = NoStream
      BY <3>1, SizesArePositive DEF NoStream
    <3>2. CASE stream # NoStream
      <4>1. PICK z \in Int, d \in 0 .. SectPerCluster : StreamAt(z, d)
        BY <1>1, <3>2 DEF IInv, StreamInv
      <4>2. stream.depth = d + 1
        BY <4>1 DEF StreamAt
      <4> QED
        BY <4>2, SizesArePositive
    <3> QED
      BY <3>1, <3>2
  <2> QED
    BY <2>2, <2>3, <2>4, <2>5, SizesArePositive
<1>2. IInv => StackIsBounded
  BY <1>1 DEF StackIsBounded
<1> QED
  BY <1>2, Fat16Inductive, PTL

(* fat16_get_cluster_offset() takes no cluster of the file for an error.   *)
THEOREM NoErrorInFile ==
    ASSUME FewClusters
    PROVE  Spec => NoSpuriousError
<1>1. ASSUME IInv, fat16_read_internal_stream, frame.offset < file.size
      PROVE  result' # EIO
  <2>1. FrameInv
    BY <1>1 DEF IInv, fat16_read_internal_stream
  <2>2. PICK m \in Nat : frame.offset = m * ClusterSize /\ frame.level =< m + 1
    BY <2>1 DEF FrameInv
  <2>3. m < Len(file.chain) /\ frame.offset \div ClusterSize = m /\ Len(file.chain) \in Nat
    BY <1>1, <2>2, LevelInChain DEF IInv, FileType
  <2>4. fat16_get_cluster_offset(frame.offset) = file.chain[m + 1]
    BY <1>1, <2>3, WalkFindsCluster DEF IInv
  <2>5. m + 1 \in 1 .. Len(file.chain)
    BY <2>3
  <2>6. file.chain[m + 1] \in Cluster
    BY <1>1, <2>5 DEF IInv, FileType
  <2>7. file.chain[m + 1] # EIO
    BY <2>6 DEF Cluster, EIO
  <2>8. result' = result /\ result = 0
    BY <1>1, <2>1, <2>4, <2>7 DEF fat16_read_internal_stream, FrameInv
  <2> QED
    BY <2>8 DEF EIO
<1>2. IInv /\ [Next]_vars =>
        [fat16_read_internal_stream /\ frame.offset < file.size => result' # EIO]_vars
  BY <1>1
<1> QED
  BY <1>2, Fat16Inductive, PTL DEF Spec, NoSpuriousError

(* Inside the file, disk_read_sector() waits for ever only for the sector  *)
(* after the last of the drive, when the last byte before it has been      *)
(* read.                                                                   *)
THEOREM WaitsOnlyAtEnd ==
    ASSUME FewClusters, WholeDataArea
    PROVE  Spec => []WaitsOnlyBehindDrive
<1>1. ASSUME IInv, Polling, InFile
      PROVE  out # <<>> /\ Last(out) = DiskSectors * SectorSize - 1
  <2>1. FrameInv /\ stream # NoStream
    BY <1>1 DEF IInv, InFile, Polling
  <2>2. PICK z \in Int, d \in 0 .. SectPerCluster : StreamAt(z, d)
    BY <1>1, <2>1 DEF IInv, StreamInv
  <2>3. PICK m \in Nat : frame.offset = m * ClusterSize /\ frame.level =< m + 1
    BY <2>1 DEF FrameInv
  <2>4. m < Len(file.chain) /\ frame.offset \div ClusterSize = m /\ Len(file.chain) \in Nat
    BY <1>1, <2>3, LevelInChain DEF IInv, InFile, FileType
  <2>5. file.chain[m + 1] \in Cluster
    <3>1. m + 1 \in 1 .. Len(file.chain)
      BY <2>4
    <3> QED
      BY <1>1, <3>1 DEF IInv, FileType
  <2>6. z = fat16_cluster_to_sector(file.chain[m + 1])
    BY <1>1, <2>2, <2>4 DEF StreamAt, InFile
  <2>7. z + SectPerCluster =< DiskSectors
    <3>1. PICK c \in Cluster : c = file.chain[m + 1]
      BY <2>5
    <3>2. c - 1 \in Int /\ LastCluster - 1 \in Int /\ c - 1 =< LastCluster - 1
      BY Fat16Assumption DEF Cluster
    <3>3. (c - 1) * SectPerCluster =< (LastCluster - 1) * SectPerCluster
      BY <3>2, SizesArePositive
    <3>4. (c - 1) * SectPerCluster = (c - 2) * SectPerCluster + SectPerCluster
      BY SizesArePositive DEF Cluster
    <3>5. (c - 2) * SectPerCluster \in Int /\ (LastCluster - 1) * SectPerCluster \in Int
      BY <3>2, SizesArePositive DEF Cluster
    <3>6. z = SectorEnd + (c - 2) * SectPerCluster
      BY <2>6, <3>1 DEF fat16_cluster_to_sector
    <3> QED
      BY <3>3, <3>4, <3>5, <3>6, Fat16Assumption, DiskAssumption, SizesArePositive DEF WholeDataArea
  <2>8. d \in Nat
    BY SizesArePositive
  <2>9. ~(z + d < DiskSectors)
    BY <1>1, <2>1, <2>2, <2>8, StreamFacts DEF Polling
  <2>10. z + d = DiskSectors /\ d > 0
    BY <2>7, <2>9, SizesArePositive, DiskAssumption
  <2>11. out[Len(out)] = DiskSectors * SectorSize - 1
    BY <2>2, <2>10 DEF StreamAt
  <2>12. Len(out) > 0
    <3>1. Len(out) = frame.offset - pos + d * SectorSize /\ frame.offset >= pos
      BY <2>1, <2>2 DEF StreamAt, FrameInv
    <3>2. d * SectorSize > 0 /\ d * SectorSize \in Nat
      BY <2>8, <2>10, SizesArePositive
    <3>3. frame.offset \in Nat /\ pos \in Nat
      BY <1>1, <2>1 DEF IInv, FrameInv, Frame
    <3> QED
      BY <3>1, <3>2, <3>3
  <2> QED
    BY <2>11, <2>12 DEF Last
<1>2. IInv => WaitsOnlyBehindDrive
  BY <1>1 DEF WaitsOnlyBehindDrive
<1> QED
  BY <1>2, Fat16Inductive, PTL
=============================================================================
