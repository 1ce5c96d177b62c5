--------------------------- MODULE ProcMemProofs ---------------------------
(***************************************************************************)
(* Proofs about ProcMem and Elf, for any number of processes, heaps of     *)
(* every length, and all programs a linker makes.                          *)
(***************************************************************************)
EXTENDS ProcMem, FiniteSetTheorems, WellFoundedInduction, TLAPS

-----------------------------------------------------------------------------
(* Numbers and loops *)

(* Every set of numbers that is not empty has a least one. *)
LEMMA LeastNumber ==
    ASSUME NEW S \in SUBSET Nat, S # {}
    PROVE  \E x \in S : \A y \in S : x =< y
<1>1. PICK x \in S : \A y \in S : ~(<<y, x>> \in OpToRel(<, Nat))
  BY NatLessThanWellFounded, WFMin
<1>2. \A y \in S : ~(y < x)
  BY <1>1, Zenon DEF OpToRel
<1> QED
  BY <1>2

LEMMA MinIsMember ==
    ASSUME NEW S \in SUBSET Nat, S # {}
    PROVE  Min(S) \in S /\ \A y \in S : Min(S) =< y
  BY LeastNumber DEF Min

(* A bounded set has a greatest number. *)
LEMMA MaxIsGreatest ==
    ASSUME NEW S \in SUBSET Nat, S # {}, NEW b \in Nat, \A x \in S : x =< b
    PROVE  Max(S) \in S /\ \A y \in S : y =< Max(S)
<1> DEFINE U == {u \in Nat : \A x \in S : x =< u}
<1>1. PICK u \in U : \A y \in U : u =< y
  BY LeastNumber
<1>2. u \in S
  <2>1. SUFFICES ASSUME u \notin S
                 PROVE  FALSE
    OBVIOUS
  <2>2. PICK x \in S : TRUE
    OBVIOUS
  <2>3. u \in Nat /\ u # 0
    BY <1>1, <2>1, <2>2
  <2>4. u - 1 \in U
    BY <1>1, <2>1, <2>3
  <2> QED
    BY <1>1, <2>3, <2>4
<1>3. \A y \in S : u >= y
  BY <1>1
<1> QED
  BY <1>2, <1>3 DEF Max

(* A finite set of numbers is bounded. *)
LEMMA FiniteIsBounded ==
    ASSUME NEW S \in SUBSET Nat, IsFiniteSet(S)
    PROVE  \E b \in Nat : \A x \in S : x =< b
<1>1. PICK n \in Nat : ExistsSurjection(1 .. n, S)
  BY FS_NatSurjection
<1>2. PICK f \in [1 .. n -> S] : \A x \in S : \E i \in 1 .. n : f[i] = x
  BY <1>1 DEF ExistsSurjection, Surjection
<1> DEFINE Bounded(m) == \E b \in Nat : \A i \in 1 .. m : f[i] =< b
           B == {m \in 0 .. n : ~Bounded(m)}
<1>3. ASSUME B # {}
      PROVE  FALSE
  <2>1. B \in SUBSET Nat
    OBVIOUS
  <2>2. PICK m \in B : \A y \in B : m =< y
    BY <1>3, <2>1, LeastNumber
  <2>3. m \in 0 .. n /\ ~Bounded(m)
    BY <2>2
  <2>4. m # 0
    <3>1. Bounded(0)
      OBVIOUS
    <3> QED
      BY <2>3, <3>1
  <2> HIDE DEF Bounded
  <2>5. m \in 1 .. n /\ m - 1 \in 0 .. n /\ ~(m =< m - 1) /\ m - 1 \notin B
    <3>1. m \in 1 .. n /\ m - 1 \in 0 .. n /\ ~(m =< m - 1)
      BY <2>3, <2>4
    <3> QED
      BY <2>2, <3>1
  <2> USE DEF Bounded
  <2>6. PICK b \in Nat : \A i \in 1 .. (m - 1) : f[i] =< b
    BY <2>5
  <2>7. f[m] \in Nat
    BY <1>2, <2>5
  <2> DEFINE c == IF f[m] =< b THEN b ELSE f[m]
  <2>8. c \in Nat /\ b =< c /\ f[m] =< c
    BY <2>7
  <2> HIDE DEF c
  <2>9. \A i \in 1 .. m : f[i] =< c
    <3>1. SUFFICES ASSUME NEW i \in 1 .. m
                   PROVE  f[i] =< c
      OBVIOUS
    <3>2. f[i] \in Nat
      <4>1. i \in 1 .. n
        BY <2>5
      <4> QED
        BY <1>2, <4>1
    <3>3. CASE i = m
      BY <2>8, <3>3
    <3>4. CASE i # m
      <4>1. i \in 1 .. (m - 1)
        BY <2>5, <3>4
      <4> QED
        BY <2>6, <2>8, <3>2, <4>1
    <3> QED
      BY <3>3, <3>4
  <2> QED
    BY <2>3, <2>8, <2>9
<1>4. Bounded(n)
  <2> HIDE DEF Bounded
  <2>1. n \in 0 .. n
    OBVIOUS
  <2> QED
    BY <1>3, <2>1
<1> QED
  BY <1>2, <1>4

(* h are the states of a loop over 1 .. n from a on; step i is g[i]. *)
Steps(S, a, g, n, h) ==
    /\ h \in [0 .. n -> S]
    /\ h[0] = a
    /\ \A i \in 1 .. n : h[i] = g[i][h[i - 1]]

(* A loop whose steps stay in a set has such states. *)
LEMMA StepsExist ==
    ASSUME NEW S, NEW a \in S, NEW n \in Nat, NEW g \in [1 .. n -> [S -> S]]
    PROVE  \E h : Steps(S, a, g, n, h)
<1> DEFINE M == {m \in 0 .. n : ~(\E h : Steps(S, a, g, m, h))}
<1> SUFFICES ASSUME M # {}
             PROVE  FALSE
  <2>1. n \in 0 .. n
    OBVIOUS
  <2> QED
    BY <2>1
<1>1. PICK m \in M : \A y \in M : m =< y
  <2>1. M \in SUBSET Nat
    OBVIOUS
  <2> QED
    BY <2>1, LeastNumber
<1>2. m \in 0 .. n /\ ~(\E h : Steps(S, a, g, m, h))
  BY <1>1
<1>3. CASE m = 0
  <2>1. Steps(S, a, g, 0, [i \in 0 .. 0 |-> a])
    BY DEF Steps
  <2> QED
    BY <1>2, <1>3, <2>1
<1>4. CASE m # 0
  <2>1. m \in 1 .. n /\ m - 1 \in 0 .. n /\ m - 1 \notin M
    BY <1>1, <1>2, <1>4
  <2>2. PICK h : Steps(S, a, g, m - 1, h)
    BY <2>1
  <2> DEFINE k == [i \in 0 .. m |-> IF i = m THEN g[m][h[m - 1]] ELSE h[i]]
  <2>3. /\ k[m] = g[m][h[m - 1]]
        /\ \A i \in 0 .. (m - 1) : k[i] = h[i] /\ h[i] \in S
    BY <1>2, <2>1, <2>2 DEF Steps
  <2>4. k \in [0 .. m -> S]
    <3>1. g[m] \in [S -> S] /\ h[m - 1] \in S
      <4>1. m - 1 \in 0 .. (m - 1)
        BY <2>1
      <4> QED
        BY <2>1, <2>3, <4>1
    <3>2. ASSUME NEW i \in 0 .. m
          PROVE  (IF i = m THEN g[m][h[m - 1]] ELSE h[i]) \in S
      <4>1. i # m => i \in 0 .. (m - 1)
        BY <2>1
      <4> QED
        BY <2>3, <3>1, <4>1
    <3> QED
      BY <3>2
  <2> HIDE DEF k
  <2>5. k[0] = a
    BY <1>2, <2>1, <2>2, <2>3 DEF Steps
  <2>6. ASSUME NEW i \in 1 .. m
        PROVE  k[i] = g[i][k[i - 1]]
    <3>1. k[i - 1] = h[i - 1]
      BY <1>2, <2>3
    <3>2. CASE i = m
      BY <2>3, <3>1, <3>2
    <3>3. CASE i # m
      <4>1. i \in 1 .. (m - 1) /\ i \in 0 .. (m - 1)
        BY <1>2, <3>3
      <4> QED
        BY <2>2, <2>3, <3>1, <4>1 DEF Steps
    <3> QED
      BY <3>2, <3>3
  <2>7. Steps(S, a, g, m, k)
    BY <2>4, <2>5, <2>6 DEF Steps
  <2> QED
    BY <1>2, <2>7
<1> QED
  BY <1>3, <1>4

-----------------------------------------------------------------------------
(* The heap *)

Block == 0 .. (Length - 1)

Sizes == ImageSizes \cup Requests \cup {1, StackSize, ProcSize}

(* The sizes of allocations: none is empty, and none reaches past Top. *)
LEMMA SizesFit ==
    /\ Sizes \in SUBSET (Nat \ {0})
    /\ Length \in Nat \ {0} /\ Top \in Nat /\ Top >= Length
    /\ \A z \in Sizes : Length + z =< Top
    /\ StackSize \in Sizes /\ ProcSize \in Sizes /\ 1 \in Sizes
<1> DEFINE S == ImageSizes \cup Requests \cup {StackSize, ProcSize}
<1>1. ImageSizes \in SUBSET (Nat \ {0}) /\ \A z \in ImageSizes : z =< Span
  <2>1. SUFFICES ASSUME NEW g \in Programs
                 PROVE  Pages(g.size) \in Nat \ {0} /\ Pages(g.size) =< Span
    BY DEF ImageSizes
  <2>2. g.size \in Nat \ {0} /\ Pages(g.size) =< Span
    BY ProgramsAssumption DEF IsProgram
  <2>3. PageSize \in Nat \ {0}
    BY ElfAssumption
  <2>4. paging_align_address(g.size) \in Nat /\ paging_align_address(g.size) >= PageSize
    BY <2>2, <2>3 DEF paging_align_address
  <2>5. Pages(g.size) \in Nat \ {0}
    BY <2>3, <2>4 DEF Pages
  <2> QED
    BY <2>2, <2>5
<1>2. PICK r \in Nat : \A z \in Requests : z =< r
  BY FiniteIsBounded, ProcMemAssumption
<1>3. S \in SUBSET (Nat \ {0}) /\ S # {}
  BY <1>1, ProcMemAssumption
<1> DEFINE b == Span + r + StackSize + ProcSize
<1>4. b \in Nat /\ \A z \in S : z =< b
  BY <1>1, <1>2, ProcMemAssumption
<1> HIDE DEF b
<1>5. Max(S) \in S /\ \A z \in S : z =< Max(S)
  <2>1. S \in SUBSET Nat
    BY <1>3
  <2> HIDE DEF S
  <2> QED
    BY <1>3, <1>4, <2>1, MaxIsGreatest
<1>6. Top = Length + Max(S)
  BY DEF Top
<1>7. Max(S) \in Nat \ {0}
  BY <1>3, <1>5
<1>8. Sizes = S \cup {1}
  BY DEF Sizes
<1>9. StackSize \in S /\ ProcSize \in S
  OBVIOUS
<1> HIDE DEF S
<1> QED
  BY <1>3, <1>5, <1>6, <1>7, <1>8, <1>9, ProcMemAssumption

(* Allocations of the heap, which do not overlap. *)
Allocation == [start : Block, size : Sizes]

Blocks(a) == Run(a.start, a.size)

IsHeap(heap) ==
    /\ heap \in SUBSET Allocation
    /\ \A a, b \in heap : a # b => Blocks(a) \cap Blocks(b) = {}

(* An allocation begins in the heap and ends below Top. *)
LEMMA AllocationFits ==
    ASSUME NEW a \in Allocation
    PROVE  /\ a.start \in Block /\ a.size \in Nat \ {0} /\ a.start \in Blocks(a)
           /\ a.start + a.size =< Top /\ Blocks(a) \in SUBSET Frame
           /\ a = [start |-> a.start, size |-> a.size]
<1>1. a.start \in Block /\ a.size \in Sizes
  BY DEF Allocation
<1>2. a.size \in Nat \ {0} /\ Length + a.size =< Top /\ Length \in Nat /\ Top \in Nat
  BY <1>1, SizesFit
<1>3. a = [start |-> a.start, size |-> a.size]
  BY DEF Allocation
<1> QED
  BY <1>1, <1>2, <1>3 DEF Blocks, Run, Block, Frame

(* Allocations that begin at the same block are the same. *)
LEMMA StartsDiffer ==
    ASSUME NEW heap, IsHeap(heap), NEW a \in heap, NEW b \in heap, a.start = b.start
    PROVE  a = b
<1>1. a.start \in Blocks(a) /\ b.start \in Blocks(b)
  BY AllocationFits DEF IsHeap
<1> QED
  BY <1>1 DEF IsHeap

(* kzalloc() returns NULL or the start of a free run, which does not       *)
(* overlap any allocation, even where it goes on past the heap's end.      *)
LEMMA AllocIsFree ==
    ASSUME NEW heap, IsHeap(heap), NEW n \in Sizes, kzalloc(heap, n) # NULL
    PROVE  /\ kzalloc(heap, n) \in Block
           /\ \A a \in heap : Blocks(a) \cap Run(kzalloc(heap, n), n) = {}
           /\ IsHeap(With(heap, kzalloc(heap, n), n))
<1> DEFINE s == kzalloc(heap, n)
           tbl == Table(heap)
<1>0. n \in Nat \ {0} /\ Length \in Nat \ {0}
  BY SizesFit
<1>1. s = H!heap_get_start_block(tbl, n) /\ ~(s < 0)
  BY DEF kzalloc
<1>m. \A S : H!Min(S) = Min(S)
  BY DEF H!Min, Min
<1>2. s \in Block /\ \A i \in Run(s, n) \cap Block : H!IsFree(tbl, i)
  <2>1. CASE H!Fits(tbl, n) # {}
    <3>1. H!Fits(tbl, n) \in SUBSET Nat
      BY <1>0 DEF H!Fits, H!Block
    <3>2. s \in H!Fits(tbl, n)
      BY <1>1, <1>m, <2>1, <3>1, MinIsMember DEF H!heap_get_start_block
    <3> QED
      BY <3>2 DEF H!Fits, H!Block, Block, Run
  <2>2. CASE H!Fits(tbl, n) = {} /\ H!Trailing(tbl) # {}
    <3>1. H!Trailing(tbl) \in SUBSET Nat
      BY <1>0 DEF H!Trailing, H!Block
    <3>2. s \in H!Trailing(tbl)
      BY <1>1, <1>m, <2>2, <3>1, MinIsMember DEF H!heap_get_start_block
    <3> QED
      BY <1>0, <3>2 DEF H!Trailing, H!Block, Block, Run
  <2>3. CASE H!Fits(tbl, n) = {} /\ H!Trailing(tbl) = {}
    BY <1>1, <2>3 DEF H!heap_get_start_block, H!ENOMEM
  <2> QED
    BY <2>1, <2>2, <2>3
<1> HIDE DEF s
<1>3. \A i \in Run(s, n) \cap Block : \A a \in heap : i \notin Blocks(a)
  <2>1. ASSUME NEW i \in Block, NEW a \in heap, i \in Blocks(a)
        PROVE  ~H!IsFree(tbl, i)
    BY <2>1 DEF Table, H!IsFree, Blocks, Block
  <2> QED
    BY <1>2, <2>1
<1>4. ASSUME NEW a \in heap
      PROVE  Blocks(a) \cap Run(s, n) = {}
  <2>1. a.start \in Block /\ a.size \in Nat \ {0}
    BY AllocationFits DEF IsHeap
  <2>2. ASSUME NEW i \in Blocks(a) \cap Run(s, n)
        PROVE  FALSE
    <3>1. CASE i \in Block
      BY <1>3, <2>2, <3>1
    <3>2. CASE i \notin Block
      <4>1. Length - 1 \in Blocks(a) /\ Length - 1 \in Run(s, n) /\ Length - 1 \in Block
        BY <1>0, <1>2, <2>1, <2>2, <3>2 DEF Blocks, Run, Block
      <4> QED
        BY <1>3, <4>1
    <3> QED
      BY <3>1, <3>2
  <2> QED
    BY <2>2
<1>5. IsHeap(With(heap, s, n))
  <2> DEFINE c == [start |-> s, size |-> n]
  <2>1. c \in Allocation /\ Blocks(c) = Run(s, n)
    BY <1>2 DEF Allocation, Blocks
  <2>2. With(heap, s, n) = heap \cup {c}
    BY DEF With, Alloc
  <2> HIDE DEF c
  <2> QED
    BY <1>4, <2>1, <2>2 DEF IsHeap
<1> QED
  BY <1>2, <1>4, <1>5 DEF s

-----------------------------------------------------------------------------
(* One process *)

Directory == [VPage -> [frame : VPage, flags : {{}, ReadOnly, ReadWrite}]]
Slots == [AllocIndex -> [ptr : Block \cup {NULL}, size : Requests \cup {0, 1}]]
Memory == [image : Block, program : Programs, stack : Block, page_dir : Block]
States == [heap : SUBSET Allocation, slots : Slots, dir : Directory, ptr : Int]

Slot(a) == [start |-> a.ptr, size |-> a.size]
Used(slots) == {i \in AllocIndex : slots[i].ptr # NULL}
InSlots(slots) == {Slot(slots[i]) : i \in Used(slots)}

Image(m) == [start |-> m.image, size |-> Pages(m.program.size)]
StackOf(m) == [start |-> m.stack, size |-> StackSize]
Tables(m) == [start |-> m.page_dir, size |-> 1]
Fixed(m) == {Image(m), StackOf(m), Tables(m)}

(* An empty slot is cleared, and no two slots hold the same pointer. *)
SlotsInv(slots) ==
    /\ \A i \in AllocIndex : slots[i].ptr = NULL => slots[i] = NoAlloc
    /\ \A i, j \in Used(slots) : slots[i].ptr = slots[j].ptr => i = j

(* The heap's pages are mapped to themselves, those of the slots and no    *)
(* others writeable, and the page tables stay present; the pages of        *)
(* program and stack are as they were mapped when the process was loaded.  *)
DirInv(m, slots, d) ==
    /\ \A v \in Frame :
          /\ d[v].frame = v
          /\ d[v].flags = ReadWrite <=> \E a \in InSlots(slots) : v \in Blocks(a)
    /\ d[m.page_dir].flags # {}
    /\ \A v \in VPage \ Frame : d[v] = process_map_memory(m.program, m.image, m.stack)[v]

(* The state an operation of a process works on; other is what the heap    *)
(* holds for everyone else.                                                *)
Good(s, m, other) ==
    /\ s \in States
    /\ IsHeap(s.heap)
    /\ s.heap = other \cup Fixed(m) \cup InSlots(s.slots)
    /\ other \cap Fixed(m) = {} /\ other \cap InSlots(s.slots) = {}
    /\ Fixed(m) \cap InSlots(s.slots) = {}
    /\ SlotsInv(s.slots)
    /\ DirInv(m, s.slots, s.dir)

(* The pages of the heap are below those of programs and stacks. *)
LEMMA PagesAreOrdered ==
    /\ Top \in Nat /\ Length \in Nat \ {0} /\ Top >= Length
    /\ Block \in SUBSET Frame /\ Frame \in SUBSET VPage /\ NULL \notin Frame
    /\ \A v \in VPage : v \in Int
    /\ StackPage \in Nat /\ StackPage >= Top
<1>1. Span \in Nat /\ StackSize \in Nat \ {0}
  BY ProcMemAssumption
<1>2. Top \in Nat /\ Length \in Nat \ {0} /\ Top >= Length
  BY SizesFit
<1> QED
  BY <1>1, <1>2 DEF Block, Frame, VPage, StackPage, ProgramPage, NULL

(* Mapping the pages of an allocation to themselves. *)
LEMMA MapItself ==
    ASSUME NEW d \in Directory, NEW a \in Allocation, NEW flags \in {{}, ReadOnly, ReadWrite}
    PROVE  LET e == paging_map_range(d, a.start, a.start, a.size, flags)
           IN  /\ e \in Directory
               /\ \A v \in Blocks(a) : e[v] = [frame |-> v, flags |-> flags]
               /\ \A v \in VPage \ Blocks(a) : e[v] = d[v]
<1> DEFINE e == paging_map_range(d, a.start, a.start, a.size, flags)
<1>1. DOMAIN d = VPage /\ \A v \in VPage : d[v] \in [frame : VPage, flags : {{}, ReadOnly, ReadWrite}]
  BY DEF Directory
<1>2. Blocks(a) \in SUBSET VPage /\ Blocks(a) = Run(a.start, a.size) /\ a.start \in Int
  BY AllocationFits, PagesAreOrdered DEF Blocks, Block
<1>3. e = [v \in VPage |-> IF v \in Blocks(a) THEN [frame |-> a.start + (v - a.start), flags |-> flags]
                                              ELSE d[v]]
  BY <1>1, <1>2 DEF paging_map_range
<1>4. \A v \in VPage : a.start + (v - a.start) = v
  BY <1>2, PagesAreOrdered
<1> HIDE DEF e
<1>5. \A v \in VPage : e[v] = IF v \in Blocks(a) THEN [frame |-> v, flags |-> flags] ELSE d[v]
  BY <1>3, <1>4
<1>6. e \in Directory
  <2>1. \A v \in VPage : (IF v \in Blocks(a) THEN [frame |-> a.start + (v - a.start), flags |-> flags]
                                              ELSE d[v]) \in [frame : VPage, flags : {{}, ReadOnly, ReadWrite}]
    BY <1>1, <1>4
  <2> QED
    BY <1>3, <2>1 DEF Directory
<1> QED
  BY <1>2, <1>5, <1>6 DEF e

LEMMA FlagsDiffer == ReadWrite # {} /\ ReadOnly # {} /\ ReadWrite # ReadOnly
  BY DEF ReadWrite, ReadOnly

(* Requests, and what arguments take, are sizes of allocations. *)
LEMMA RequestsAreSizes == Requests \cup {1} \in SUBSET Sizes
  BY DEF Sizes

(* The slots of a good state are allocations of its heap. *)
LEMMA SlotsAreLive ==
    ASSUME NEW s, NEW m, NEW other, Good(s, m, other), NEW i \in Used(s.slots)
    PROVE  /\ Slot(s.slots[i]) \in InSlots(s.slots) /\ Slot(s.slots[i]) \in s.heap
           /\ Slot(s.slots[i]) \in Allocation
           /\ Slot(s.slots[i]).start = s.slots[i].ptr /\ Slot(s.slots[i]).size = s.slots[i].size
           /\ s.slots[i].ptr \in Block
<1>1. Slot(s.slots[i]) \in InSlots(s.slots)
  BY DEF InSlots
<1>2. Slot(s.slots[i]) \in s.heap /\ s.heap \in SUBSET Allocation
  BY <1>1 DEF Good, IsHeap
<1>3. Slot(s.slots[i]).start = s.slots[i].ptr /\ Slot(s.slots[i]).size = s.slots[i].size
  BY DEF Slot
<1> QED
  BY <1>1, <1>2, <1>3 DEF Allocation

(* The page tables are an allocation of the heap. *)
LEMMA TablesAreLive ==
    ASSUME NEW s, NEW m, NEW other, Good(s, m, other)
    PROVE  /\ Tables(m) \in s.heap /\ Tables(m) \in Allocation
           /\ m.page_dir \in Block /\ m.page_dir \in Blocks(Tables(m))
<1>1. Tables(m) \in s.heap /\ Tables(m) \in Allocation
  BY DEF Good, IsHeap, Fixed
<1>2. Tables(m).start = m.page_dir
  BY DEF Tables
<1> QED
  BY <1>1, <1>2, AllocationFits

(* process_malloc() keeps a state good, whether it finds memory or not. *)
LEMMA MallocGood ==
    ASSUME NEW s, NEW m, NEW other, Good(s, m, other), NEW n \in Requests \cup {1}
    PROVE  Good(process_malloc(s, n), m, other)
<1> DEFINE ptr == kzalloc(s.heap, n)
           idx == {i \in AllocIndex : s.slots[i].ptr = NULL}
           t == process_malloc(s, n)
<1>0. /\ s \in States /\ IsHeap(s.heap) /\ s.slots \in Slots /\ s.dir \in Directory
      /\ s.heap \in SUBSET Allocation /\ n \in Sizes
  BY RequestsAreSizes DEF Good, States
<1>1. CASE ptr = NULL \/ idx = {}
  <2>1. t = [s EXCEPT !.ptr = NULL]
    BY <1>1 DEF process_malloc
  <2>2. t.heap = s.heap /\ t.slots = s.slots /\ t.dir = s.dir /\ t \in States
    BY <1>0, <2>1 DEF States, NULL
  <2> HIDE DEF t
  <2> QED
    BY <2>2 DEF Good, t
<1>2. CASE ptr # NULL /\ idx # {}
  <2> DEFINE k == Min(idx)
             c == [start |-> ptr, size |-> n]
             slots == [s.slots EXCEPT ![k] = [ptr |-> ptr, size |-> n]]
             d == paging_map_range(s.dir, ptr, ptr, n, ReadWrite)
  <2>1. t = State(With(s.heap, ptr, n), slots, d, ptr)
    BY <1>2 DEF process_malloc
  <2>2. ptr \in Block /\ IsHeap(With(s.heap, ptr, n)) /\ \A a \in s.heap : Blocks(a) \cap Run(ptr, n) = {}
    BY <1>0, <1>2, AllocIsFree
  <2>3. k \in AllocIndex /\ s.slots[k].ptr = NULL
    <3>1. idx \in SUBSET Nat
      BY ProcMemAssumption DEF AllocIndex
    <3>2. k \in idx
      BY <1>2, <3>1, MinIsMember
    <3> QED
      BY <3>2
  <2>4. With(s.heap, ptr, n) = s.heap \cup {c}
    BY DEF With, Alloc
  <2>5. c \in Allocation /\ Blocks(c) = Run(ptr, n) /\ c.start = ptr /\ c.size = n
    BY <1>0, <2>2 DEF Allocation, Blocks
  <2>6. ptr \in Int /\ ptr # NULL
    BY <1>2, <2>2, PagesAreOrdered DEF Block
  <2>7. /\ t.heap = s.heap \cup {c} /\ t.slots = slots /\ t.dir = d /\ t.ptr = ptr
        /\ t = [heap |-> s.heap \cup {c}, slots |-> slots, dir |-> d, ptr |-> ptr]
    BY <2>1, <2>4 DEF State
  <2> HIDE DEF ptr, t, k, idx
  <2>8. /\ slots \in Slots
        /\ slots[k].ptr = ptr /\ Slot(slots[k]) = c
        /\ \A i \in AllocIndex \ {k} : slots[i] = s.slots[i]
    BY <1>0, <2>2, <2>3 DEF Slots, Slot
  <2> HIDE DEF slots
  <2>9. Used(slots) = Used(s.slots) \cup {k} /\ k \notin Used(s.slots)
    BY <2>3, <2>6, <2>8 DEF Used
  <2>10. InSlots(slots) = InSlots(s.slots) \cup {c}
    <3>1. \A i \in Used(s.slots) : slots[i] = s.slots[i]
      BY <2>8, <2>9 DEF Used
    <3> QED
      BY <2>8, <2>9, <3>1 DEF InSlots
  <2>11. c \notin s.heap
    <3>1. c.start \in Blocks(c)
      BY <2>5, AllocationFits
    <3> QED
      BY <2>2, <2>5, <3>1
  <2>12. ASSUME NEW a \in s.heap
         PROVE  a.start # ptr
    <3>1. a.start \in Blocks(a) /\ c.start \in Blocks(c)
      BY <1>0, <2>5, AllocationFits
    <3> QED
      BY <2>2, <2>5, <3>1
  <2>13. /\ d \in Directory
         /\ \A v \in Blocks(c) : d[v] = [frame |-> v, flags |-> ReadWrite]
         /\ \A v \in VPage \ Blocks(c) : d[v] = s.dir[v]
    <3>1. ReadWrite \in {{}, ReadOnly, ReadWrite}
      OBVIOUS
    <3>2. d = paging_map_range(s.dir, c.start, c.start, c.size, ReadWrite)
      BY <2>5
    <3> QED
      BY <1>0, <2>5, <3>1, <3>2, MapItself
  <2> HIDE DEF d, c
  <2>14. t \in States
    BY <1>0, <2>5, <2>6, <2>7, <2>8, <2>13 DEF States
  <2>15. SlotsInv(slots)
    <3>1. \A i \in AllocIndex : slots[i].ptr = NULL => slots[i] = NoAlloc
      BY <2>6, <2>8 DEF Good, SlotsInv
    <3>2. \A i \in Used(s.slots) : slots[i].ptr # ptr /\ slots[i] = s.slots[i]
      <4>1. SUFFICES ASSUME NEW i \in Used(s.slots)
                     PROVE  slots[i].ptr # ptr /\ slots[i] = s.slots[i]
        OBVIOUS
      <4>2. Slot(s.slots[i]) \in s.heap /\ Slot(s.slots[i]).start = s.slots[i].ptr
        BY SlotsAreLive
      <4>3. slots[i] = s.slots[i]
        BY <2>8, <2>9 DEF Used
      <4> QED
        BY <2>12, <4>2, <4>3
    <3>3. \A i, j \in Used(slots) : slots[i].ptr = slots[j].ptr => i = j
      BY <2>8, <2>9, <3>2 DEF Good, SlotsInv
    <3> QED
      BY <3>1, <3>3 DEF SlotsInv
  <2>16. DirInv(m, slots, d)
    <3>1. Blocks(c) \in SUBSET Frame /\ Frame \in SUBSET VPage /\ Block \in SUBSET Frame
      BY <2>5, AllocationFits, PagesAreOrdered
    <3>2. ASSUME NEW v \in Frame
          PROVE  /\ d[v].frame = v
                 /\ d[v].flags = ReadWrite <=> \E a \in InSlots(slots) : v \in Blocks(a)
      <4>1. CASE v \in Blocks(c)
        <5>1. d[v] = [frame |-> v, flags |-> ReadWrite]
          BY <2>13, <4>1
        <5>2. d[v].frame = v /\ d[v].flags = ReadWrite
          BY <5>1
        <5>3. c \in InSlots(slots)
          BY <2>10
        <5> QED
          BY <4>1, <5>2, <5>3
      <4>2. CASE v \notin Blocks(c)
        <5>1. d[v] = s.dir[v]
          BY <2>13, <3>1, <4>2
        <5>2. (\E a \in InSlots(slots) : v \in Blocks(a)) <=> \E a \in InSlots(s.slots) : v \in Blocks(a)
          BY <2>10, <4>2
        <5> QED
          BY <5>1, <5>2 DEF Good, DirInv
      <4> QED
        BY <4>1, <4>2
    <3>3. d[m.page_dir].flags # {}
      <4>1. m.page_dir \in VPage
        BY <3>1, TablesAreLive
      <4>2. CASE m.page_dir \in Blocks(c)
        <5>1. d[m.page_dir] = [frame |-> m.page_dir, flags |-> ReadWrite]
          BY <2>13, <4>2
        <5> QED
          BY <5>1, FlagsDiffer
      <4>3. CASE m.page_dir \notin Blocks(c)
        <5>1. d[m.page_dir] = s.dir[m.page_dir]
          BY <2>13, <4>1, <4>3
        <5> QED
          BY <5>1 DEF Good, DirInv
      <4> QED
        BY <4>2, <4>3
    <3>4. \A v \in VPage \ Frame : d[v] = process_map_memory(m.program, m.image, m.stack)[v]
      BY <2>13, <3>1 DEF Good, DirInv
    <3> QED
      BY <3>2, <3>3, <3>4 DEF DirInv
  <2>17. /\ s.heap \cup {c} = other \cup Fixed(m) \cup InSlots(slots)
         /\ other \cap Fixed(m) = {} /\ other \cap InSlots(slots) = {}
         /\ Fixed(m) \cap InSlots(slots) = {}
    <3>1. s.heap = other \cup Fixed(m) \cup InSlots(s.slots)
      BY DEF Good
    <3> QED
      BY <2>10, <2>11, <3>1 DEF Good
  <2>18. IsHeap(s.heap \cup {c})
    BY <2>2, <2>4 DEF c
  <2> QED
    BY <2>7, <2>14, <2>15, <2>16, <2>17, <2>18 DEF Good, t
<1> QED
  BY <1>1, <1>2

(* process_free() keeps a state good, whatever it is given, and clears the *)
(* slots that hold the pointer.                                            *)
LEMMA FreeGood ==
    ASSUME NEW s, NEW m, NEW other, Good(s, m, other), NEW ptr
    PROVE  /\ Good(process_free(s, ptr), m, other)
           /\ \A i \in AllocIndex :
                 s.slots[i].ptr = ptr \/ s.slots[i] = NoAlloc => process_free(s, ptr).slots[i] = NoAlloc
<1> DEFINE own == {i \in AllocIndex : s.slots[i].ptr = ptr}
           t == process_free(s, ptr)
           slots == [i \in AllocIndex |-> IF i \in own THEN NoAlloc ELSE s.slots[i]]
           d == paging_map_range(s.dir, ptr, ptr, s.slots[Min(own)].size, {})
<1>0. /\ s \in States /\ IsHeap(s.heap) /\ s.slots \in Slots /\ s.dir \in Directory
      /\ s.heap \in SUBSET Allocation /\ SlotsInv(s.slots)
  BY DEF Good, States
<1>1. CASE own = {}
  <2>1. t = s
    BY <1>1 DEF process_free
  <2>2. \A i \in AllocIndex : s.slots[i].ptr # ptr
    BY <1>1
  <2> QED
    BY <2>1, <2>2
<1>2. CASE own # {}
  <2>1. t = [heap |-> kfree(s.heap, ptr), slots |-> slots, dir |-> d, ptr |-> NULL]
    BY <1>2 DEF process_free, State
  <2>2. t.heap = kfree(s.heap, ptr) /\ t.slots = slots /\ t.dir = d
    BY <2>1
  <2>3. Min(own) \in AllocIndex /\ s.slots[Min(own)].ptr = ptr
    <3>1. own \in SUBSET Nat
      BY ProcMemAssumption DEF AllocIndex
    <3>2. Min(own) \in own
      BY <1>2, <3>1, MinIsMember
    <3> QED
      BY <3>2
  <2>4. slots \in Slots /\ NULL \in Int
    BY <1>0 DEF Slots, NoAlloc, NULL
  <2>5. \A i \in AllocIndex : s.slots[i].ptr = ptr \/ s.slots[i] = NoAlloc => slots[i] = NoAlloc
    OBVIOUS
  <2>6. \A i \in AllocIndex : slots[i] = IF s.slots[i].ptr = ptr THEN NoAlloc ELSE s.slots[i]
    OBVIOUS
  <2> HIDE DEF slots, t
  <2>7. NoAlloc.ptr = NULL /\ NoAlloc.size = 0
    BY DEF NoAlloc
  <2>8. SlotsInv(slots)
    <3>1. \A i \in AllocIndex : slots[i].ptr = NULL => slots[i] = NoAlloc
      BY <1>0, <2>6 DEF SlotsInv
    <3>2. \A i \in Used(slots) : i \in Used(s.slots) /\ slots[i] = s.slots[i]
      BY <2>6, <2>7 DEF Used
    <3> QED
      BY <1>0, <3>1, <3>2 DEF SlotsInv
  <2>9. CASE ptr = NULL
    <3>1. kfree(s.heap, ptr) = s.heap
      <4>1. ASSUME NEW a \in s.heap
            PROVE  a.start # ptr
        BY <1>0, <2>9, AllocationFits, PagesAreOrdered
      <4> QED
        BY <4>1 DEF kfree
    <3>2. slots = s.slots
      <4>1. \A i \in AllocIndex : slots[i] = s.slots[i]
        BY <1>0, <2>6, <2>9 DEF SlotsInv
      <4> QED
        BY <1>0, <2>4, <4>1 DEF Slots
    <3>3. d = s.dir
      <4>1. s.slots[Min(own)].size = 0
        BY <1>0, <2>3, <2>7, <2>9 DEF SlotsInv
      <4> HIDE DEF own
      <4>2. Run(ptr, s.slots[Min(own)].size) = {}
        BY <2>9, <4>1 DEF Run, NULL
      <4>3. d = [v \in VPage |-> s.dir[v]]
        BY <1>0, <4>2 DEF paging_map_range, Directory
      <4> QED
        BY <1>0, <4>3 DEF Directory
    <3>4. t \in States
      BY <1>0, <2>1, <2>4, <3>1, <3>2, <3>3 DEF States
    <3> HIDE DEF d, own
    <3> QED
      BY <2>2, <2>5, <3>1, <3>2, <3>3, <3>4 DEF Good, t
  <2>10. CASE ptr # NULL
    <3> DEFINE k == Min(own)
               c == Slot(s.slots[k])
    <3>1. k \in Used(s.slots)
      BY <2>3, <2>10 DEF Used
    <3>2. c \in InSlots(s.slots) /\ c \in s.heap /\ c \in Allocation /\ c.start = ptr /\ c.size = s.slots[k].size
      BY <2>3, <3>1, SlotsAreLive
    <3>3. \A i \in AllocIndex : s.slots[i].ptr = ptr <=> i = k
      BY <1>0, <2>3, <3>1 DEF SlotsInv, Used
    <3>4. d = paging_map_range(s.dir, c.start, c.start, c.size, {})
      BY <3>2
    <3> HIDE DEF d, k, own
    <3>5. kfree(s.heap, ptr) = s.heap \ {c}
      <4>1. \A a \in s.heap : a.start = ptr => a = c
        BY <1>0, <3>2, StartsDiffer
      <4> HIDE DEF c
      <4> QED
        BY <3>2, <4>1 DEF kfree
    <3>6. Used(slots) = Used(s.slots) \ {k} /\ \A i \in Used(slots) : slots[i] = s.slots[i]
      BY <2>6, <2>7, <3>1, <3>3 DEF Used
    <3>7. InSlots(slots) = InSlots(s.slots) \ {c}
      <4>1. ASSUME NEW i \in Used(s.slots), i # k
            PROVE  Slot(s.slots[i]) # c
        <5>1. Slot(s.slots[i]).start = s.slots[i].ptr
          BY <4>1, SlotsAreLive
        <5> QED
          BY <3>2, <3>3, <4>1, <5>1 DEF Used
      <4> QED
        BY <3>6, <4>1 DEF InSlots
    <3> HIDE DEF c
    <3>8. /\ d \in Directory
          /\ \A v \in Blocks(c) : d[v] = [frame |-> v, flags |-> {}]
          /\ \A v \in VPage \ Blocks(c) : d[v] = s.dir[v]
      <4>1. {} \in {{}, ReadOnly, ReadWrite}
        OBVIOUS
      <4> QED
        BY <1>0, <3>2, <3>4, <4>1, MapItself
    <3>9. t \in States
      <4>1. kfree(s.heap, ptr) \in SUBSET Allocation
        BY <1>0, <3>5
      <4> QED
        BY <2>1, <2>4, <3>8, <4>1 DEF States
    <3>10. IsHeap(s.heap \ {c})
      BY <1>0 DEF IsHeap
    <3>11. DirInv(m, slots, d)
      <4>1. Blocks(c) \in SUBSET Frame /\ Frame \in SUBSET VPage /\ Block \in SUBSET Frame
        BY <3>2, AllocationFits, PagesAreOrdered
      <4>2. ASSUME NEW v \in Frame
            PROVE  /\ d[v].frame = v
                   /\ d[v].flags = ReadWrite <=> \E a \in InSlots(slots) : v \in Blocks(a)
        <5>1. CASE v \in Blocks(c)
          <6>1. d[v] = [frame |-> v, flags |-> {}]
            BY <3>8, <5>1
          <6>2. d[v].frame = v /\ d[v].flags # ReadWrite
            BY <6>1, FlagsDiffer
          <6>3. ASSUME NEW a \in InSlots(slots)
                PROVE  v \notin Blocks(a)
            <7>1. a \in s.heap /\ a # c
              BY <3>7, <6>3 DEF Good
            <7> QED
              BY <1>0, <3>2, <5>1, <7>1 DEF IsHeap
          <6> QED
            BY <6>2, <6>3
        <5>2. CASE v \notin Blocks(c)
          <6>1. d[v] = s.dir[v]
            BY <3>8, <4>1, <5>2
          <6>2. (\E a \in InSlots(slots) : v \in Blocks(a)) <=> \E a \in InSlots(s.slots) : v \in Blocks(a)
            BY <3>7, <5>2
          <6> QED
            BY <6>1, <6>2 DEF Good, DirInv
        <5> QED
          BY <5>1, <5>2
      <4>3. d[m.page_dir].flags # {}
        <5>1. m.page_dir \in VPage /\ m.page_dir \in Blocks(Tables(m)) /\ Tables(m) \in s.heap
          BY <4>1, TablesAreLive
        <5>2. Tables(m) # c
          BY <3>2 DEF Good, Fixed
        <5>3. m.page_dir \notin Blocks(c)
          BY <1>0, <3>2, <5>1, <5>2 DEF IsHeap
        <5>4. d[m.page_dir] = s.dir[m.page_dir]
          BY <3>8, <5>1, <5>3
        <5> QED
          BY <5>4 DEF Good, DirInv
      <4>4. \A v \in VPage \ Frame : d[v] = process_map_memory(m.program, m.image, m.stack)[v]
        BY <3>8, <4>1 DEF Good, DirInv
      <4> QED
        BY <4>2, <4>3, <4>4 DEF DirInv
    <3>12. /\ s.heap \ {c} = other \cup Fixed(m) \cup InSlots(slots)
           /\ other \cap Fixed(m) = {} /\ other \cap InSlots(slots) = {}
           /\ Fixed(m) \cap InSlots(slots) = {}
      <4>1. s.heap = other \cup Fixed(m) \cup InSlots(s.slots)
        BY DEF Good
      <4> QED
        BY <3>2, <3>7, <4>1 DEF Good
    <3> QED
      BY <2>2, <2>5, <2>8, <3>5, <3>9, <3>10, <3>11, <3>12 DEF Good, t
  <2> QED
    BY <2>9, <2>10
<1> QED
  BY <1>1, <1>2

(* The state after one more argument. *)
InjectStep(s) == IF s.ptr = NULL THEN s ELSE process_malloc(s, 1)

(* process_inject_args() keeps a state good, wherever it fails. *)
LEMMA InjectGood ==
    ASSUME NEW s, NEW m, NEW other, Good(s, m, other), NEW argc \in Nat
    PROVE  Good(process_inject_args(s, argc), m, other)
<1> DEFINE S == {u \in States : Good(u, m, other)}
           a == process_malloc(s, 1)
           g == [i \in 1 .. argc |-> [u \in S |-> InjectStep(u)]]
           w == CHOOSE f : f = [i \in 0 .. argc |->
                    IF i = 0 THEN process_malloc(s, 1)
                    ELSE IF f[i - 1].ptr = NULL THEN f[i - 1]
                    ELSE process_malloc(f[i - 1], 1)]
<1>1. \A u : Good(u, m, other) => u \in S
  BY DEF Good
<1>2. ASSUME NEW u \in S
      PROVE  InjectStep(u) \in S
  BY <1>1, <1>2, MallocGood DEF InjectStep
<1>3. a \in S
  BY <1>1, MallocGood
<1> HIDE DEF S
<1>4. g \in [1 .. argc -> [S -> S]]
  BY <1>2
<1>5. PICK h : Steps(S, a, g, argc, h)
  <2> HIDE DEF a, g
  <2> QED
    BY <1>3, <1>4, StepsExist
<1>6. h = [i \in 0 .. argc |->
             IF i = 0 THEN process_malloc(s, 1)
             ELSE IF h[i - 1].ptr = NULL THEN h[i - 1]
             ELSE process_malloc(h[i - 1], 1)]
  <2>1. h \in [0 .. argc -> S] /\ h[0] = process_malloc(s, 1)
    BY <1>5 DEF Steps
  <2>2. ASSUME NEW i \in 1 .. argc
        PROVE  h[i] = InjectStep(h[i - 1])
    <3>1. h[i - 1] \in S
      <4>1. i - 1 \in 0 .. argc
        OBVIOUS
      <4> QED
        BY <2>1, <4>1
    <3>2. h[i] = g[i][h[i - 1]]
      BY <1>5 DEF Steps
    <3> QED
      BY <3>1, <3>2
  <2>3. ASSUME NEW i \in 0 .. argc
        PROVE  h[i] = IF i = 0 THEN process_malloc(s, 1)
                      ELSE IF h[i - 1].ptr = NULL THEN h[i - 1]
                      ELSE process_malloc(h[i - 1], 1)
    <3>1. CASE i = 0
      BY <2>1, <3>1
    <3>2. CASE i # 0
      <4>1. i \in 1 .. argc
        BY <3>2
      <4> QED
        BY <2>2, <3>2, <4>1 DEF InjectStep
    <3> QED
      BY <3>1, <3>2
  <2> QED
    BY <2>1, <2>3
<1>7. w = [i \in 0 .. argc |->
             IF i = 0 THEN process_malloc(s, 1)
             ELSE IF w[i - 1].ptr = NULL THEN w[i - 1]
             ELSE process_malloc(w[i - 1], 1)]
  BY <1>6
<1>8. process_inject_args(s, argc) = w[argc]
  BY DEF process_inject_args
<1> HIDE DEF w
<1>9. w[0] = a /\ \A i \in 1 .. argc : w[i] = InjectStep(w[i - 1])
  <2>1. w[0] = process_malloc(s, 1)
    <3>1. 0 \in 0 .. argc
      OBVIOUS
    <3> QED
      BY <1>7, <3>1
  <2>2. ASSUME NEW i \in 1 .. argc
        PROVE  w[i] = InjectStep(w[i - 1])
    <3>1. i \in 0 .. argc /\ i # 0
      OBVIOUS
    <3> QED
      BY <1>7, <3>1 DEF InjectStep
  <2> QED
    BY <2>1, <2>2
<1> DEFINE B == {i \in 0 .. argc : w[i] \notin S}
<1>10. ASSUME B # {}
       PROVE  FALSE
  <2>1. B \in SUBSET Nat
    OBVIOUS
  <2>2. PICK i \in B : \A y \in B : i =< y
    BY <1>10, <2>1, LeastNumber
  <2>3. i \in 0 .. argc /\ w[i] \notin S
    BY <2>2
  <2>4. i # 0
    BY <1>3, <1>9, <2>3
  <2>5. i \in 1 .. argc /\ i - 1 \in 0 .. argc /\ ~(i =< i - 1)
    BY <2>3, <2>4
  <2>6. w[i - 1] \in S
    BY <2>2, <2>5
  <2> QED
    BY <1>2, <1>9, <2>3, <2>5, <2>6
<1>11. w[argc] \in S
  <2>1. argc \in 0 .. argc
    OBVIOUS
  <2> QED
    BY <1>10, <2>1
<1> QED
  BY <1>8, <1>11 DEF S

FreeStep(s, i) == process_free(s, s.slots[i].ptr)

(* process_free_allocations() keeps a state good, and empties all slots. *)
LEMMA FreeAllGood ==
    ASSUME NEW s, NEW m, NEW other, Good(s, m, other)
    PROVE  /\ Good(process_free_allocations(s), m, other)
           /\ \A i \in AllocIndex : process_free_allocations(s).slots[i] = NoAlloc
<1> DEFINE S == {u \in States : Good(u, m, other)}
           g == [i \in 1 .. MaxAllocs |-> [u \in S |-> FreeStep(u, i)]]
           w == CHOOSE f : f = [i \in 0 .. MaxAllocs |->
                    IF i = 0 THEN s ELSE process_free(f[i - 1], f[i - 1].slots[i].ptr)]
<1>0. MaxAllocs \in Nat
  BY ProcMemAssumption
<1>1. \A u : Good(u, m, other) => u \in S
  BY DEF Good
<1>2. ASSUME NEW u \in S, NEW i \in 1 .. MaxAllocs
      PROVE  FreeStep(u, i) \in S
  BY <1>1, <1>2, FreeGood DEF FreeStep
<1>3. s \in S
  BY <1>1
<1>4. ASSUME NEW u \in S, NEW i \in AllocIndex, NEW j \in AllocIndex, i = j \/ u.slots[j] = NoAlloc
      PROVE  FreeStep(u, i).slots[j] = NoAlloc
  BY <1>4, FreeGood DEF FreeStep
<1> HIDE DEF S
<1>5. g \in [1 .. MaxAllocs -> [S -> S]]
  BY <1>2
<1>6. PICK h : Steps(S, s, g, MaxAllocs, h)
  <2> HIDE DEF g
  <2> QED
    BY <1>0, <1>3, <1>5, StepsExist
<1>7. h = [i \in 0 .. MaxAllocs |->
             IF i = 0 THEN s ELSE process_free(h[i - 1], h[i - 1].slots[i].ptr)]
  <2>1. h \in [0 .. MaxAllocs -> S] /\ h[0] = s
    BY <1>6 DEF Steps
  <2>2. ASSUME NEW i \in 1 .. MaxAllocs
        PROVE  h[i] = FreeStep(h[i - 1], i)
    <3>1. h[i - 1] \in S
      <4>1. i - 1 \in 0 .. MaxAllocs
        BY <1>0
      <4> QED
        BY <2>1, <4>1
    <3>2. h[i] = g[i][h[i - 1]]
      BY <1>6 DEF Steps
    <3> QED
      BY <3>1, <3>2
  <2>3. ASSUME NEW i \in 0 .. MaxAllocs
        PROVE  h[i] = IF i = 0 THEN s ELSE process_free(h[i - 1], h[i - 1].slots[i].ptr)
    <3>1. CASE i = 0
      BY <2>1, <3>1
    <3>2. CASE i # 0
      <4>1. i \in 1 .. MaxAllocs
        BY <1>0, <3>2
      <4> QED
        BY <2>2, <3>2, <4>1 DEF FreeStep
    <3> QED
      BY <3>1, <3>2
  <2> QED
    BY <2>1, <2>3
<1>8. w = [i \in 0 .. MaxAllocs |->
             IF i = 0 THEN s ELSE process_free(w[i - 1], w[i - 1].slots[i].ptr)]
  BY <1>7
<1>9. process_free_allocations(s) = w[MaxAllocs]
  BY DEF process_free_allocations
<1> HIDE DEF w
<1>10. w[0] = s /\ \A i \in 1 .. MaxAllocs : w[i] = FreeStep(w[i - 1], i)
  <2>1. w[0] = s
    <3>1. 0 \in 0 .. MaxAllocs
      BY <1>0
    <3> QED
      BY <1>8, <3>1
  <2>2. ASSUME NEW i \in 1 .. MaxAllocs
        PROVE  w[i] = FreeStep(w[i - 1], i)
    <3>1. i \in 0 .. MaxAllocs /\ i # 0
      BY <1>0
    <3> QED
      BY <1>8, <3>1 DEF FreeStep
  <2> QED
    BY <2>1, <2>2
<1> DEFINE Cleared(i) == w[i] \in S /\ \A j \in 1 .. i : w[i].slots[j] = NoAlloc
           B == {i \in 0 .. MaxAllocs : ~Cleared(i)}
<1>11. Cleared(0)
  BY <1>3, <1>10
<1>12. ASSUME NEW i \in 1 .. MaxAllocs, Cleared(i - 1)
       PROVE  Cleared(i)
  <2>1. w[i] = FreeStep(w[i - 1], i) /\ w[i] \in S
    BY <1>2, <1>10, <1>12
  <2>2. ASSUME NEW j \in 1 .. i
        PROVE  w[i].slots[j] = NoAlloc
    <3>1. i \in AllocIndex /\ j \in AllocIndex /\ (i = j \/ j \in 1 .. (i - 1))
      BY <1>0 DEF AllocIndex
    <3>2. i = j \/ w[i - 1].slots[j] = NoAlloc
      BY <1>12, <3>1
    <3> QED
      BY <1>4, <1>12, <2>1, <3>1, <3>2
  <2> QED
    BY <2>1, <2>2
<1> HIDE DEF Cleared
<1>13. ASSUME B # {}
       PROVE  FALSE
  <2>1. B \in SUBSET Nat
    BY <1>0
  <2>2. PICK i \in B : \A y \in B : i =< y
    BY <1>13, <2>1, LeastNumber
  <2>3. i \in 0 .. MaxAllocs /\ ~Cleared(i)
    BY <2>2
  <2>4. i # 0
    BY <1>11, <2>3
  <2>5. i \in 1 .. MaxAllocs /\ i - 1 \in 0 .. MaxAllocs /\ ~(i =< i - 1)
    BY <1>0, <2>3, <2>4
  <2>6. Cleared(i - 1)
    BY <2>2, <2>5
  <2> QED
    BY <1>12, <2>3, <2>5, <2>6
<1>14. Cleared(MaxAllocs)
  <2>1. MaxAllocs \in 0 .. MaxAllocs
    BY <1>0
  <2> QED
    BY <1>13, <2>1
<1> QED
  BY <1>9, <1>14 DEF S, Cleared, AllocIndex

-----------------------------------------------------------------------------
(* Addresses *)

(* Whole pages added to an address. *)
LEMMA Shifted ==
    ASSUME NEW c \in Nat \ {0}, NEW m \in Int, NEW x \in Int
    PROVE  (m * c + x) \div c = m + (x \div c) /\ (m * c + x) % c = x % c
<1>1. PICK q \in Int, r \in 0 .. (c - 1) : x = q * c + r /\ q = x \div c /\ r = x % c
  <2>1. x \div c \in Int /\ x % c \in 0 .. (c - 1) /\ x = (x \div c) * c + (x % c)
    OBVIOUS
  <2> QED
    BY <2>1
<1>2. m * c + x = (m + q) * c + r /\ m + q \in Int
  BY <1>1
<1>3. ((m + q) * c + r) \div c = m + q /\ ((m + q) * c + r) % c = r
  <2>0. m + q \in Int
    OBVIOUS
  <2>1. PICK y \in Int : y = m + q
    BY <2>0
  <2>2. (y * c + r) \div c = y /\ (y * c + r) % c = r
    OBVIOUS
  <2> QED
    BY <2>1, <2>2
<1> QED
  BY <1>1, <1>2, <1>3

(* The parts of an address, and its alignments. *)
LEMMA Aligned ==
    ASSUME NEW x \in Nat
    PROVE  /\ x \div PageSize \in Nat /\ x % PageSize \in 0 .. (PageSize - 1)
           /\ x = (x \div PageSize) * PageSize + (x % PageSize)
           /\ paging_align_to_lower(x) = (x \div PageSize) * PageSize
           /\ Pages(x) \in Nat
           /\ paging_align_address(x) = Pages(x) * PageSize
           /\ (x - 1) \div PageSize = Pages(x) - 1
           /\ x \div PageSize =< Pages(x)
<1>0. PageSize \in Nat \ {0}
  BY ElfAssumption
<1>1. PICK q \in Nat, r \in 0 .. (PageSize - 1) :
        x = q * PageSize + r /\ q = x \div PageSize /\ r = x % PageSize
  <2>1. /\ x \div PageSize \in Nat /\ x % PageSize \in 0 .. (PageSize - 1)
        /\ x = (x \div PageSize) * PageSize + (x % PageSize)
    BY <1>0
  <2> QED
    BY <2>1
<1>2. q * PageSize \in Nat
  BY <1>0
<1>3. paging_align_to_lower(x) = q * PageSize
  BY <1>1, <1>2 DEF paging_align_to_lower
<1> DEFINE k == IF r = 0 THEN q ELSE q + 1
<1>4. k \in Nat /\ q =< k
  OBVIOUS
<1>5. paging_align_address(x) = k * PageSize
  <2>1. (q + 1) * PageSize = q * PageSize + PageSize
    BY <1>0
  <2>2. CASE r = 0
    <3>1. x % PageSize = 0 /\ x = q * PageSize + 0 /\ k = q
      BY <1>1, <2>2, Zenon
    <3>2. q * PageSize + 0 = q * PageSize
      BY <1>2
    <3> QED
      BY <3>1, <3>2, Zenon DEF paging_align_address
  <2>3. CASE r # 0
    <3>1. paging_align_address(x) = x + PageSize - r
      BY <1>1, <2>3 DEF paging_align_address
    <3> QED
      BY <1>0, <1>1, <1>2, <2>1, <2>3, <3>1
  <2> QED
    BY <2>2, <2>3
<1>6. Pages(x) = k
  <2>1. (k * PageSize + 0) \div PageSize = k + (0 \div PageSize) /\ 0 \div PageSize = 0
    BY <1>0, <1>4, Shifted
  <2>2. k * PageSize + 0 = k * PageSize
    BY <1>0, <1>4
  <2> HIDE DEF k
  <2> QED
    BY <1>4, <1>5, <2>1, <2>2 DEF Pages
<1>7. (x - 1) \div PageSize = k - 1
  <2>1. CASE r = 0
    <3>1. x - 1 = (q - 1) * PageSize + (PageSize - 1)
      <4>1. (q - 1) * PageSize = q * PageSize - PageSize
        BY <1>0
      <4> QED
        BY <1>0, <1>1, <1>2, <2>1, <4>1
    <3>2. ((q - 1) * PageSize + (PageSize - 1)) \div PageSize = (q - 1) + ((PageSize - 1) \div PageSize)
      BY <1>0, Shifted
    <3>3. (PageSize - 1) \div PageSize = 0
      BY <1>0
    <3> QED
      BY <2>1, <3>1, <3>2, <3>3
  <2>2. CASE r # 0
    <3>1. x - 1 = q * PageSize + (r - 1)
      BY <1>0, <1>1, <1>2, <2>2
    <3>2. (q * PageSize + (r - 1)) \div PageSize = q + ((r - 1) \div PageSize)
      BY <1>0, Shifted
    <3>3. (r - 1) \div PageSize = 0
      BY <1>0, <2>2
    <3> QED
      BY <2>2, <3>1, <3>2, <3>3
  <2> QED
    BY <2>1, <2>2
<1> HIDE DEF k
<1> QED
  BY <1>1, <1>3, <1>4, <1>5, <1>6, <1>7

(* A smaller file has no more pages. *)
LEMMA PagesGrow ==
    ASSUME NEW x \in Nat, NEW y \in Nat, x =< y
    PROVE  Pages(x) =< Pages(y)
<1>0. PageSize \in Nat \ {0}
  BY ElfAssumption
<1>1. (x - 1) \div PageSize =< (y - 1) \div PageSize
  BY <1>0
<1>2. /\ (x - 1) \div PageSize = Pages(x) - 1 /\ (y - 1) \div PageSize = Pages(y) - 1
      /\ Pages(x) \in Nat /\ Pages(y) \in Nat
  BY Aligned
<1> QED
  BY <1>1, <1>2

(* A multiple of the page size, divided. *)
LEMMA WholePages ==
    ASSUME NEW m \in Int
    PROVE  (m * PageSize) \div PageSize = m
  BY ElfAssumption

(* e is d with a range of pages mapped anew. *)
IsMapped(e, d, virt, phys, n, flags) ==
    /\ e \in Directory
    /\ \A v \in VPage :
          e[v] = IF v \in Run(virt, n) THEN [frame |-> phys + (v - virt), flags |-> flags] ELSE d[v]

(* Mapping a range of pages to frames of the heap. *)
LEMMA MapRange ==
    ASSUME NEW d \in Directory, NEW virt \in Int, NEW phys \in Nat, NEW n \in Nat, phys + n =< Top,
           NEW flags \in {{}, ReadOnly, ReadWrite}
    PROVE  IsMapped(paging_map_range(d, virt, phys, n, flags), d, virt, phys, n, flags)
<1> DEFINE Entry(v) == IF v \in Run(virt, n) THEN [frame |-> phys + (v - virt), flags |-> flags] ELSE d[v]
<1>1. DOMAIN d = VPage /\ \A v \in VPage : d[v] \in [frame : VPage, flags : {{}, ReadOnly, ReadWrite}]
  BY DEF Directory
<1>2. paging_map_range(d, virt, phys, n, flags) = [v \in VPage |-> Entry(v)]
  BY <1>1 DEF paging_map_range
<1>3. ASSUME NEW v \in VPage
      PROVE  Entry(v) \in [frame : VPage, flags : {{}, ReadOnly, ReadWrite}]
  <2>1. CASE v \in Run(virt, n)
    <3>1. phys + (v - virt) \in Frame
      BY <2>1, PagesAreOrdered DEF Run, Frame
    <3> QED
      BY <2>1, <3>1, PagesAreOrdered
  <2>2. CASE v \notin Run(virt, n)
    BY <1>1, <2>2
  <2> QED
    BY <2>1, <2>2
<1> HIDE DEF Entry
<1>4. [v \in VPage |-> Entry(v)] \in Directory
  BY <1>3 DEF Directory
<1> QED
  BY <1>2, <1>4 DEF Entry, IsMapped

HeaderPages(phdr) == Pages(phdr.p_offset + phdr.p_memsz) - (phdr.p_offset \div PageSize)
HeaderFlags(phdr) == IF phdr.p_flags = "W" THEN ReadWrite ELSE ReadOnly

(* A header maps the pages of its segment to those of the file. *)
LEMMA HeaderMaps ==
    ASSUME NEW d, NEW phdr \in ProgramHeader, NEW image \in Nat
    PROVE  /\ HeaderPages(phdr) \in Nat
           /\ MapHeader(d, phdr, image * PageSize) =
                 paging_map_range(d, phdr.p_vaddr \div PageSize, image + (phdr.p_offset \div PageSize),
                                  HeaderPages(phdr), HeaderFlags(phdr))
<1> DEFINE phys == image * PageSize + phdr.p_offset
           end == phys + phdr.p_memsz
           b == phdr.p_offset \div PageSize
           P == Pages(phdr.p_offset + phdr.p_memsz)
<1>0. /\ PageSize \in Nat \ {0} /\ phdr.p_offset \in Nat /\ phdr.p_memsz \in Nat /\ phdr.p_vaddr \in Nat
      /\ phdr.p_offset + phdr.p_memsz \in Nat /\ image * PageSize \in Nat
  BY ElfAssumption DEF ProgramHeader
<1>1. phys \in Nat /\ end \in Nat
  BY <1>0
<1>2. b \in Nat /\ P \in Nat
  BY <1>0, Aligned
<1>3. phys \div PageSize = image + b
  BY <1>0, Shifted
<1>4. Pages(end) = image + P
  <2>1. (end - 1) \div PageSize = Pages(end) - 1 /\ Pages(end) \in Nat
    BY <1>1, Aligned
  <2>2. PICK y \in Nat : y = phdr.p_offset + phdr.p_memsz
    BY <1>0
  <2>3. (y - 1) \div PageSize = Pages(y) - 1 /\ Pages(y) = P
    BY <2>2, Aligned
  <2>4. end - 1 = image * PageSize + (y - 1)
    BY <1>0, <2>2
  <2>5. (image * PageSize + (y - 1)) \div PageSize = image + ((y - 1) \div PageSize)
    <3>1. y - 1 \in Int /\ image \in Int
      OBVIOUS
    <3> QED
      BY <1>0, <3>1, Shifted, Zenon
  <2> HIDE DEF end, P
  <2> QED
    BY <1>2, <2>1, <2>3, <2>4, <2>5
<1>5. /\ paging_align_to_lower(phys) = (image + b) * PageSize
      /\ paging_align_address(end) = (image + P) * PageSize
      /\ paging_align_to_lower(phdr.p_vaddr) = (phdr.p_vaddr \div PageSize) * PageSize
      /\ phdr.p_vaddr \div PageSize \in Nat
  <2> HIDE DEF phys, end, b, P
  <2> QED
    BY <1>0, <1>1, <1>3, <1>4, Aligned
<1>6. b =< P
  <2>1. Pages(phdr.p_offset) =< P
    BY <1>0, PagesGrow
  <2>2. b =< Pages(phdr.p_offset) /\ Pages(phdr.p_offset) \in Nat
    BY <1>0, Aligned
  <2> HIDE DEF b, P
  <2> QED
    BY <1>2, <2>1, <2>2
<1>7. HeaderPages(phdr) = P - b /\ HeaderPages(phdr) \in Nat
  <2>1. HeaderPages(phdr) = P - b
    BY DEF HeaderPages
  <2> HIDE DEF b, P
  <2> QED
    BY <1>2, <1>6, <2>1
<1>8. MapHeader(d, phdr, image * PageSize) =
        paging_map_to(d, (phdr.p_vaddr \div PageSize) * PageSize, (image + b) * PageSize,
                      (image + P) * PageSize, HeaderFlags(phdr))
  BY <1>5 DEF MapHeader, HeaderFlags
<1> HIDE DEF b, P, phys, end
<1>9. (image + P) * PageSize - (image + b) * PageSize = (P - b) * PageSize
  BY <1>0, <1>2
<1>10. /\ ((phdr.p_vaddr \div PageSize) * PageSize) \div PageSize = phdr.p_vaddr \div PageSize
       /\ ((image + b) * PageSize) \div PageSize = image + b
       /\ ((P - b) * PageSize) \div PageSize = P - b
  <2>1. phdr.p_vaddr \div PageSize \in Int /\ image + b \in Int /\ P - b \in Int
    BY <1>2, <1>5
  <2> QED
    BY <2>1, WholePages, Zenon
<1>11. MapHeader(d, phdr, image * PageSize) =
         paging_map_range(d, phdr.p_vaddr \div PageSize, image + b, P - b, HeaderFlags(phdr))
  BY <1>8, <1>9, <1>10, Zenon DEF paging_map_to
<1> QED
  BY <1>7, <1>11 DEF b

(* The pages of a segment, when address and offset are congruent. *)
LEMMA SegmentPages ==
    ASSUME NEW phdr \in ProgramHeader, phdr.p_vaddr % PageSize = phdr.p_offset % PageSize
    PROVE  /\ PageRange(phdr) = Run(phdr.p_vaddr \div PageSize, HeaderPages(phdr))
           /\ (phdr.p_offset + phdr.p_memsz - 1) \div PageSize
                 = (phdr.p_offset \div PageSize) + HeaderPages(phdr) - 1
<1> DEFINE a == phdr.p_vaddr \div PageSize
           b == phdr.p_offset \div PageSize
           j == phdr.p_offset % PageSize
           x == phdr.p_offset + phdr.p_memsz - 1
           P == Pages(phdr.p_offset + phdr.p_memsz)
<1>0. /\ PageSize \in Nat \ {0} /\ phdr.p_offset \in Nat /\ phdr.p_memsz \in Nat /\ phdr.p_vaddr \in Nat
      /\ phdr.p_offset + phdr.p_memsz \in Nat
  BY ElfAssumption DEF ProgramHeader
<1>1. /\ a \in Nat /\ b \in Nat /\ j \in 0 .. (PageSize - 1) /\ P \in Nat
      /\ phdr.p_vaddr = a * PageSize + j /\ phdr.p_offset = b * PageSize + j
      /\ x \div PageSize = P - 1
  <2>1. /\ a \in Nat /\ phdr.p_vaddr = a * PageSize + (phdr.p_vaddr % PageSize)
        /\ b \in Nat /\ phdr.p_offset = b * PageSize + j /\ j \in 0 .. (PageSize - 1)
    BY <1>0, Aligned, Zenon
  <2>2. PICK y \in Nat : y = phdr.p_offset + phdr.p_memsz
    BY <1>0
  <2>3. (y - 1) \div PageSize = Pages(y) - 1 /\ Pages(y) = P /\ P \in Nat
    BY <2>2, Aligned
  <2>4. x \div PageSize = P - 1
    <3>1. x = y - 1
      BY <1>0, <2>2
    <3> HIDE DEF x, P
    <3> QED
      BY <2>3, <3>1
  <2> HIDE DEF a, b, j, x, P
  <2>5. phdr.p_vaddr % PageSize = j
    BY DEF j
  <2> QED
    BY <2>1, <2>3, <2>4, <2>5
<1>2. x \in Int
  BY <1>0
<1>3. HeaderPages(phdr) = P - b
  BY DEF HeaderPages
<1>4. phdr.p_vaddr + phdr.p_memsz - 1 = (a - b) * PageSize + x
  <2>2. x = phdr.p_offset + phdr.p_memsz - 1
    OBVIOUS
  <2> HIDE DEF a, b, j, x, P
  <2>1. (a - b) * PageSize = a * PageSize - b * PageSize /\ a * PageSize \in Int /\ b * PageSize \in Int
    <3>1. a \in Nat /\ b \in Nat
      BY <1>1
    <3> QED
      BY <1>0, <3>1
  <2>3. PICK A \in Int, B \in Int : A = a * PageSize /\ B = b * PageSize
    BY <2>1
  <2>4. phdr.p_vaddr = A + j /\ phdr.p_offset = B + j /\ (a - b) * PageSize = A - B
    BY <1>1, <2>1, <2>3
  <2> QED
    BY <1>0, <1>1, <2>2, <2>4
<1> HIDE DEF a, b, j, x, P
<1>5. ((a - b) * PageSize + x) \div PageSize = (a - b) + (x \div PageSize)
  <2>1. a - b \in Int
    BY <1>1
  <2> QED
    BY <1>0, <1>2, <2>1, Shifted
<1>6. (phdr.p_vaddr + phdr.p_memsz - 1) \div PageSize = a + (P - b) - 1
  BY <1>1, <1>4, <1>5
<1>7. PageRange(phdr) = Run(a, P - b)
  BY <1>6 DEF PageRange, Run, a
<1>8. (phdr.p_offset + phdr.p_memsz - 1) \div PageSize = b + (P - b) - 1
  <2>1. x \div PageSize = b + (P - b) - 1
    BY <1>1
  <2> QED
    BY <2>1 DEF x
<1> QED
  BY <1>3, <1>7, <1>8 DEF a, b

(* Every program of the model is what a linker makes. *)
LEMMA ProgramFacts ==
    ASSUME NEW g \in Programs
    PROVE  /\ IsProgram(g, ProgramAddr, StackPage * PageSize)
           /\ Pages(g.size) \in Sizes /\ Pages(g.size) =< Span /\ g.size \in Nat \ {0}
           /\ g.phdrs \in Seq(ProgramHeader) /\ DOMAIN g.phdrs = 1 .. Len(g.phdrs)
           /\ Len(g.phdrs) \in Nat
<1>1. IsProgram(g, ProgramAddr, StackPage * PageSize) /\ Pages(g.size) =< Span
  BY ProgramsAssumption
<1>2. Pages(g.size) \in Sizes
  BY DEF Sizes, ImageSizes
<1>3. g.phdrs \in Seq(ProgramHeader)
  BY <1>1 DEF IsProgram
<1>4. g.size \in Nat \ {0}
  BY <1>1 DEF IsProgram
<1>5. DOMAIN g.phdrs = 1 .. Len(g.phdrs) /\ Len(g.phdrs) \in Nat
  BY <1>3
<1> QED
  BY <1>1, <1>2, <1>3, <1>4, <1>5

(* A header of a program, of a segment or not. *)
LEMMA HeaderFacts ==
    ASSUME NEW g \in Programs, NEW image \in Block, NEW i \in 1 .. Len(g.phdrs), NEW d \in Directory
    PROVE  LET phdr == g.phdrs[i]
               e == MapHeader(d, phdr, image * PageSize)
           IN  /\ e \in Directory
               /\ i \notin Segments(g) => e = d
               /\ i \in Segments(g) =>
                     \A v \in VPage :
                       e[v] = IF v \in PageRange(phdr)
                              THEN [frame |-> image + (phdr.p_offset \div PageSize)
                                                + (v - (phdr.p_vaddr \div PageSize)),
                                    flags |-> HeaderFlags(phdr)]
                              ELSE d[v]
<1> DEFINE phdr == g.phdrs[i]
           e == MapHeader(d, phdr, image * PageSize)
           virt == phdr.p_vaddr \div PageSize
           b == phdr.p_offset \div PageSize
           n == HeaderPages(phdr)
<1>0. /\ g.phdrs \in Seq(ProgramHeader) /\ i \in DOMAIN g.phdrs /\ Len(g.phdrs) \in Nat
      /\ g.size \in Nat \ {0} /\ IsProgram(g, ProgramAddr, StackPage * PageSize)
  BY ProgramFacts
<1>1. phdr \in ProgramHeader
  BY <1>0
<1>2. image \in Nat /\ Length \in Nat /\ image =< Length - 1
  BY SizesFit DEF Block
<1>3. /\ phdr.p_offset \in Nat /\ phdr.p_memsz \in Nat /\ phdr.p_vaddr \in Nat
      /\ phdr.p_offset + phdr.p_memsz \in Nat
  BY <1>1 DEF ProgramHeader
<1>4. virt \in Nat /\ b \in Nat /\ Pages(phdr.p_offset + phdr.p_memsz) \in Nat
  BY <1>3, Aligned
<1>5. n \in Nat /\ e = paging_map_range(d, virt, image + b, n, HeaderFlags(phdr))
  BY <1>1, <1>2, HeaderMaps
<1>6. n = Pages(phdr.p_offset + phdr.p_memsz) - b
  BY DEF HeaderPages
<1>7. phdr.p_offset + phdr.p_memsz =< g.size
  <2>1. CASE i \in Segments(g)
    BY <1>0, <2>1 DEF IsProgram
  <2>2. CASE i \notin Segments(g)
    <3>1. phdr.p_memsz = 0 /\ phdr.p_offset = 0
      BY <1>0, <2>2 DEF IsProgram
    <3> QED
      BY <1>0, <3>1
  <2> QED
    BY <2>1, <2>2
<1>8. Pages(phdr.p_offset + phdr.p_memsz) =< Pages(g.size)
  BY <1>0, <1>3, <1>7, PagesGrow
<1>9. Length + Pages(g.size) =< Top /\ Pages(g.size) \in Nat /\ Top \in Nat
  BY ProgramFacts, SizesFit
<1>10. HeaderFlags(phdr) \in {{}, ReadOnly, ReadWrite}
  BY DEF HeaderFlags
<1> HIDE DEF virt, b, n, e
<1>11. (image + b) + n =< Top /\ image + b \in Nat
  BY <1>2, <1>4, <1>5, <1>6, <1>8, <1>9
<1>12. /\ e \in Directory
       /\ \A v \in VPage : e[v] = IF v \in Run(virt, n)
                                  THEN [frame |-> image + b + (v - virt), flags |-> HeaderFlags(phdr)]
                                  ELSE d[v]
  <2> HIDE DEF phdr
  <2>1. PICK phys \in Nat, flags \in {{}, ReadOnly, ReadWrite} :
          phys = image + b /\ flags = HeaderFlags(phdr)
    BY <1>10, <1>11
  <2>2. phys + n =< Top /\ virt \in Int
    BY <1>4, <1>11, <2>1
  <2>3. IsMapped(paging_map_range(d, virt, phys, n, flags), d, virt, phys, n, flags)
    BY <1>5, <2>2, MapRange, Zenon
  <2>4. IsMapped(e, d, virt, image + b, n, HeaderFlags(phdr))
    BY <1>5, <2>1, <2>3, Zenon
  <2> QED
    BY <2>4 DEF IsMapped
<1>13. ASSUME i \notin Segments(g)
       PROVE  e = d
  <2>1. phdr.p_memsz = 0 /\ phdr.p_offset = 0
    BY <1>0, <1>13 DEF IsProgram
  <2>2. Pages(phdr.p_offset + phdr.p_memsz) = 0 /\ b = 0
    <3>1. 0 + 0 = 0
      OBVIOUS
    <3>2. Pages(0) = 0 /\ 0 \div PageSize = 0
      BY ElfAssumption DEF Pages, paging_align_address
    <3> QED
      BY <2>1, <3>1, <3>2 DEF b
  <2>3. n = 0
    BY <1>6, <2>2
  <2>4. Run(virt, n) = {}
    BY <1>4, <2>3 DEF Run
  <2>5. \A v \in VPage : e[v] = d[v]
    BY <1>12, <2>4
  <2> QED
    BY <1>12, <2>5 DEF Directory
<1>14. ASSUME i \in Segments(g)
       PROVE  PageRange(phdr) = Run(virt, n)
  <2>1. phdr.p_vaddr % PageSize = phdr.p_offset % PageSize
    BY <1>0, <1>14 DEF IsProgram
  <2> QED
    BY <1>1, <2>1, SegmentPages DEF virt, n
<1> QED
  BY <1>12, <1>13, <1>14 DEF e, virt, b

-----------------------------------------------------------------------------
(* Program files *)

(* The entry of a page of segment i. *)
Entry(g, image, i, v) ==
    [frame |-> image + (g.phdrs[i].p_offset \div PageSize) + (v - (g.phdrs[i].p_vaddr \div PageSize)),
     flags |-> HeaderFlags(g.phdrs[i])]

(* e is d with the first i headers mapped. *)
MapsUpTo(g, image, d, e, i) ==
    /\ e \in Directory
    /\ \A j \in Segments(g) : j =< i =>
          \A v \in PageRange(g.phdrs[j]) \cap VPage : e[v] = Entry(g, image, j, v)
    /\ \A v \in VPage : (\A j \in Segments(g) : j =< i => v \notin PageRange(g.phdrs[j])) => e[v] = d[v]

(* One more header, whose segment has pages of its own. *)
LEMMA MapsOneMore ==
    ASSUME NEW g \in Programs, NEW image \in Block, NEW d, NEW e, NEW i \in 1 .. Len(g.phdrs),
           MapsUpTo(g, image, d, e, i - 1)
    PROVE  MapsUpTo(g, image, d, MapHeader(e, g.phdrs[i], image * PageSize), i)
<1> DEFINE f == MapHeader(e, g.phdrs[i], image * PageSize)
<1>0. /\ IsProgram(g, ProgramAddr, StackPage * PageSize) /\ Len(g.phdrs) \in Nat
      /\ DOMAIN g.phdrs = 1 .. Len(g.phdrs)
  BY ProgramFacts
<1>1. e \in Directory
  BY DEF MapsUpTo
<1>2. /\ f \in Directory
      /\ i \notin Segments(g) => f = e
      /\ i \in Segments(g) =>
            \A v \in VPage : f[v] = IF v \in PageRange(g.phdrs[i]) THEN Entry(g, image, i, v) ELSE e[v]
  BY <1>1, HeaderFacts DEF Entry
<1> HIDE DEF f
<1>3. \A j \in Segments(g) : j \in Int /\ (j =< i <=> j =< i - 1 \/ j = i)
  BY <1>0 DEF Segments
<1>4. \A j \in Segments(g) \ {i} : i \in Segments(g) => PageRange(g.phdrs[i]) \cap PageRange(g.phdrs[j]) = {}
  BY <1>0 DEF IsProgram
<1>5. ASSUME NEW j \in Segments(g), j =< i, NEW v \in PageRange(g.phdrs[j]) \cap VPage
      PROVE  f[v] = Entry(g, image, j, v)
  <2>1. CASE j = i
    BY <1>2, <1>5, <2>1
  <2>2. CASE j # i
    <3>1. e[v] = Entry(g, image, j, v)
      BY <1>3, <1>5, <2>2 DEF MapsUpTo
    <3>2. i \in Segments(g) => v \notin PageRange(g.phdrs[i])
      BY <1>4, <1>5, <2>2
    <3> QED
      BY <1>2, <1>5, <3>1, <3>2
  <2> QED
    BY <2>1, <2>2
<1>6. ASSUME NEW v \in VPage, \A j \in Segments(g) : j =< i => v \notin PageRange(g.phdrs[j])
      PROVE  f[v] = d[v]
  <2>1. \A j \in Segments(g) : j =< i - 1 => v \notin PageRange(g.phdrs[j])
    BY <1>3, <1>6
  <2>2. i \in Segments(g) => v \notin PageRange(g.phdrs[i])
    BY <1>3, <1>6
  <2>3. e[v] = d[v]
    BY <2>1 DEF MapsUpTo
  <2> QED
    BY <1>2, <2>2, <2>3
<1> QED
  BY <1>2, <1>5, <1>6 DEF MapsUpTo, f

(* process_map_elf() maps every segment of the file. *)
LEMMA ElfMaps ==
    ASSUME NEW g \in Programs, NEW image \in Block, NEW d \in Directory
    PROVE  MapsUpTo(g, image, d, process_map_elf(d, g, image * PageSize), Len(g.phdrs))
<1> DEFINE n == Len(g.phdrs)
           addr == image * PageSize
           s == [i \in 1 .. n |-> [e \in Directory |-> MapHeader(e, g.phdrs[i], addr)]]
           w == CHOOSE f : f = [i \in 0 .. n |-> IF i = 0 THEN d ELSE MapHeader(f[i - 1], g.phdrs[i], addr)]
<1>0. n \in Nat
  BY ProgramFacts
<1>1. ASSUME NEW e \in Directory, NEW i \in 1 .. n
      PROVE  MapHeader(e, g.phdrs[i], addr) \in Directory
  BY HeaderFacts
<1>2. process_map_elf(d, g, image * PageSize) = w[n]
  BY DEF process_map_elf
<1> HIDE DEF addr
<1>3. s \in [1 .. n -> [Directory -> Directory]]
  BY <1>1
<1>4. PICK h : Steps(Directory, d, s, n, h)
  <2> HIDE DEF s, n
  <2> QED
    BY <1>0, <1>3, StepsExist
<1>5. h = [i \in 0 .. n |-> IF i = 0 THEN d ELSE MapHeader(h[i - 1], g.phdrs[i], addr)]
  <2>1. h \in [0 .. n -> Directory] /\ h[0] = d
    BY <1>4 DEF Steps
  <2>2. ASSUME NEW i \in 0 .. n
        PROVE  h[i] = IF i = 0 THEN d ELSE MapHeader(h[i - 1], g.phdrs[i], addr)
    <3>1. CASE i = 0
      BY <2>1, <3>1
    <3>2. CASE i # 0
      <4>1. i \in 1 .. n /\ i - 1 \in 0 .. n
        BY <1>0, <3>2
      <4>2. h[i] = s[i][h[i - 1]]
        BY <1>4, <4>1 DEF Steps
      <4>3. h[i - 1] \in Directory
        BY <2>1, <4>1
      <4> QED
        BY <3>2, <4>1, <4>2, <4>3
    <3> QED
      BY <3>1, <3>2
  <2> QED
    BY <2>1, <2>2
<1>6. w = [i \in 0 .. n |-> IF i = 0 THEN d ELSE MapHeader(w[i - 1], g.phdrs[i], addr)]
  BY <1>5
<1> HIDE DEF w
<1>7. w[0] = d /\ \A i \in 1 .. n : w[i] = MapHeader(w[i - 1], g.phdrs[i], addr)
  <2>1. 0 \in 0 .. n /\ \A i \in 1 .. n : i \in 0 .. n /\ i # 0
    BY <1>0
  <2> QED
    BY <1>6, <2>1
<1> DEFINE B == {i \in 0 .. n : ~MapsUpTo(g, image, d, w[i], i)}
<1>8. MapsUpTo(g, image, d, w[0], 0)
  <2>1. \A j \in Segments(g) : ~(j =< 0)
    BY <1>0, ProgramFacts DEF Segments
  <2> QED
    BY <1>7, <2>1 DEF MapsUpTo
<1>9. ASSUME B # {}
      PROVE  FALSE
  <2>1. B \in SUBSET Nat
    BY <1>0
  <2>2. PICK i \in B : \A y \in B : i =< y
    BY <1>9, <2>1, LeastNumber
  <2>3. i \in 0 .. n /\ ~MapsUpTo(g, image, d, w[i], i)
    BY <2>2
  <2>4. i # 0
    BY <1>8, <2>3
  <2>5. i \in 1 .. n /\ i - 1 \in 0 .. n /\ ~(i =< i - 1)
    BY <1>0, <2>3, <2>4
  <2>6. MapsUpTo(g, image, d, w[i - 1], i - 1)
    BY <2>2, <2>5
  <2>7. MapsUpTo(g, image, d, MapHeader(w[i - 1], g.phdrs[i], addr), i)
    BY <2>5, <2>6, MapsOneMore DEF addr
  <2> QED
    BY <1>7, <2>3, <2>5, <2>7
<1>10. n \in 0 .. n
  BY <1>0
<1>11. MapsUpTo(g, image, d, w[n], n)
  BY <1>9, <1>10
<1> QED
  BY <1>2, <1>11

(* The heap's pages, then the program's, then the stack's. *)
LEMMA PagesOfProgram ==
    /\ ProgramPage = Top /\ Span \in Nat /\ StackPage = Top + Span /\ StackSize \in Nat \ {0}
    /\ VPage = Frame \cup Run(ProgramPage, Span) \cup Run(StackPage, StackSize)
    /\ Frame \cap Run(ProgramPage, Span) = {} /\ Frame \cap Run(StackPage, StackSize) = {}
    /\ Run(ProgramPage, Span) \cap Run(StackPage, StackSize) = {}
<1>1. Span \in Nat /\ StackSize \in Nat \ {0} /\ Top \in Nat
  BY ProcMemAssumption, SizesFit
<1>2. ProgramPage = Top /\ StackPage = Top + Span
  BY DEF ProgramPage, StackPage
<1> QED
  BY <1>1, <1>2 DEF VPage, Frame, Run

(* process_map_bin() maps the whole file. *)
LEMMA BinMaps ==
    ASSUME NEW d, NEW g \in Programs, NEW image \in Block
    PROVE  process_map_bin(d, g, image * PageSize, ProgramAddr) =
             paging_map_range(d, ProgramPage, image, Pages(g.size), ReadWrite)
<1> DEFINE P == Pages(g.size)
           end == image * PageSize + g.size
<1>0. /\ PageSize \in Nat \ {0} /\ image \in Nat /\ g.size \in Nat /\ image * PageSize \in Nat
      /\ ProgramPage \in Nat
  BY ElfAssumption, ProgramFacts, SizesFit DEF Block, ProgramPage
<1>1. P \in Nat /\ (g.size - 1) \div PageSize = P - 1 /\ end \in Nat
  <2>1. PICK y \in Nat : y = g.size
    BY <1>0
  <2>2. Pages(y) \in Nat /\ (y - 1) \div PageSize = Pages(y) - 1
    BY Aligned
  <2>3. end \in Nat
    BY <1>0
  <2> QED
    BY <2>1, <2>2, <2>3
<1>2. Pages(end) = image + P
  <2>1. (end - 1) \div PageSize = Pages(end) - 1 /\ Pages(end) \in Nat
    BY <1>1, Aligned
  <2>2. end - 1 = image * PageSize + (g.size - 1)
    BY <1>0
  <2>3. (image * PageSize + (g.size - 1)) \div PageSize = image + ((g.size - 1) \div PageSize)
    <3>1. g.size - 1 \in Int /\ image \in Int
      BY <1>0
    <3> QED
      BY <1>0, <3>1, Shifted, Zenon
  <2> HIDE DEF end, P
  <2> QED
    BY <1>0, <1>1, <2>1, <2>2, <2>3
<1>3. paging_align_address(end) = (image + P) * PageSize
  BY <1>1, <1>2, Aligned
<1>4. process_map_bin(d, g, image * PageSize, ProgramAddr) =
        paging_map_to(d, ProgramPage * PageSize, image * PageSize, (image + P) * PageSize, ReadWrite)
  BY <1>3 DEF process_map_bin, ProgramAddr
<1> HIDE DEF P, end
<1>5. (image + P) * PageSize - image * PageSize = P * PageSize
  BY <1>0, <1>1
<1>6. /\ (ProgramPage * PageSize) \div PageSize = ProgramPage
      /\ (image * PageSize) \div PageSize = image
      /\ (P * PageSize) \div PageSize = P
  <2>1. ProgramPage \in Int /\ image \in Int /\ P \in Int
    BY <1>0, <1>1
  <2> QED
    BY <2>1, WholePages, Zenon
<1> QED
  BY <1>4, <1>5, <1>6, Zenon DEF paging_map_to, P

(* The pages of a segment are the program's. *)
LEMMA SegmentFits ==
    ASSUME NEW g \in Programs, NEW i \in Segments(g)
    PROVE  /\ PageRange(g.phdrs[i]) \in SUBSET Run(ProgramPage, Span)
           /\ g.phdrs[i] \in ProgramHeader
           /\ g.phdrs[i].p_vaddr % PageSize = g.phdrs[i].p_offset % PageSize
           /\ g.phdrs[i].p_offset + g.phdrs[i].p_memsz =< g.size
<1> DEFINE phdr == g.phdrs[i]
           z == phdr.p_vaddr + phdr.p_memsz
<1>0. /\ IsProgram(g, ProgramAddr, StackPage * PageSize) /\ g.phdrs \in Seq(ProgramHeader)
      /\ i \in DOMAIN g.phdrs
  BY ProgramFacts DEF Segments
<1>1. phdr \in ProgramHeader
  BY <1>0
<1>2. /\ phdr.p_vaddr \in Nat /\ phdr.p_memsz \in Nat /\ phdr.p_offset \in Nat
      /\ PageSize \in Nat \ {0} /\ z \in Nat
  BY <1>1, ElfAssumption DEF ProgramHeader
<1>3. /\ phdr.p_vaddr % PageSize = phdr.p_offset % PageSize
      /\ phdr.p_offset + phdr.p_memsz =< g.size
      /\ phdr.p_vaddr >= Top * PageSize /\ z =< StackPage * PageSize
  BY <1>0 DEF IsProgram, ProgramAddr, ProgramPage
<1> HIDE DEF phdr
<1>4. Top \in Nat /\ StackPage \in Nat /\ StackPage = Top + Span /\ ProgramPage = Top /\ Span \in Nat
  BY PagesOfProgram, PagesAreOrdered
<1>5. phdr.p_vaddr \div PageSize >= Top
  <2>1. (Top * PageSize) \div PageSize = Top
    BY <1>4, WholePages
  <2>2. (Top * PageSize) \div PageSize =< phdr.p_vaddr \div PageSize
    BY <1>2, <1>3, <1>4
  <2>3. phdr.p_vaddr \div PageSize \in Nat
    BY <1>2, Aligned
  <2> QED
    BY <1>4, <2>1, <2>2, <2>3
<1>6. (z - 1) \div PageSize =< StackPage - 1
  <2>1. StackPage * PageSize \in Nat
    BY <1>2, <1>4
  <2>2. Pages(z) =< Pages(StackPage * PageSize)
    BY <1>2, <1>3, <2>1, PagesGrow
  <2>3. Pages(StackPage * PageSize) = StackPage
    <3>1. (StackPage * PageSize) % PageSize = 0 /\ (StackPage * PageSize) \div PageSize = StackPage
      <4>1. 0 \in Int /\ StackPage \in Int /\ StackPage * PageSize + 0 = StackPage * PageSize
        BY <1>4, <2>1
      <4>2. (StackPage * PageSize + 0) % PageSize = 0 % PageSize /\ 0 % PageSize = 0
        BY <1>2, <4>1, Shifted
      <4> QED
        BY <4>1, <4>2, WholePages
    <3> QED
      BY <3>1 DEF Pages, paging_align_address
  <2>4. (z - 1) \div PageSize = Pages(z) - 1 /\ Pages(z) \in Nat
    BY <1>2, Aligned
  <2> HIDE DEF z
  <2> QED
    BY <1>4, <2>2, <2>3, <2>4
<1>7. PageRange(phdr) \in SUBSET Run(ProgramPage, Span)
  <2>1. PICK lo \in Nat, hi \in Int : lo = phdr.p_vaddr \div PageSize /\ hi = (z - 1) \div PageSize
    <3>1. phdr.p_vaddr \div PageSize \in Nat
      BY <1>2, Aligned
    <3>2. (z - 1) \div PageSize = Pages(z) - 1 /\ Pages(z) \in Nat
      BY <1>2, Aligned
    <3> HIDE DEF z
    <3> QED
      BY <3>1, <3>2
  <2>2. phdr.p_vaddr + phdr.p_memsz - 1 = z - 1
    BY <1>2
  <2>3. PageRange(phdr) = lo .. hi
    BY <2>1, <2>2 DEF PageRange
  <2> QED
    BY <1>4, <1>5, <1>6, <2>1, <2>3 DEF Run
<1> QED
  BY <1>1, <1>3, <1>7 DEF phdr

(* The pages of a program that are mapped to its file. *)
FilePages(g) ==
    IF g.kind = "bin" THEN Run(ProgramPage, Pages(g.size))
    ELSE UNION {PageRange(g.phdrs[i]) : i \in Segments(g)}

(* A directory as process_map_memory() makes it.                           *)
IsProcessMap(e, g, image, stack) ==
    /\ e \in Directory
    /\ FilePages(g) \in SUBSET Run(ProgramPage, Span)
    /\ \A v \in Run(StackPage, StackSize) : e[v] = [frame |-> stack + (v - StackPage), flags |-> ReadWrite]
    /\ g.kind = "bin" =>
          \A v \in FilePages(g) : e[v] = [frame |-> image + (v - ProgramPage), flags |-> ReadWrite]
    /\ g.kind # "bin" =>
          \A i \in Segments(g) : \A v \in PageRange(g.phdrs[i]) : e[v] = Entry(g, image, i, v)
    /\ \A v \in VPage \ (FilePages(g) \cup Run(StackPage, StackSize)) :
          e[v] = [frame |-> v, flags |-> ReadOnly]

(* process_map_memory() maps the program and its stack, and every other    *)
(* page to itself.                                                         *)
LEMMA MapMemory ==
    ASSUME NEW g \in Programs, NEW image \in Block, NEW stack \in Block
    PROVE  IsProcessMap(process_map_memory(g, image, stack), g, image, stack)
<1> DEFINE d == paging_new(ReadOnly)
           f == IF g.kind = "bin" THEN process_map_bin(d, g, image * PageSize, ProgramAddr)
                                  ELSE process_map_elf(d, g, image * PageSize)
           e == process_map_memory(g, image, stack)
<1>1. d \in Directory /\ \A v \in VPage : d[v] = [frame |-> v, flags |-> ReadOnly]
  BY DEF paging_new, Directory
<1>2. e = paging_map_range(f, StackPage, stack, StackSize, ReadWrite)
  BY DEF process_map_memory
<1> HIDE DEF d, e
<1>3. /\ f \in Directory
      /\ FilePages(g) \in SUBSET Run(ProgramPage, Span)
      /\ g.kind = "bin" =>
            \A v \in FilePages(g) : f[v] = [frame |-> image + (v - ProgramPage), flags |-> ReadWrite]
      /\ g.kind # "bin" =>
            \A i \in Segments(g) : \A v \in PageRange(g.phdrs[i]) : f[v] = Entry(g, image, i, v)
      /\ \A v \in VPage \ FilePages(g) : f[v] = [frame |-> v, flags |-> ReadOnly]
  <2>1. CASE g.kind = "bin"
    <3> DEFINE n == Pages(g.size)
    <3>1. f = paging_map_range(d, ProgramPage, image, n, ReadWrite) /\ FilePages(g) = Run(ProgramPage, n)
      BY <2>1, BinMaps DEF FilePages
    <3>2. n \in Nat /\ image + n =< Top /\ image \in Nat /\ ProgramPage \in Int /\ n =< Span
      <4>1. n \in Sizes /\ n =< Span
        BY ProgramFacts
      <4> HIDE DEF n
      <4> QED
        BY <4>1, SizesFit DEF Block, ProgramPage
    <3>3. ReadWrite \in {{}, ReadOnly, ReadWrite}
      OBVIOUS
    <3> HIDE DEF n, f
    <3>4. IsMapped(f, d, ProgramPage, image, n, ReadWrite)
      BY <1>1, <3>1, <3>2, <3>3, MapRange
    <3>5. Run(ProgramPage, n) \in SUBSET Run(ProgramPage, Span) /\ Run(ProgramPage, Span) \in SUBSET VPage
      <4>1. Run(ProgramPage, n) \in SUBSET Run(ProgramPage, Span)
        BY <3>2, PagesOfProgram DEF Run
      <4> QED
        BY <4>1, PagesOfProgram
    <3> QED
      BY <1>1, <2>1, <3>1, <3>4, <3>5 DEF IsMapped
  <2>2. CASE g.kind # "bin"
    <3>1. f = process_map_elf(d, g, image * PageSize)
          /\ FilePages(g) = UNION {PageRange(g.phdrs[i]) : i \in Segments(g)}
      BY <2>2 DEF FilePages
    <3> HIDE DEF f
    <3>2. MapsUpTo(g, image, d, f, Len(g.phdrs))
      BY <1>1, <3>1, ElfMaps
    <3>3. \A i \in Segments(g) : i =< Len(g.phdrs)
      BY ProgramFacts DEF Segments
    <3>4. FilePages(g) \in SUBSET Run(ProgramPage, Span) /\ Run(ProgramPage, Span) \in SUBSET VPage
      <4>1. FilePages(g) \in SUBSET Run(ProgramPage, Span)
        BY <3>1, SegmentFits
      <4> QED
        BY <4>1, PagesOfProgram
    <3>5. ASSUME NEW i \in Segments(g), NEW v \in PageRange(g.phdrs[i])
          PROVE  f[v] = Entry(g, image, i, v)
      <4>1. v \in VPage
        BY <3>1, <3>4
      <4> QED
        BY <3>2, <3>3, <4>1 DEF MapsUpTo
    <3>6. ASSUME NEW v \in VPage \ FilePages(g)
          PROVE  f[v] = [frame |-> v, flags |-> ReadOnly]
      <4>1. \A i \in Segments(g) : v \notin PageRange(g.phdrs[i])
        BY <3>1, <3>6
      <4>2. f[v] = d[v]
        BY <3>2, <4>1 DEF MapsUpTo
      <4> QED
        BY <1>1, <4>2
    <3>7. f \in Directory
      BY <3>2 DEF MapsUpTo
    <3> QED
      BY <2>2, <3>4, <3>5, <3>6, <3>7
  <2> QED
    BY <2>1, <2>2
<1> HIDE DEF f
<1>4. IsMapped(e, f, StackPage, stack, StackSize, ReadWrite)
  <2>1. StackSize \in Nat /\ stack \in Nat /\ stack + StackSize =< Top /\ StackPage \in Int
    <3>1. StackSize \in Sizes /\ Top \in Nat /\ Length \in Nat /\ StackPage \in Nat
      BY SizesFit, PagesAreOrdered
    <3> QED
      BY <3>1, SizesFit DEF Block
  <2>2. ReadWrite \in {{}, ReadOnly, ReadWrite}
    OBVIOUS
  <2> QED
    BY <1>2, <1>3, <2>1, <2>2, MapRange
<1>5. /\ Run(ProgramPage, Span) \cap Run(StackPage, StackSize) = {}
      /\ Run(ProgramPage, Span) \in SUBSET VPage /\ Run(StackPage, StackSize) \in SUBSET VPage
  BY PagesOfProgram
<1>6. \A i \in Segments(g) : g.kind # "bin" => PageRange(g.phdrs[i]) \in SUBSET FilePages(g)
  BY DEF FilePages
<1> HIDE DEF Entry
<1>7. \A v \in VPage \ Run(StackPage, StackSize) : e[v] = f[v]
  BY <1>4 DEF IsMapped
<1>8. \A v \in FilePages(g) : e[v] = f[v]
  BY <1>3, <1>5, <1>7
<1>9. \A v \in Run(StackPage, StackSize) : e[v] = [frame |-> stack + (v - StackPage), flags |-> ReadWrite]
  BY <1>4, <1>5 DEF IsMapped
<1>10. e \in Directory
  BY <1>4 DEF IsMapped
<1>11. g.kind # "bin" =>
         \A i \in Segments(g) : \A v \in PageRange(g.phdrs[i]) : e[v] = Entry(g, image, i, v)
  BY <1>3, <1>6, <1>8
<1>12. \A v \in VPage \ (FilePages(g) \cup Run(StackPage, StackSize)) :
          e[v] = [frame |-> v, flags |-> ReadOnly]
  BY <1>3, <1>7
<1> QED
  BY <1>3, <1>8, <1>9, <1>10, <1>11, <1>12 DEF IsProcessMap, e

-----------------------------------------------------------------------------
(* All processes *)

Apart(m) == m.image # m.stack /\ m.image # m.page_dir /\ m.stack # m.page_dir

(* What a process has on the heap, what is lost, and what the others have. *)
Held(p) == Fixed(mem[p]) \cup InSlots(allocations[p])
Kept == leaked
Others(p) == Kept \cup UNION {Held(r) : r \in Running \ {p}}

(* The inductive invariant. *)
IInv ==
    /\ allocations \in [Process -> Slots]
    /\ mem \in [Process -> Memory \cup {Dead}]
    /\ dir \in [Process -> Directory]
    /\ IsHeap(live)
    /\ live = Kept \cup UNION {Held(p) : p \in Running}
    /\ \A p \in Running : Good(Of(p), mem[p], Others(p)) /\ Apart(mem[p])

(* What a process that runs is. *)
LEMMA RunningFacts ==
    ASSUME IInv, NEW p \in Running
    PROVE  /\ p \in Process /\ mem[p] \in Memory
           /\ Of(p).heap = live /\ Of(p).slots = allocations[p] /\ Of(p).dir = dir[p]
  BY DEF IInv, Running, Of, State

LEMMA MemoryIsNotDead == Dead \notin Memory
  BY PagesAreOrdered DEF Memory, Dead, Block, NULL

(* A good state stays good when others allocate and free. *)
LEMMA OthersMayChange ==
    ASSUME NEW s, NEW m, NEW other, Good(s, m, other),
           NEW heap, NEW o, IsHeap(heap), heap = o \cup Fixed(m) \cup InSlots(s.slots),
           o \cap (Fixed(m) \cup InSlots(s.slots)) = {}
    PROVE  Good(State(heap, s.slots, s.dir, NULL), m, o)
<1> DEFINE t == State(heap, s.slots, s.dir, NULL)
<1>1. /\ t.heap = heap /\ t.slots = s.slots /\ t.dir = s.dir
      /\ t = [heap |-> heap, slots |-> s.slots, dir |-> s.dir, ptr |-> NULL]
  BY DEF State
<1>2. t \in States
  <2>1. s.slots \in Slots /\ s.dir \in Directory
    BY DEF Good, States
  <2> QED
    BY <1>1, <2>1 DEF States, IsHeap, NULL
<1> HIDE DEF t
<1>3. o \cap Fixed(m) = {} /\ o \cap InSlots(s.slots) = {}
  OBVIOUS
<1> QED
  BY <1>1, <1>2, <1>3 DEF Good, t

(* Whatever one process does to its part of the heap, the invariant holds  *)
(* after it if that part is good: the process that did it runs with memory *)
(* m, and everyone else keeps what was theirs.  lost is what it has taken  *)
(* and nobody will free.                                                   *)
LEMMA OneProcess ==
    ASSUME IInv, NEW p \in Process, NEW s, NEW m \in Memory, Apart(m),
           NEW lost, lost \cap live = {}, leaked' = leaked \cup lost,
           Good(s, m, Others(p) \cup lost), Set(p, s), mem' = [mem EXCEPT ![p] = m]
    PROVE  IInv'
<1>0. /\ s \in States /\ s.slots \in Slots /\ s.dir \in Directory
      /\ s.heap = Others(p) \cup lost \cup Fixed(m) \cup InSlots(s.slots) /\ IsHeap(s.heap)
      /\ (Others(p) \cup lost) \cap Fixed(m) = {} /\ (Others(p) \cup lost) \cap InSlots(s.slots) = {}
  BY DEF Good, States
<1>1. /\ allocations' \in [Process -> Slots] /\ allocations'[p] = s.slots
      /\ mem' \in [Process -> Memory \cup {Dead}] /\ mem'[p] = m
      /\ dir' \in [Process -> Directory] /\ dir'[p] = s.dir
      /\ live' = s.heap /\ IsHeap(live')
  <2> USE DEF IInv, Set
  <2>1. allocations' \in [Process -> Slots] /\ allocations'[p] = s.slots
    BY <1>0
  <2>2. mem' \in [Process -> Memory \cup {Dead}] /\ mem'[p] = m
    OBVIOUS
  <2>3. dir' \in [Process -> Directory] /\ dir'[p] = s.dir
    BY <1>0
  <2> QED
    BY <1>0, <2>1, <2>2, <2>3
<1>2. \A r \in Process \ {p} : allocations'[r] = allocations[r] /\ mem'[r] = mem[r] /\ dir'[r] = dir[r]
  BY DEF IInv, Set
<1>3. Running' = Running \cup {p} /\ Running \in SUBSET Process
  BY <1>1, <1>2, MemoryIsNotDead DEF Running
<1>4. Kept' = Kept \cup lost
  BY DEF Kept
<1>5. Held(p)' = Fixed(m) \cup InSlots(s.slots)
  BY <1>1 DEF Held
<1>6. \A r \in Running \ {p} : Held(r)' = Held(r)
  BY <1>2, <1>3 DEF Held
<1>7. Others(p)' = Others(p) \cup lost
  <2>1. Running' \ {p} = Running \ {p}
    BY <1>3
  <2> QED
    BY <1>4, <1>6, <2>1 DEF Others
<1>8. live' = Kept' \cup UNION {Held(r)' : r \in Running'}
  <2>1. UNION {Held(r)' : r \in Running'} = Held(p)' \cup UNION {Held(r) : r \in Running \ {p}}
    BY <1>3, <1>6
  <2> QED
    BY <1>0, <1>1, <1>4, <1>5, <2>1 DEF Others
<1>9. Good(Of(p)', mem'[p], Others(p)')
  <2>1. Of(p)' = State(s.heap, s.slots, s.dir, NULL)
    BY <1>1 DEF Of
  <2>2. (Others(p) \cup lost) \cap (Fixed(m) \cup InSlots(s.slots)) = {}
    BY <1>0
  <2>3. Good(State(s.heap, s.slots, s.dir, NULL), m, Others(p) \cup lost)
    BY <1>0, <2>2, OthersMayChange
  <2> QED
    BY <1>1, <1>7, <2>1, <2>3
<1>10. ASSUME NEW r \in Running \ {p}
       PROVE  Good(Of(r)', mem'[r], Others(r)') /\ Apart(mem'[r])
  <2>1. Good(Of(r), mem[r], Others(r)) /\ Apart(mem[r])
    BY DEF IInv
  <2>2. Of(r).slots = allocations[r] /\ Of(r).dir = dir[r] /\ r \in Process
    BY <1>3 DEF Of, State
  <2>3. Of(r)' = State(live', Of(r).slots, Of(r).dir, NULL)
    BY <1>2, <2>2 DEF Of
  <2>4. Held(r) \in SUBSET Others(p)
    BY DEF Others
  <2>5. Others(r) \cap Held(r) = {}
    BY <2>1, <2>2 DEF Good, Held
  <2>6. Others(r)' = Kept \cup lost \cup Held(p)' \cup UNION {Held(q) : q \in Running \ {p, r}}
    <3>1. Running' \ {r} = (Running \ {p, r}) \cup {p}
      BY <1>3
    <3>2. UNION {Held(q)' : q \in Running' \ {r}} = Held(p)' \cup UNION {Held(q) : q \in Running \ {p, r}}
      BY <1>6, <3>1
    <3> QED
      BY <1>4, <3>2 DEF Others
  <2>7. Others(r)' \cap Held(r) = {}
    <3>1. Kept \cap Held(r) = {} /\ \A q \in Running \ {p, r} : Held(q) \cap Held(r) = {}
      BY <2>5 DEF Others
    <3>2. Held(p)' \cap Held(r) = {}
      BY <1>0, <1>5, <2>4
    <3>3. lost \cap Held(r) = {}
      BY DEF IInv
    <3> QED
      BY <2>6, <3>1, <3>2, <3>3
  <2>8. live' = Others(r)' \cup Held(r)
    <3>1. UNION {Held(q) : q \in Running \ {p}} = Held(r) \cup UNION {Held(q) : q \in Running \ {p, r}}
      OBVIOUS
    <3> QED
      BY <1>0, <1>1, <1>5, <2>6, <3>1 DEF Others
  <2>9. Held(r) = Fixed(mem[r]) \cup InSlots(Of(r).slots)
    BY <2>2 DEF Held
  <2>10. Good(State(live', Of(r).slots, Of(r).dir, NULL), mem[r], Others(r)')
    <3>1. /\ IsHeap(live') /\ live' = Others(r)' \cup Fixed(mem[r]) \cup InSlots(Of(r).slots)
          /\ Others(r)' \cap (Fixed(mem[r]) \cup InSlots(Of(r).slots)) = {}
      BY <1>1, <2>7, <2>8, <2>9
    <3> QED
      BY <2>1, <3>1, OthersMayChange
  <2> QED
    BY <1>2, <2>1, <2>2, <2>3, <2>10
<1> QED
  BY <1>1, <1>3, <1>8, <1>9, <1>10 DEF IInv

LEMMA InitIInv == Init => IInv
<1> SUFFICES ASSUME Init
             PROVE  IInv
  OBVIOUS
<1>1. allocations \in [Process -> Slots] /\ dir \in [Process -> Directory]
  BY DEF Init, Slots, NoAlloc, Directory, paging_new
<1>2. Running = {} /\ Kept = {} /\ live = {}
  BY DEF Init, Running, Kept
<1> QED
  BY <1>1, <1>2 DEF Init, IInv, IsHeap

LEMMA MallocStep ==
    ASSUME IInv, NEW p \in Process, NEW n \in Requests, Malloc(p, n)
    PROVE  IInv'
<1>1. p \in Running /\ Set(p, process_malloc(Of(p), n)) /\ mem' = mem /\ UNCHANGED leaked
  BY DEF Malloc
<1>2. mem[p] \in Memory /\ Apart(mem[p]) /\ Good(Of(p), mem[p], Others(p))
  BY <1>1, RunningFacts DEF IInv
<1>3. Good(process_malloc(Of(p), n), mem[p], Others(p))
  BY <1>2, MallocGood
<1>4. /\ mem' = [mem EXCEPT ![p] = mem[p]] /\ leaked' = leaked \cup {} /\ {} \cap live = {}
      /\ Others(p) \cup {} = Others(p)
  BY <1>1 DEF IInv
<1> QED
  BY <1>1, <1>2, <1>3, <1>4, OneProcess

LEMMA FreeStepInv ==
    ASSUME IInv, NEW p \in Process, NEW ptr, Free(p, ptr)
    PROVE  IInv'
<1>1. p \in Running /\ Set(p, process_free(Of(p), ptr)) /\ mem' = mem /\ UNCHANGED leaked
  BY DEF Free
<1>2. mem[p] \in Memory /\ Apart(mem[p]) /\ Good(Of(p), mem[p], Others(p))
  BY <1>1, RunningFacts DEF IInv
<1>3. Good(process_free(Of(p), ptr), mem[p], Others(p))
  BY <1>2, FreeGood
<1>4. /\ mem' = [mem EXCEPT ![p] = mem[p]] /\ leaked' = leaked \cup {} /\ {} \cap live = {}
      /\ Others(p) \cup {} = Others(p)
  BY <1>1 DEF IInv
<1> QED
  BY <1>1, <1>2, <1>3, <1>4, OneProcess

(* A process as process_load_slot() leaves it: three allocations one after *)
(* the other, none of the slots in use.                                    *)
LEMMA LoadGood ==
    ASSUME NEW heap, IsHeap(heap), NEW g \in Programs,
           NEW image, image = kzalloc(heap, Pages(g.size)), image # NULL,
           NEW h1, h1 = With(heap, image, Pages(g.size)),
           NEW stack, stack = kzalloc(h1, StackSize), stack # NULL,
           NEW h2, h2 = With(h1, stack, StackSize),
           NEW tables, tables = kzalloc(h2, 1), tables # NULL,
           NEW m, m = [image |-> image, program |-> g, stack |-> stack, page_dir |-> tables]
    PROVE  /\ m \in Memory /\ Apart(m)
           /\ Good(State(With(h2, tables, 1), [i \in AllocIndex |-> NoAlloc],
                         process_map_memory(g, image, stack), NULL),
                   m, heap)
<1> DEFINE n == Pages(g.size)
           slots == [i \in AllocIndex |-> NoAlloc]
           d == process_map_memory(g, image, stack)
           a == [start |-> image, size |-> n]
           b == [start |-> stack, size |-> StackSize]
           c == [start |-> tables, size |-> 1]
           s == State(With(h2, tables, 1), slots, d, NULL)
<1>0. n \in Sizes /\ StackSize \in Sizes /\ 1 \in Sizes
  BY ProgramFacts, SizesFit
<1>1. image \in Block /\ IsHeap(h1) /\ \A x \in heap : Blocks(x) \cap Run(image, n) = {}
  BY <1>0, AllocIsFree
<1>2. stack \in Block /\ IsHeap(h2) /\ \A x \in h1 : Blocks(x) \cap Run(stack, StackSize) = {}
  BY <1>0, <1>1, AllocIsFree
<1>3. /\ tables \in Block /\ IsHeap(With(h2, tables, 1))
      /\ \A x \in h2 : Blocks(x) \cap Run(tables, 1) = {}
  BY <1>0, <1>2, AllocIsFree
<1>4. h1 = heap \cup {a} /\ h2 = heap \cup {a, b} /\ With(h2, tables, 1) = heap \cup {a, b, c}
  BY DEF With, Alloc
<1>5. /\ a \in Allocation /\ a.start = image /\ Blocks(a) = Run(image, n)
      /\ b \in Allocation /\ b.start = stack /\ Blocks(b) = Run(stack, StackSize)
      /\ c \in Allocation /\ c.start = tables /\ Blocks(c) = Run(tables, 1)
  BY <1>0, <1>1, <1>2, <1>3 DEF Allocation, Blocks
<1>6. Fixed(m) = {a, b, c} /\ m.program = g /\ m.image = image /\ m.stack = stack /\ m.page_dir = tables
  BY DEF Fixed, Image, StackOf, Tables
<1>7. m \in Memory
  BY <1>1, <1>2, <1>3 DEF Memory
<1>8. IsProcessMap(d, g, image, stack)
  BY <1>1, <1>2, MapMemory
<1>9. slots \in Slots /\ \A i \in AllocIndex : slots[i] = NoAlloc
  BY DEF Slots, NoAlloc
<1>10. NoAlloc.ptr = NULL
  BY DEF NoAlloc
<1>11. /\ s.heap = heap \cup {a, b, c} /\ s.slots = slots /\ s.dir = d
       /\ s = [heap |-> heap \cup {a, b, c}, slots |-> slots, dir |-> d, ptr |-> NULL]
  BY <1>4 DEF State
<1>12. s \in States
  <2> HIDE DEF d, slots, a, b, c, s
  <2>1. d \in Directory
    BY <1>8 DEF IsProcessMap
  <2>2. heap \cup {a, b, c} \in SUBSET Allocation
    BY <1>3, <1>4 DEF IsHeap
  <2>3. NULL \in Int
    BY DEF NULL
  <2> QED
    BY <1>9, <1>11, <2>1, <2>2, <2>3 DEF States
<1> HIDE DEF a, b, c, d, s, slots, n
<1>13. /\ a.start \in Blocks(a) /\ b.start \in Blocks(b) /\ c.start \in Blocks(c)
  BY <1>5, AllocationFits
<1>14. Apart(m) /\ heap \cap {a, b, c} = {}
  <2>1. a \in h1 /\ a \in h2 /\ b \in h2 /\ heap \in SUBSET h1 /\ heap \in SUBSET h2
    BY <1>4
  <2>2. image # stack /\ image # tables /\ stack # tables
    BY <1>2, <1>3, <1>5, <1>13, <2>1
  <2>3. a \notin heap /\ b \notin heap /\ c \notin heap
    BY <1>1, <1>2, <1>3, <1>5, <1>13, <2>1
  <2> QED
    BY <1>6, <2>2, <2>3 DEF Apart
<1>16. Used(slots) = {} /\ InSlots(slots) = {}
  BY <1>9, <1>10 DEF Used, InSlots
<1>17. SlotsInv(slots)
  BY <1>9, <1>16 DEF SlotsInv
<1>18. DirInv(m, slots, d)
  <2>1. \A v \in Frame : d[v] = [frame |-> v, flags |-> ReadOnly]
    BY <1>8, PagesOfProgram, PagesAreOrdered DEF IsProcessMap
  <2>2. \A v \in Frame : d[v].frame = v /\ d[v].flags # ReadWrite /\ d[v].flags # {}
    <3>1. SUFFICES ASSUME NEW v \in Frame
                   PROVE  d[v].frame = v /\ d[v].flags # ReadWrite /\ d[v].flags # {}
      OBVIOUS
    <3>2. d[v].frame = v /\ d[v].flags = ReadOnly
      <4>1. d[v] = [frame |-> v, flags |-> ReadOnly]
        BY <2>1, Zenon
      <4>2. \A x, y : [frame |-> x, flags |-> y].frame = x /\ [frame |-> x, flags |-> y].flags = y
        OBVIOUS
      <4> QED
        BY <4>1, <4>2, Zenon
    <3> QED
      BY <3>2, FlagsDiffer
  <2>3. tables \in Frame
    BY <1>3, PagesAreOrdered
  <2>4. d = process_map_memory(m.program, m.image, m.stack)
    BY <1>6 DEF d
  <2> QED
    BY <1>6, <1>16, <2>2, <2>3, <2>4 DEF DirInv
<1>19. IsHeap(heap \cup {a, b, c})
  BY <1>3, <1>4
<1>20. Good(s, m, heap)
  BY <1>6, <1>11, <1>12, <1>14, <1>16, <1>17, <1>18, <1>19 DEF Good
<1> QED
  BY <1>7, <1>14, <1>20 DEF s, slots, d

(* Allocations one after the other, on a heap that was base. *)
Chain(s, base) ==
    IsHeap(s.heap) /\ s.heap = base \cup s.taken /\ base \cap s.taken = {}

(* One more of them. *)
LEMMA TakeOne ==
    ASSUME NEW base, NEW s, NEW n \in Sizes, Chain(s, base), HasRoom(Take(s, n))
    PROVE  /\ Chain(Take(s, n), base) /\ HasRoom(s)
           /\ Take(s, n).ptr = kzalloc(s.heap, n) /\ Take(s, n).ptr # NULL
           /\ Take(s, n).heap = With(s.heap, Take(s, n).ptr, n)
           /\ Take(s, n).taken \ {Alloc(Take(s, n).ptr, n)} = s.taken
<1> DEFINE ptr == kzalloc(s.heap, n)
           c == Alloc(ptr, n)
           t == Take(s, n)
<1>1. t.heap = With(s.heap, ptr, n) /\ t.taken = s.taken \cup {c} /\ t.ptr = ptr
  BY DEF Take
<1>2. c.start = ptr /\ c = [start |-> ptr, size |-> n] /\ With(s.heap, ptr, n) = s.heap \cup {c}
  BY DEF Alloc, With
<1>3. ptr # NULL /\ HasRoom(s)
  BY <1>1, <1>2 DEF HasRoom
<1>4. /\ ptr \in Block /\ IsHeap(With(s.heap, ptr, n))
      /\ \A a \in s.heap : Blocks(a) \cap Run(ptr, n) = {}
  BY <1>3, AllocIsFree DEF Chain
<1>5. c \in Allocation /\ Blocks(c) = Run(ptr, n)
  BY <1>2, <1>4 DEF Allocation, Blocks
<1> HIDE DEF c, ptr, t
<1>6. c.start \in Blocks(c)
  BY <1>5, AllocationFits
<1>7. c \notin s.heap
  BY <1>4, <1>5, <1>6
<1>8. Chain(t, base) /\ t.taken \ {c} = s.taken
  BY <1>1, <1>2, <1>4, <1>7 DEF Chain
<1> QED
  BY <1>1, <1>3, <1>8 DEF c, ptr, t

(* What one kzalloc() that succeeds returns and takes. *)
LEMMA TakeFacts ==
    ASSUME NEW x, NEW k, HasRoom(Take(x, k))
    PROVE  /\ Take(x, k).ptr = kzalloc(x.heap, k) /\ Take(x, k).ptr # NULL
           /\ Take(x, k).heap = With(x.heap, Take(x, k).ptr, k)
<1> DEFINE ptr == kzalloc(x.heap, k)
<1>1. /\ Take(x, k).ptr = ptr /\ Take(x, k).heap = With(x.heap, ptr, k)
      /\ Alloc(ptr, k) \in Take(x, k).taken
  BY DEF Take
<1>2. Alloc(ptr, k).start = ptr
  BY DEF Alloc
<1> HIDE DEF ptr
<1> QED
  BY <1>1, <1>2 DEF HasRoom, ptr

(* The structure of a process, on the heap as it is. *)
LEMMA LoadProcChain ==
    ASSUME IInv, HasRoom(LoadProc)
    PROVE  Chain(LoadProc, live)
<1> DEFINE s == [heap |-> live, taken |-> {}, ptr |-> NULL]
<1>1. LoadProc = Take(s, ProcSize)
  BY DEF LoadProc
<1>2. s.heap = live /\ s.taken = {}
  OBVIOUS
<1>3. Chain(s, live)
  BY <1>2 DEF Chain, IInv
<1> HIDE DEF s
<1> QED
  BY <1>1, <1>3, TakeOne, SizesFit

(* What is lost before the contents of a file are read: for a flat binary  *)
(* also what elf_load() has read.                                          *)
Before(g) ==
    IF g.kind = "elf" THEN Take(LoadProc, 1) ELSE Take(elf_load(LoadProc, g), 1)

LEMMA LoadStep ==
    ASSUME IInv, NEW p \in Process, NEW g \in Programs, NEW argc \in 0 .. MaxArgs, Load(p, g, argc)
    PROVE  IInv'
<1> DEFINE n == Pages(g.size)
           pre == Before(g)
           data == process_load_data(LoadProc, g)
           stack == Take(data, StackSize)
           task == Take(stack, 1)
           s == State(task.heap, [i \in AllocIndex |-> NoAlloc],
                      process_map_memory(g, data.ptr, stack.ptr), NULL)
           m == [image |-> data.ptr, program |-> g, stack |-> stack.ptr, page_dir |-> task.ptr]
           t == IF argc = 0 THEN s ELSE process_inject_args(s, argc)
<1>1. /\ p \notin Running /\ HasRoom(task)
      /\ mem' = [mem EXCEPT ![p] = m] /\ Set(p, t)
      /\ leaked' = leaked \cup (data.taken \ {Alloc(data.ptr, n)})
  BY DEF Load
<1>0. n \in Sizes /\ StackSize \in Sizes /\ 1 \in Sizes
  BY ProgramFacts, SizesFit
<1>2. data = Take(pre, n)
  BY DEF process_load_data, process_load_bin, elf_load, Before
<1>3. HasRoom(task) /\ HasRoom(stack) /\ HasRoom(data) /\ HasRoom(pre)
  <2>1. \A x, k : HasRoom(Take(x, k)) => HasRoom(x)
    BY DEF HasRoom, Take
  <2> QED
    BY <1>1, <1>2, <2>1
<1>4. Chain(pre, live)
  <2>1. \A x, k : HasRoom(Take(x, k)) => HasRoom(x)
    BY DEF HasRoom, Take
  <2>2. CASE g.kind = "elf"
    <3>1. pre = Take(LoadProc, 1)
      BY <2>2 DEF Before
    <3> QED
      BY <1>0, <1>3, <2>1, <3>1, LoadProcChain, TakeOne
  <2>3. CASE g.kind # "elf"
    <3> DEFINE a == Take(LoadProc, 1)
               b == Take(a, n)
    <3>1. pre = Take(b, 1)
      BY <2>3 DEF Before, elf_load
    <3>2. HasRoom(LoadProc) /\ HasRoom(a) /\ HasRoom(b)
      BY <1>3, <2>1, <3>1
    <3>3. Chain(a, live)
      BY <1>0, <3>2, LoadProcChain, TakeOne
    <3> HIDE DEF a
    <3>4. Chain(b, live)
      BY <1>0, <3>2, <3>3, TakeOne
    <3> HIDE DEF b
    <3> QED
      BY <1>0, <1>3, <3>1, <3>4, TakeOne
  <2> QED
    BY <2>2, <2>3
<1> HIDE DEF pre, data, n
<1>5. /\ Chain(data, live) /\ data.ptr = kzalloc(pre.heap, n) /\ data.ptr # NULL
      /\ data.heap = With(pre.heap, data.ptr, n) /\ data.taken \ {Alloc(data.ptr, n)} = pre.taken
  BY <1>0, <1>2, <1>3, <1>4, TakeOne
<1>6. /\ Chain(stack, live) /\ stack.ptr = kzalloc(data.heap, StackSize) /\ stack.ptr # NULL
      /\ stack.heap = With(data.heap, stack.ptr, StackSize)
  BY <1>0, <1>3, <1>5, TakeOne
<1> HIDE DEF stack
<1>7. /\ task.ptr = kzalloc(stack.heap, 1) /\ task.ptr # NULL /\ task.heap = With(stack.heap, task.ptr, 1)
  <2>1. HasRoom(Take(stack, 1))
    BY <1>3
  <2> QED
    BY <2>1, TakeFacts
<1> HIDE DEF task
<1>8. Others(p) = live
  <2>1. Running \ {p} = Running
    BY <1>1
  <2> QED
    BY <2>1 DEF Others, IInv
<1>9. m \in Memory /\ Apart(m) /\ Good(s, m, pre.heap)
  BY <1>4, <1>5, <1>6, <1>7, LoadGood DEF Chain, n
<1>10. pre.heap = Others(p) \cup pre.taken /\ pre.taken \cap live = {}
  BY <1>4, <1>8 DEF Chain
<1> HIDE DEF s, m
<1>11. Good(t, m, pre.heap)
  <2>1. argc \in Nat
    BY ProcMemAssumption
  <2> QED
    BY <1>9, <2>1, InjectGood
<1> HIDE DEF t
<1>12. leaked' = leaked \cup pre.taken
  BY <1>1, <1>5
<1> QED
  BY <1>1, <1>9, <1>10, <1>11, <1>12, OneProcess

(* copy_str_from_task() leaves the directory as it was. *)
LEMMA CopyRestores ==
    ASSUME NEW d \in Directory, NEW tmp \in VPage
    PROVE  CopyThrough(d, tmp) = d
<1>1. DOMAIN d = VPage /\ d = [v \in VPage |-> d[v]]
  BY DEF Directory
<1>2. \A v \in VPage : v \in Run(tmp, 1) => v = tmp
  BY PagesAreOrdered DEF Run
<1> DEFINE e == paging_map_range(d, tmp, tmp, 1, ReadWrite)
<1>3. DOMAIN e = VPage /\ \A v \in VPage \ {tmp} : e[v] = d[v]
  BY <1>1, <1>2 DEF paging_map_range
<1>4. CopyThrough(d, tmp) = [e EXCEPT ![tmp] = d[tmp]]
  BY DEF CopyThrough
<1> HIDE DEF e
<1>5. CopyThrough(d, tmp) = [v \in VPage |-> d[v]]
  BY <1>3, <1>4
<1> QED
  BY <1>1, <1>5

(* Something is taken from the heap and lost: nobody notices. *)
LEMMA LostStep ==
    ASSUME IInv, NEW lost, lost \cap live = {}, IsHeap(live \cup lost),
           live' = live \cup lost, leaked' = leaked \cup lost,
           allocations' = allocations, mem' = mem, dir' = dir
    PROVE  IInv'
<1>3. Kept' = Kept \cup lost
  BY DEF Kept
<1>5. Running' = Running /\ \A r \in Process : Held(r)' = Held(r)
  BY DEF Running, Held
<1>6. \A r \in Process : Others(r)' = Others(r) \cup lost
  <2>1. SUFFICES ASSUME NEW r \in Process
                 PROVE  Others(r)' = Others(r) \cup lost
    OBVIOUS
  <2>2. Running' \ {r} = Running \ {r} /\ \A q \in Running \ {r} : Held(q)' = Held(q)
    BY <1>5 DEF Running
  <2> QED
    BY <1>3, <2>2 DEF Others
<1>7. live' = Kept' \cup UNION {Held(r)' : r \in Running'}
  <2>1. UNION {Held(r)' : r \in Running'} = UNION {Held(r) : r \in Running}
    BY <1>5 DEF Running
  <2> QED
    BY <1>3, <2>1 DEF IInv
<1>8. ASSUME NEW r \in Running
      PROVE  Good(Of(r)', mem'[r], Others(r)') /\ Apart(mem'[r])
  <2>1. Good(Of(r), mem[r], Others(r)) /\ Apart(mem[r]) /\ r \in Process
    BY DEF IInv, Running
  <2>2. Of(r).slots = allocations[r] /\ Of(r).dir = dir[r] /\ Of(r).heap = live
    BY DEF Of, State
  <2>3. Of(r)' = State(live', Of(r).slots, Of(r).dir, NULL)
    BY <2>2 DEF Of
  <2>4. /\ live = Others(r) \cup Fixed(mem[r]) \cup InSlots(Of(r).slots)
        /\ Others(r) \cap Fixed(mem[r]) = {} /\ Others(r) \cap InSlots(Of(r).slots) = {}
    BY <2>1, <2>2 DEF Good
  <2>5. /\ live' = Others(r)' \cup Fixed(mem[r]) \cup InSlots(Of(r).slots)
        /\ Others(r)' \cap (Fixed(mem[r]) \cup InSlots(Of(r).slots)) = {}
    BY <1>6, <2>1, <2>4
  <2>6. Good(State(live', Of(r).slots, Of(r).dir, NULL), mem[r], Others(r)')
    BY <2>1, <2>5, OthersMayChange
  <2> QED
    BY <2>1, <2>3, <2>6
<1>9. /\ allocations' \in [Process -> Slots] /\ mem' \in [Process -> Memory \cup {Dead}]
      /\ dir' \in [Process -> Directory] /\ IsHeap(live')
  BY DEF IInv
<1> QED
  BY <1>5, <1>7, <1>8, <1>9 DEF IInv

LEMMA CopyStep ==
    ASSUME IInv, NEW p \in Process, copy_str_from_task(p)
    PROVE  IInv'
<1> DEFINE tmp == kzalloc(live, 1)
           c == [start |-> tmp, size |-> 1]
<1>1. /\ p \in Running /\ tmp # NULL /\ live' = With(live, tmp, 1) /\ leaked' = leaked \cup {c}
      /\ dir' = [dir EXCEPT ![p] = CopyThrough(dir[p], tmp)]
      /\ allocations' = allocations /\ mem' = mem
  BY DEF copy_str_from_task, Alloc
<1>2. tmp \in Block /\ IsHeap(live') /\ live' = live \cup {c} /\ c \notin live
  <2>0. IsHeap(live) /\ 1 \in Sizes
    BY SizesFit DEF IInv
  <2>1. /\ tmp \in Block /\ IsHeap(With(live, tmp, 1))
        /\ \A a \in live : Blocks(a) \cap Run(tmp, 1) = {}
    BY <1>1, <2>0, AllocIsFree
  <2>2. With(live, tmp, 1) = live \cup {c}
    BY DEF With, Alloc
  <2>3. c \in Allocation /\ Blocks(c) = Run(tmp, 1)
    BY <2>0, <2>1 DEF Allocation, Blocks
  <2> HIDE DEF c, tmp
  <2>4. c.start \in Blocks(c)
    BY <2>3, AllocationFits
  <2> QED
    BY <1>1, <2>1, <2>2, <2>3, <2>4
<1> HIDE DEF tmp, c
<1>3. dir' = dir
  <2>1. dir[p] \in Directory /\ tmp \in VPage
    BY <1>2, PagesAreOrdered DEF IInv
  <2>2. CopyThrough(dir[p], tmp) = dir[p]
    BY <2>1, CopyRestores
  <2> QED
    BY <1>1, <2>2 DEF IInv
<1>4. {c} \cap live = {} /\ IsHeap(live \cup {c})
  BY <1>2
<1> QED
  BY <1>1, <1>2, <1>3, <1>4, LostStep

(* A load that fails: what it has taken is lost, and that is all. *)
LEMMA LoadFailsStep ==
    ASSUME IInv, NEW g \in Programs, LoadFails(g)
    PROVE  IInv'
<1> DEFINE n == Pages(g.size)
           opened == Take(LoadProc, 1)
           copied == Take(opened, n)
           reopened == Take(copied, 1)
<1>1. PICK s \in {opened, copied, reopened} :
         /\ HasRoom(s) /\ live' = s.heap /\ leaked' = leaked \cup s.taken
         /\ allocations' = allocations /\ mem' = mem /\ dir' = dir
  BY DEF LoadFails, elf_load
<1>2. n \in Sizes /\ 1 \in Sizes
  BY ProgramFacts, SizesFit
<1>3. \A x, k : HasRoom(Take(x, k)) => HasRoom(x)
  BY DEF HasRoom, Take
<1>4. HasRoom(opened) => Chain(opened, live)
  BY <1>2, <1>3, LoadProcChain, TakeOne
<1>5. HasRoom(copied) => Chain(copied, live)
  <2>1. HasRoom(copied) => HasRoom(opened)
    BY <1>3
  <2> HIDE DEF opened
  <2> QED
    BY <1>2, <1>4, <2>1, TakeOne
<1>6. HasRoom(reopened) => Chain(reopened, live)
  <2>1. HasRoom(reopened) => HasRoom(copied)
    BY <1>3
  <2> HIDE DEF copied
  <2> QED
    BY <1>2, <1>5, <2>1, TakeOne
<1>7. Chain(s, live)
  BY <1>1, <1>4, <1>5, <1>6
<1>8. live' = live \cup s.taken /\ s.taken \cap live = {} /\ IsHeap(live \cup s.taken)
  BY <1>1, <1>7 DEF Chain
<1> QED
  BY <1>1, <1>8, LostStep

(* Freeing the image, the stack and the tables leaves what is not the      *)
(* process's.                                                              *)
LEMMA FixedAreFreed ==
    ASSUME NEW s, NEW m, NEW other, Good(s, m, other), InSlots(s.slots) = {}
    PROVE  kfree(kfree(kfree(s.heap, m.image), m.stack), m.page_dir) = other
<1>1. /\ s.heap = other \cup Fixed(m) /\ other \cap Fixed(m) = {} /\ IsHeap(s.heap)
      /\ Image(m) \in s.heap /\ StackOf(m) \in s.heap /\ Tables(m) \in s.heap
  BY DEF Good, Fixed
<1>2. Image(m).start = m.image /\ StackOf(m).start = m.stack /\ Tables(m).start = m.page_dir
  BY DEF Image, StackOf, Tables
<1>3. ASSUME NEW a \in s.heap
      PROVE  a.start \in {m.image, m.stack, m.page_dir} <=> a \in Fixed(m)
  BY <1>1, <1>2, StartsDiffer DEF Fixed
<1>4. kfree(kfree(kfree(s.heap, m.image), m.stack), m.page_dir) = s.heap \ Fixed(m)
  BY <1>3 DEF kfree
<1> QED
  BY <1>1, <1>4

LEMMA TerminateStep ==
    ASSUME IInv, NEW p \in Process, process_terminate(p)
    PROVE  IInv'
<1> DEFINE s == process_free_allocations(Of(p))
           heap == paging_free(kfree(process_free_pgm_data(s.heap, p), mem[p].stack), mem[p].page_dir)
           t == State(heap, s.slots, paging_new({}), NULL)
<1>1. p \in Running /\ Set(p, t) /\ mem' = [mem EXCEPT ![p] = Dead] /\ UNCHANGED leaked
  BY DEF process_terminate
<1>2. Good(Of(p), mem[p], Others(p))
  BY <1>1 DEF IInv
<1>3. Good(s, mem[p], Others(p)) /\ \A i \in AllocIndex : s.slots[i] = NoAlloc
  BY <1>2, FreeAllGood
<1>4. heap = kfree(kfree(kfree(s.heap, mem[p].image), mem[p].stack), mem[p].page_dir)
  BY DEF paging_free, process_free_pgm_data
<1>5. t.heap = heap /\ t.slots = s.slots /\ t.dir = paging_new({})
  BY DEF State
<1> HIDE DEF s, heap, t
<1>6. InSlots(s.slots) = {}
  <2>1. NoAlloc.ptr = NULL
    BY DEF NoAlloc
  <2> QED
    BY <1>3, <2>1 DEF InSlots, Used
<1>7. heap = Others(p)
  BY <1>3, <1>4, <1>6, FixedAreFreed
<1>8. s.slots \in Slots /\ paging_new({}) \in Directory
  <2>1. s.slots \in Slots
    BY <1>3 DEF Good, States
  <2> QED
    BY <2>1 DEF paging_new, Directory
<1>9. /\ allocations' \in [Process -> Slots] /\ dir' \in [Process -> Directory]
      /\ mem' \in [Process -> Memory \cup {Dead}] /\ mem'[p] = Dead
      /\ live' = Others(p)
  BY <1>1, <1>5, <1>7, <1>8 DEF IInv, Set
<1>10. \A r \in Process \ {p} : allocations'[r] = allocations[r] /\ mem'[r] = mem[r] /\ dir'[r] = dir[r]
  BY <1>1 DEF IInv, Set
<1>11. Running' = Running \ {p} /\ Running \in SUBSET Process
  BY <1>9, <1>10 DEF Running
<1>12. Kept' = Kept /\ \A r \in Running \ {p} : Held(r)' = Held(r)
  BY <1>1, <1>10, <1>11 DEF Kept, Held
<1>13. IsHeap(live')
  <2>1. IsHeap(live) /\ live' \in SUBSET live
    BY <1>9 DEF IInv, Others
  <2> QED
    BY <2>1 DEF IsHeap
<1>14. live' = Kept' \cup UNION {Held(r)' : r \in Running'}
  BY <1>9, <1>11, <1>12 DEF Others
<1>15. ASSUME NEW r \in Running \ {p}
       PROVE  Good(Of(r)', mem'[r], Others(r)') /\ Apart(mem'[r])
  <2>1. Good(Of(r), mem[r], Others(r)) /\ Apart(mem[r])
    BY DEF IInv
  <2>2. Of(r).slots = allocations[r] /\ Of(r).dir = dir[r] /\ r \in Process
    BY <1>11 DEF Of, State
  <2>3. Of(r)' = State(live', Of(r).slots, Of(r).dir, NULL)
    BY <1>10, <2>2 DEF Of
  <2>4. Others(r) \cap Held(r) = {} /\ Held(r) = Fixed(mem[r]) \cup InSlots(Of(r).slots)
    BY <2>1, <2>2 DEF Good, Held
  <2>5. Others(r)' = Kept \cup UNION {Held(q) : q \in Running \ {p, r}}
    <3>1. Running' \ {r} = Running \ {p, r}
      BY <1>11
    <3> QED
      BY <1>12, <3>1 DEF Others
  <2>6. Others(r)' \in SUBSET Others(r)
    BY <2>5 DEF Others
  <2>7. live' = Others(r)' \cup Held(r)
    <3>1. UNION {Held(q) : q \in Running \ {p}} = Held(r) \cup UNION {Held(q) : q \in Running \ {p, r}}
      OBVIOUS
    <3> QED
      BY <1>9, <2>5, <3>1 DEF Others
  <2>8. /\ live' = Others(r)' \cup Fixed(mem[r]) \cup InSlots(Of(r).slots)
        /\ Others(r)' \cap (Fixed(mem[r]) \cup InSlots(Of(r).slots)) = {}
    BY <2>4, <2>6, <2>7
  <2>9. Good(State(live', Of(r).slots, Of(r).dir, NULL), mem[r], Others(r)')
    BY <1>13, <2>1, <2>8, OthersMayChange
  <2> QED
    BY <1>10, <2>1, <2>2, <2>3, <2>9
<1> QED
  BY <1>9, <1>11, <1>13, <1>14, <1>15 DEF IInv

(* IInv holds in every state: each process owns what is in its slots, its  *)
(* program, its stack and its page tables, and nobody else does.           *)
THEOREM ProcMemInductive == Spec => []IInv
<1>1. Init => IInv
  BY InitIInv
<1>2. IInv /\ [Next]_vars => IInv'
  <2> SUFFICES ASSUME IInv, [Next]_vars
               PROVE  IInv'
    OBVIOUS
  <2>1. CASE UNCHANGED vars
    BY <2>1 DEF vars, IInv, Good, Of, Others, Kept, Held, Running
  <2>2. ASSUME NEW p \in Process, NEW g \in Programs, NEW argc \in 0 .. MaxArgs, Load(p, g, argc)
        PROVE  IInv'
    BY <2>2, LoadStep
  <2>3. ASSUME NEW p \in Process, NEW n \in Requests, Malloc(p, n)
        PROVE  IInv'
    BY <2>3, MallocStep
  <2>4. ASSUME NEW p \in Process, NEW ptr \in Frame \cup {NULL}, Free(p, ptr)
        PROVE  IInv'
    BY <2>4, FreeStepInv
  <2>5. ASSUME NEW p \in Process, copy_str_from_task(p)
        PROVE  IInv'
    BY <2>5, CopyStep
  <2>6. ASSUME NEW p \in Process, process_terminate(p)
        PROVE  IInv'
    BY <2>6, TerminateStep
  <2>7. ASSUME NEW g \in Programs, LoadFails(g)
        PROVE  IInv'
    BY <2>7, LoadFailsStep
  <2> QED
    BY <2>1, <2>2, <2>3, <2>4, <2>5, <2>6, <2>7 DEF Next
<1> QED
  BY <1>1, <1>2, PTL DEF Spec

-----------------------------------------------------------------------------
(* The properties *)

(* The state of process.c and paging.c keeps its shape. *)
THEOREM TypeCorrect == Spec => []TypeOK
<1>1. IInv => TypeOK
  <2> SUFFICES ASSUME IInv
               PROVE  TypeOK
    OBVIOUS
  <2>1. live \subseteq [start : 0 .. (Length - 1),
                         size : ImageSizes \cup Requests \cup {1, StackSize, ProcSize}]
    BY DEF IInv, IsHeap, Allocation, Block, Sizes
  <2>2. allocations \in [Process -> [AllocIndex -> [ptr : Frame \cup {NULL}, size : Requests \cup {0, 1}]]]
    <3>1. Slots \in SUBSET [AllocIndex -> [ptr : Frame \cup {NULL}, size : Requests \cup {0, 1}]]
      BY PagesAreOrdered DEF Slots
    <3> QED
      BY <3>1 DEF IInv
  <2>3. \A p \in Process : \A v \in VPage :
          dir[p][v].frame \in VPage /\ dir[p][v].flags \in {{}, ReadOnly, ReadWrite}
    BY DEF IInv, Directory
  <2> QED
    BY <2>1, <2>2, <2>3 DEF TypeOK
<1> QED
  BY <1>1, ProcMemInductive, PTL

(* The kernel's structs of a process stay mapped in its directory,         *)
(* whatever process_free() takes out of it.                                *)
THEOREM SwitchStaysMapped == Spec => []SwitchIsMapped
<1>1. IInv => SwitchIsMapped
  <2> SUFFICES ASSUME IInv, NEW p \in Running
               PROVE  "PRESENT" \in dir[p][mem[p].page_dir].flags
    BY DEF SwitchIsMapped
  <2>1. Good(Of(p), mem[p], Others(p)) /\ Of(p).dir = dir[p] /\ p \in Process
    BY RunningFacts DEF IInv
  <2>2. mem[p].page_dir \in VPage
    BY <2>1, TablesAreLive, PagesAreOrdered
  <2>3. dir[p][mem[p].page_dir].flags # {}
    BY <2>1 DEF Good, DirInv
  <2>4. dir[p][mem[p].page_dir].flags \in {{}, ReadOnly, ReadWrite}
    BY <2>1, <2>2 DEF IInv, Directory
  <2> QED
    BY <2>3, <2>4 DEF ReadOnly, ReadWrite
<1> QED
  BY <1>1, ProcMemInductive, PTL

(* The pointers of a process are the starts of what it holds. *)
LEMMA PointersAreStarts ==
    ASSUME IInv, NEW p \in Running
    PROVE  Pointers(p) = {a.start : a \in Held(p)} /\ Held(p) \in SUBSET live
<1>1. \A i \in AllocIndex : Slot(allocations[p][i]).start = allocations[p][i].ptr
  BY DEF Slot
<1>2. Taken(p) = Used(allocations[p])
  BY DEF Taken, Used
<1>3. {a.start : a \in InSlots(allocations[p])} = {allocations[p][i].ptr : i \in Taken(p)}
  BY <1>1, <1>2 DEF InSlots, Used
<1>4. {a.start : a \in Fixed(mem[p])} = {mem[p].image, mem[p].stack, mem[p].page_dir}
  <2>1. /\ Image(mem[p]).start = mem[p].image /\ StackOf(mem[p]).start = mem[p].stack
        /\ Tables(mem[p]).start = mem[p].page_dir
    BY DEF Image, StackOf, Tables
  <2> QED
    BY <2>1 DEF Fixed
<1>5. Held(p) \in SUBSET live
  BY DEF IInv
<1> QED
  BY <1>3, <1>4, <1>5 DEF Pointers, Held

(* The slots of a process and its three fixed allocations have different   *)
(* starts.                                                                 *)
LEMMA PointersDiffer ==
    ASSUME IInv, NEW p \in Running
    PROVE  Cardinality(Pointers(p)) = Cardinality(Taken(p)) + 3
<1> DEFINE ptrs == {allocations[p][i].ptr : i \in Taken(p)}
           m == mem[p]
<1>0. Good(Of(p), m, Others(p)) /\ Apart(m) /\ Of(p).slots = allocations[p] /\ Of(p).heap = live
  BY RunningFacts DEF IInv
<1>1. Taken(p) = Used(allocations[p]) /\ Taken(p) \in SUBSET AllocIndex
  BY DEF Taken, Used
<1>2. IsFiniteSet(Taken(p))
  <2>1. IsFiniteSet(1 .. MaxAllocs)
    BY ProcMemAssumption, FS_Interval
  <2> QED
    BY <1>1, <2>1, FS_Subset DEF AllocIndex
<1>3. IsFiniteSet(ptrs) /\ Cardinality(ptrs) = Cardinality(Taken(p))
  <2> DEFINE f == [i \in Taken(p) |-> allocations[p][i].ptr]
  <2>1. \A i, j \in Taken(p) : allocations[p][i].ptr = allocations[p][j].ptr => i = j
    BY <1>0, <1>1 DEF Good, SlotsInv
  <2>2. f \in Bijection(Taken(p), ptrs)
    BY <2>1 DEF Bijection, Injection, Surjection, IsInjective
  <2>3. ExistsBijection(Taken(p), ptrs)
    BY <2>2 DEF ExistsBijection
  <2> HIDE DEF ptrs
  <2> QED
    BY <1>2, <2>3, FS_Bijection
<1>4. \A a \in Fixed(m) : a.start \notin ptrs
  <2>1. SUFFICES ASSUME NEW a \in Fixed(m), NEW i \in Taken(p), a.start = allocations[p][i].ptr
                 PROVE  FALSE
    OBVIOUS
  <2> DEFINE b == Slot(allocations[p][i])
  <2>2. b \in InSlots(allocations[p]) /\ b \in live /\ b.start = allocations[p][i].ptr
    BY <1>0, <1>1, SlotsAreLive
  <2>3. a \in live /\ IsHeap(live) /\ Fixed(m) \cap InSlots(allocations[p]) = {}
    BY <1>0 DEF Good
  <2> HIDE DEF b
  <2>4. a = b
    BY <2>1, <2>2, <2>3, StartsDiffer
  <2> QED
    BY <2>2, <2>3, <2>4
<1>5. m.image \notin ptrs /\ m.stack \notin ptrs /\ m.page_dir \notin ptrs
  <2>1. Image(m).start = m.image /\ StackOf(m).start = m.stack /\ Tables(m).start = m.page_dir
    BY DEF Image, StackOf, Tables
  <2>2. Image(m) \in Fixed(m) /\ StackOf(m) \in Fixed(m) /\ Tables(m) \in Fixed(m)
    BY DEF Fixed
  <2> HIDE DEF ptrs
  <2> QED
    BY <1>4, <2>1, <2>2
<1>6. Pointers(p) = ((ptrs \cup {m.image}) \cup {m.stack}) \cup {m.page_dir}
  BY DEF Pointers
<1>7. Cardinality(Taken(p)) \in Nat
  BY <1>2, FS_CardinalityType
<1> HIDE DEF ptrs, m
<1>8. IsFiniteSet(ptrs \cup {m.image}) /\ Cardinality(ptrs \cup {m.image}) = Cardinality(ptrs) + 1
  BY <1>3, <1>5, FS_AddElement
<1>9. /\ IsFiniteSet((ptrs \cup {m.image}) \cup {m.stack})
      /\ Cardinality((ptrs \cup {m.image}) \cup {m.stack}) = Cardinality(ptrs \cup {m.image}) + 1
  <2>1. m.stack \notin ptrs \cup {m.image}
    BY <1>0, <1>5 DEF Apart
  <2> QED
    BY <1>8, <2>1, FS_AddElement
<1>10. Cardinality(Pointers(p)) = Cardinality((ptrs \cup {m.image}) \cup {m.stack}) + 1
  <2>1. m.page_dir \notin (ptrs \cup {m.image}) \cup {m.stack}
    BY <1>0, <1>5 DEF Apart
  <2> QED
    BY <1>6, <1>9, <2>1, FS_AddElement
<1> QED
  BY <1>3, <1>7, <1>8, <1>9, <1>10

(* Every allocation of the heap belongs to one process or is lost, and     *)
(* every pointer that is kept is that of a live allocation; a process that *)
(* ends gives back its program, its stack, its tables and what it has      *)
(* allocated.                                                              *)
THEOREM HeapStaysOwned == Spec => []HeapIsOwned
<1>1. IInv => HeapIsOwned
  <2> SUFFICES ASSUME IInv
               PROVE  HeapIsOwned
    OBVIOUS
  <2>1. \A p \in Running : Pointers(p) = {a.start : a \in Held(p)} /\ Held(p) \in SUBSET live
    BY PointersAreStarts
  <2>2. leaked \in SUBSET live /\ live = leaked \cup UNION {Held(p) : p \in Running}
    BY DEF IInv, Kept
  <2>3. \A p \in Running : Others(p) \cap Held(p) = {}
    <3>1. SUFFICES ASSUME NEW p \in Running
                   PROVE  Others(p) \cap Held(p) = {}
      OBVIOUS
    <3>2. Good(Of(p), mem[p], Others(p)) /\ Of(p).slots = allocations[p]
      BY RunningFacts DEF IInv
    <3> QED
      BY <3>2 DEF Good, Held
  <2>4. \A p \in Running : leaked \cap Held(p) = {}
    BY <2>3 DEF Others, Kept
  <2>5. {a.start : a \in live \ leaked} = UNION {Pointers(p) : p \in Running}
    <3>1. live \ leaked = UNION {Held(p) : p \in Running}
      BY <2>2, <2>4
    <3> QED
      BY <2>1, <3>1
  <2>6. ASSUME NEW p \in Running
        PROVE  /\ Pointers(p) \cap {a.start : a \in leaked} = {}
               /\ \A r \in Running \ {p} : Pointers(p) \cap Pointers(r) = {}
    <3>1. \A r \in Running \ {p} : Held(r) \cap Held(p) = {}
      BY <2>3 DEF Others
    <3>2. \A a, b \in live : a.start = b.start => a = b
      BY StartsDiffer DEF IInv
    <3>3. Pointers(p) \cap {a.start : a \in leaked} = {}
      BY <2>1, <2>2, <2>4, <3>2
    <3>4. ASSUME NEW r \in Running \ {p}
          PROVE  Pointers(p) \cap Pointers(r) = {}
      <4>1. Held(r) \cap Held(p) = {} /\ Held(r) \in SUBSET live /\ Held(p) \in SUBSET live
        BY <2>1, <3>1
      <4>2. Pointers(p) = {a.start : a \in Held(p)} /\ Pointers(r) = {a.start : a \in Held(r)}
        BY <2>1
      <4> QED
        BY <3>2, <4>1, <4>2
    <3> QED
      BY <3>3, <3>4
  <2>7. \A p \in Running : Cardinality(Pointers(p)) = Cardinality(Taken(p)) + 3
    BY PointersDiffer
  <2> QED
    BY <2>2, <2>5, <2>6, <2>7 DEF HeapIsOwned
<1> QED
  BY <1>1, ProcMemInductive, PTL

(* The directory of a process that runs. *)
LEMMA DirectoryOf ==
    ASSUME IInv, NEW p \in Running
    PROVE  /\ mem[p] \in Memory /\ dir[p] \in Directory
           /\ \A v \in VPage \ Frame :
                 dir[p][v] = process_map_memory(mem[p].program, mem[p].image, mem[p].stack)[v]
           /\ IsProcessMap(process_map_memory(mem[p].program, mem[p].image, mem[p].stack),
                           mem[p].program, mem[p].image, mem[p].stack)
           /\ \A v \in Frame :
                 /\ dir[p][v].frame = v
                 /\ dir[p][v].flags = ReadWrite <=> v \in Allocated(p)
           /\ Allocated(p) \in SUBSET Frame
<1>1. Good(Of(p), mem[p], Others(p)) /\ Of(p).dir = dir[p] /\ Of(p).slots = allocations[p]
      /\ p \in Process /\ mem[p] \in Memory
  BY RunningFacts DEF IInv
<1>2. DirInv(mem[p], allocations[p], dir[p])
  BY <1>1 DEF Good
<1>3. IsProcessMap(process_map_memory(mem[p].program, mem[p].image, mem[p].stack),
                   mem[p].program, mem[p].image, mem[p].stack)
  <2>1. mem[p].program \in Programs /\ mem[p].image \in Block /\ mem[p].stack \in Block
    BY <1>1 DEF Memory
  <2> QED
    BY <2>1, MapMemory
<1>4. dir[p] \in Directory
  BY <1>1 DEF IInv
<1>5. Taken(p) = Used(allocations[p])
  BY DEF Taken, Used
<1>6. \A i \in Taken(p) :
         /\ Slot(allocations[p][i]) \in InSlots(allocations[p])
         /\ Run(allocations[p][i].ptr, allocations[p][i].size) = Blocks(Slot(allocations[p][i]))
         /\ Blocks(Slot(allocations[p][i])) \in SUBSET Frame
  <2>1. SUFFICES ASSUME NEW i \in Taken(p)
                 PROVE  /\ Slot(allocations[p][i]) \in InSlots(allocations[p])
                        /\ Run(allocations[p][i].ptr, allocations[p][i].size) = Blocks(Slot(allocations[p][i]))
                        /\ Blocks(Slot(allocations[p][i])) \in SUBSET Frame
    OBVIOUS
  <2>2. /\ Slot(allocations[p][i]) \in InSlots(allocations[p])
        /\ Slot(allocations[p][i]) \in Allocation
        /\ Slot(allocations[p][i]).start = allocations[p][i].ptr
        /\ Slot(allocations[p][i]).size = allocations[p][i].size
    BY <1>1, <1>5, SlotsAreLive
  <2> QED
    BY <2>2, AllocationFits DEF Blocks
<1>7. \A v : v \in Allocated(p) <=> \E a \in InSlots(allocations[p]) : v \in Blocks(a)
  BY <1>5, <1>6 DEF Allocated, InSlots
<1>8. Allocated(p) \in SUBSET Frame
  BY <1>6 DEF Allocated
<1> QED
  BY <1>1, <1>2, <1>3, <1>4, <1>7, <1>8 DEF DirInv

(* A run of pages mapped to a run of frames. *)
LEMMA RunsMove ==
    ASSUME NEW x \in Int, NEW y \in Int, NEW n \in Int
    PROVE  {x + (v - y) : v \in Run(y, n)} = Run(x, n)
<1>1. \A v \in Run(y, n) : x + (v - y) \in Run(x, n)
  BY DEF Run
<1>2. \A u \in Run(x, n) : y + (u - x) \in Run(y, n) /\ u = x + ((y + (u - x)) - y)
  BY DEF Run
<1> QED
  BY <1>1, <1>2

(* Data, of a program and where its file is. *)
FileData(g, image) ==
    IF g.kind = "bin" THEN Run(image, Pages(g.size))
    ELSE UNION {{image + f : f \in (g.phdrs[i].p_offset \div PageSize) ..
                                   ((g.phdrs[i].p_offset + g.phdrs[i].p_memsz - 1) \div PageSize)} :
                i \in {i \in Segments(g) : g.phdrs[i].p_flags = "W"}}

(* The frames of the writeable pages of a program file are its data. *)
LEMMA DataIsWriteable ==
    ASSUME NEW g \in Programs, NEW image \in Block, NEW e, NEW stack, IsProcessMap(e, g, image, stack)
    PROVE  {e[v].frame : v \in {v \in FilePages(g) : e[v].flags = ReadWrite}} =
             FileData(g, image)
<1> DEFINE W == {e[v].frame : v \in {v \in FilePages(g) : e[v].flags = ReadWrite}}
<1>0. image \in Int /\ ProgramPage \in Int
  BY SizesFit DEF Block, ProgramPage
<1>1. CASE g.kind = "bin"
  <2>1. FilePages(g) = Run(ProgramPage, Pages(g.size)) /\ Pages(g.size) \in Int
    <3>1. FilePages(g) = Run(ProgramPage, Pages(g.size))
      BY <1>1 DEF FilePages
    <3>2. Pages(g.size) \in Sizes
      BY ProgramFacts
    <3>3. \A z \in Sizes : z \in Int
      BY SizesFit
    <3> QED
      BY <3>1, <3>2, <3>3, Zenon
  <2>2. \A v \in FilePages(g) : e[v].frame = image + (v - ProgramPage) /\ e[v].flags = ReadWrite
    <3>1. \A v \in FilePages(g) : e[v] = [frame |-> image + (v - ProgramPage), flags |-> ReadWrite]
      BY <1>1 DEF IsProcessMap
    <3>2. SUFFICES ASSUME NEW v \in FilePages(g)
                   PROVE  e[v].frame = image + (v - ProgramPage) /\ e[v].flags = ReadWrite
      OBVIOUS
    <3>3. e[v] = [frame |-> image + (v - ProgramPage), flags |-> ReadWrite]
      BY <3>1
    <3> HIDE <3>1
    <3> QED
      BY <3>3
  <2>3. W = {image + (v - ProgramPage) : v \in Run(ProgramPage, Pages(g.size))}
    BY <2>1, <2>2
  <2>4. W = Run(image, Pages(g.size))
    BY <1>0, <2>1, <2>3, RunsMove
  <2> QED
    BY <1>1, <2>4 DEF FileData
<1>2. CASE g.kind # "bin"
  <2> DEFINE b(i) == g.phdrs[i].p_offset \div PageSize
             a(i) == g.phdrs[i].p_vaddr \div PageSize
             n(i) == HeaderPages(g.phdrs[i])
             F(i) == {image + f : f \in (g.phdrs[i].p_offset \div PageSize) ..
                                     ((g.phdrs[i].p_offset + g.phdrs[i].p_memsz - 1) \div PageSize)}
             E(i) == {e[v].frame : v \in PageRange(g.phdrs[i])}
  <2>1. FilePages(g) = UNION {PageRange(g.phdrs[i]) : i \in Segments(g)}
    BY <1>2 DEF FilePages
  <2>2. ASSUME NEW i \in Segments(g)
        PROVE  /\ F(i) = E(i)
               /\ \A v \in PageRange(g.phdrs[i]) : e[v].flags = ReadWrite <=> g.phdrs[i].p_flags = "W"
    <3>1. \A v \in PageRange(g.phdrs[i]) :
            e[v].frame = image + b(i) + (v - a(i)) /\ e[v].flags = HeaderFlags(g.phdrs[i])
      <4>1. SUFFICES ASSUME NEW v \in PageRange(g.phdrs[i])
                     PROVE  e[v].frame = image + b(i) + (v - a(i)) /\ e[v].flags = HeaderFlags(g.phdrs[i])
        OBVIOUS
      <4>2. e[v] = Entry(g, image, i, v)
        BY <1>2 DEF IsProcessMap
      <4> QED
        BY <4>2 DEF Entry
    <3>2. /\ PageRange(g.phdrs[i]) = Run(a(i), n(i))
          /\ (g.phdrs[i].p_offset + g.phdrs[i].p_memsz - 1) \div PageSize = b(i) + n(i) - 1
          /\ a(i) \in Nat /\ b(i) \in Nat /\ n(i) \in Nat
      <4>1. /\ g.phdrs[i] \in ProgramHeader
            /\ g.phdrs[i].p_vaddr % PageSize = g.phdrs[i].p_offset % PageSize
        BY SegmentFits
      <4>2. /\ PageRange(g.phdrs[i]) = Run(a(i), n(i))
            /\ (g.phdrs[i].p_offset + g.phdrs[i].p_memsz - 1) \div PageSize = b(i) + n(i) - 1
        BY <4>1, SegmentPages
      <4>3. n(i) \in Nat
        BY <4>1, HeaderMaps, SizesFit DEF Block
      <4>4. g.phdrs[i].p_offset \in Nat /\ g.phdrs[i].p_vaddr \in Nat
        BY <4>1 DEF ProgramHeader
      <4>5. a(i) \in Nat /\ b(i) \in Nat
        BY <4>4, Aligned
      <4> QED
        BY <4>2, <4>3, <4>5
    <3>3. F(i) = {image + f : f \in b(i) .. (b(i) + n(i) - 1)}
      BY <3>2
    <3> HIDE DEF a, b, n, F
    <3>4. F(i) = Run(image + b(i), n(i))
      <4>1. \A f \in b(i) .. (b(i) + n(i) - 1) : image + f \in Run(image + b(i), n(i))
        BY <1>0, <3>2 DEF Run
      <4>2. \A u \in Run(image + b(i), n(i)) : u - image \in b(i) .. (b(i) + n(i) - 1) /\ u = image + (u - image)
        BY <1>0, <3>2 DEF Run
      <4> QED
        BY <3>3, <4>1, <4>2
    <3>5. {(image + b(i)) + (v - a(i)) : v \in Run(a(i), n(i))} = Run(image + b(i), n(i))
      <4>1. image + b(i) \in Int /\ a(i) \in Int /\ n(i) \in Int
        BY <1>0, <3>2
      <4> QED
        BY <4>1, RunsMove
    <3>6. E(i) = {(image + b(i)) + (v - a(i)) : v \in Run(a(i), n(i))}
      BY <3>1, <3>2
    <3>7. HeaderFlags(g.phdrs[i]) = ReadWrite <=> g.phdrs[i].p_flags = "W"
      BY FlagsDiffer DEF HeaderFlags
    <3> QED
      BY <3>1, <3>4, <3>5, <3>6, <3>7
  <2> HIDE DEF F
  <2>3. W = UNION {E(i) : i \in {i \in Segments(g) : g.phdrs[i].p_flags = "W"}}
    BY <2>1, <2>2
  <2>4. W = UNION {F(i) : i \in {i \in Segments(g) : g.phdrs[i].p_flags = "W"}}
    <3> HIDE DEF W, E
    <3> QED
      BY <2>2, <2>3
  <2> QED
    BY <1>2, <2>4 DEF F, FileData
<1> QED
  BY <1>1, <1>2

(* A process can write its stack, what it has allocated and the data of    *)
(* its program, and no other frame.                                        *)
THEOREM WriteableStaysOwned == Spec => []WriteableIsOwned
<1>1. IInv => WriteableIsOwned
  <2> SUFFICES ASSUME IInv, NEW p \in Running
               PROVE  Writeable(p) = Stack(p) \cup Allocated(p) \cup Data(p)
    BY DEF WriteableIsOwned
  <2> DEFINE g == mem[p].program
             image == mem[p].image
             stack == mem[p].stack
             e == process_map_memory(g, image, stack)
             Frames(S) == {dir[p][v].frame : v \in {v \in S : dir[p][v].flags = ReadWrite}}
             rest == VPage \ (Frame \cup FilePages(g) \cup Run(StackPage, StackSize))
  <2>1. /\ mem[p] \in Memory /\ dir[p] \in Directory
        /\ \A v \in VPage \ Frame : dir[p][v] = e[v]
        /\ IsProcessMap(e, g, image, stack)
        /\ \A v \in Frame : dir[p][v].frame = v /\ (dir[p][v].flags = ReadWrite <=> v \in Allocated(p))
        /\ Allocated(p) \in SUBSET Frame
    BY DirectoryOf
  <2>2. g \in Programs /\ image \in Block /\ stack \in Block
    BY <2>1 DEF Memory
  <2> HIDE DEF g, image, stack, e
  <2>3. /\ Frame \cap FilePages(g) = {} /\ Frame \cap Run(StackPage, StackSize) = {}
        /\ Frame \in SUBSET VPage /\ FilePages(g) \in SUBSET VPage /\ Run(StackPage, StackSize) \in SUBSET VPage
    BY <2>1, PagesOfProgram DEF IsProcessMap
  <2>4. Frames(Frame) = Allocated(p)
    BY <2>1
  <2>5. Frames(FilePages(g)) = Data(p)
    <3>1. \A v \in FilePages(g) : dir[p][v] = e[v]
      BY <2>1, <2>3
    <3>2. Frames(FilePages(g)) = {e[v].frame : v \in {v \in FilePages(g) : e[v].flags = ReadWrite}}
      BY <3>1
    <3>3. Data(p) = FileData(g, image)
      BY DEF Data, FileData, g, image
    <3> QED
      BY <2>1, <2>2, <3>2, <3>3, DataIsWriteable
  <2>6. Frames(Run(StackPage, StackSize)) = Stack(p)
    <3>1. \A v \in Run(StackPage, StackSize) :
            dir[p][v].frame = stack + (v - StackPage) /\ dir[p][v].flags = ReadWrite
      <4>1. SUFFICES ASSUME NEW v \in Run(StackPage, StackSize)
                     PROVE  dir[p][v].frame = stack + (v - StackPage) /\ dir[p][v].flags = ReadWrite
        OBVIOUS
      <4>2. dir[p][v] = [frame |-> stack + (v - StackPage), flags |-> ReadWrite]
        BY <2>1, <2>3 DEF IsProcessMap
      <4> QED
        BY <4>2
    <3>2. Frames(Run(StackPage, StackSize)) = {stack + (v - StackPage) : v \in Run(StackPage, StackSize)}
      BY <3>1
    <3>3. stack \in Int /\ StackPage \in Int /\ StackSize \in Int
      BY <2>2, SizesFit, PagesOfProgram DEF Block
    <3>4. Frames(Run(StackPage, StackSize)) = Run(stack, StackSize)
      BY <3>2, <3>3, RunsMove
    <3> QED
      BY <3>4 DEF Stack, stack
  <2>7. Frames(rest) = {}
    <3>1. SUFFICES ASSUME NEW v \in rest
                   PROVE  dir[p][v].flags # ReadWrite
      OBVIOUS
    <3>2. dir[p][v] = [frame |-> v, flags |-> ReadOnly]
      BY <2>1 DEF IsProcessMap
    <3>3. dir[p][v].flags = ReadOnly
      BY <3>2
    <3> QED
      BY <3>3, FlagsDiffer
  <2>8. VPage = Frame \cup FilePages(g) \cup Run(StackPage, StackSize) \cup rest
    BY <2>3
  <2>9. Writeable(p) = Frames(VPage)
    BY DEF Writeable
  <2> HIDE DEF rest
  <2>10. Frames(VPage) = Frames(Frame) \cup Frames(FilePages(g)) \cup Frames(Run(StackPage, StackSize))
                           \cup Frames(rest)
    BY <2>8
  <2> HIDE DEF Frames
  <2> QED
    BY <2>4, <2>5, <2>6, <2>7, <2>9, <2>10
<1> QED
  BY <1>1, ProcMemInductive, PTL

(* Pages mapped from a on to frames from b on, seen byte by byte. *)
LEMMA BytesMove ==
    ASSUME NEW a \in Int, NEW b \in Int, NEW x \in Nat
    PROVE  /\ (a * PageSize + x) \div PageSize = a + (x \div PageSize)
           /\ (b + (x \div PageSize)) * PageSize + ((a * PageSize + x) % PageSize) = b * PageSize + x
<1> DEFINE q == x \div PageSize
           r == x % PageSize
<1>0. PageSize \in Nat \ {0}
  BY ElfAssumption
<1>1. q \in Nat /\ r \in Nat /\ x = q * PageSize + r
  BY <1>0, Aligned
<1>2. (a * PageSize + x) \div PageSize = a + q /\ (a * PageSize + x) % PageSize = r
  <2>1. x \in Int
    OBVIOUS
  <2> QED
    BY <1>0, <2>1, Shifted, Zenon
<1> HIDE DEF q, r
<1>3. (b + q) * PageSize + r = b * PageSize + x
  <2>1. (b + q) * PageSize = b * PageSize + q * PageSize /\ b * PageSize \in Int /\ q * PageSize \in Int
    BY <1>0, <1>1
  <2> QED
    BY <1>1, <2>1
<1> QED
  BY <1>2, <1>3 DEF q

(* As long as a process runs, every address of its program is mapped to    *)
(* the byte of the file that belongs there.                                *)
THEOREM ProgramStaysMapped == Spec => []ProgramIsMapped
<1>1. IInv => ProgramIsMapped
  <2> SUFFICES ASSUME IInv, NEW p \in Running
               PROVE  LET g == mem[p].program
                          addr == mem[p].image * PageSize
                          Maps(virt, offset, n) ==
                              \A k \in 0 .. (n - 1) :
                                  /\ paging_get_phys_addr(dir[p], virt + k) = addr + offset + k
                                  /\ "PRESENT" \in dir[p][(virt + k) \div PageSize].flags
                      IN  IF g.kind = "bin" THEN Maps(ProgramAddr, 0, g.size)
                          ELSE \A i \in Segments(g) :
                                  Maps(g.phdrs[i].p_vaddr, g.phdrs[i].p_offset, g.phdrs[i].p_memsz)
    BY DEF ProgramIsMapped
  <2> DEFINE g == mem[p].program
             image == mem[p].image
             addr == image * PageSize
             e == process_map_memory(g, image, mem[p].stack)
             d == dir[p]
             Maps(virt, offset, n) ==
                 \A k \in 0 .. (n - 1) :
                     /\ paging_get_phys_addr(d, virt + k) = addr + offset + k
                     /\ "PRESENT" \in d[(virt + k) \div PageSize].flags
  <2>1. /\ mem[p] \in Memory /\ IsProcessMap(e, g, image, mem[p].stack)
        /\ \A v \in VPage \ Frame : d[v] = e[v]
    BY DirectoryOf
  <2>2. g \in Programs /\ image \in Block /\ image \in Nat
    BY <2>1, SizesFit DEF Memory, Block
  <2> HIDE DEF g, image, e, d
  <2>3. \A v \in FilePages(g) : d[v] = e[v]
    BY <2>1, PagesOfProgram DEF IsProcessMap
  <2>4. PageSize \in Nat \ {0} /\ Top \in Nat /\ ProgramPage = Top /\ g.size \in Nat \ {0} /\ addr \in Nat
    BY <2>2, ElfAssumption, SizesFit, ProgramFacts, PagesOfProgram
  <2>5. "PRESENT" \in ReadOnly /\ "PRESENT" \in ReadWrite
    BY DEF ReadOnly, ReadWrite
  <2>6. ASSUME g.kind = "bin", NEW k \in 0 .. (g.size - 1)
        PROVE  /\ paging_get_phys_addr(d, ProgramAddr + k) = addr + 0 + k
               /\ "PRESENT" \in d[(ProgramAddr + k) \div PageSize].flags
    <3> DEFINE q == k \div PageSize
    <3>1. k \in Nat /\ Pages(g.size) \in Nat
      <4>1. k \in Nat
        BY <2>4
      <4>2. Pages(g.size) \in Nat
        BY <2>4, Aligned
      <4> QED
        BY <4>1, <4>2
    <3>2. q \in Nat
      BY <3>1, Aligned
    <3>3. q =< Pages(g.size) - 1
      <4>1. k =< g.size - 1 /\ g.size - 1 \in Nat
        BY <2>4
      <4>2. PICK y \in Nat : y = g.size
        BY <2>4
      <4>3. (y - 1) \div PageSize = Pages(y) - 1
        BY Aligned
      <4>4. k \div PageSize =< (y - 1) \div PageSize
        BY <2>4, <3>1, <4>1, <4>2
      <4> QED
        BY <4>2, <4>3, <4>4
    <3> HIDE DEF q
    <3>4. ProgramPage + q \in FilePages(g)
      <4>1. FilePages(g) = Run(ProgramPage, Pages(g.size))
        BY <2>6 DEF FilePages
      <4> QED
        BY <2>4, <3>1, <3>2, <3>3, <4>1 DEF Run
    <3>5. d[ProgramPage + q] = [frame |-> image + q, flags |-> ReadWrite]
      <4>1. d[ProgramPage + q] = [frame |-> image + ((ProgramPage + q) - ProgramPage), flags |-> ReadWrite]
        BY <2>1, <2>3, <2>6, <3>4 DEF IsProcessMap
      <4>2. (ProgramPage + q) - ProgramPage = q
        BY <2>4, <3>2
      <4> QED
        BY <4>1, <4>2
    <3>6. /\ paging_get_phys_addr(d, ProgramPage * PageSize + k) = image * PageSize + k
          /\ d[(ProgramPage * PageSize + k) \div PageSize].flags = ReadWrite
      <4>1. ProgramPage \in Int /\ image \in Int
        BY <2>2, <2>4
      <4>2. d[ProgramPage + q].frame = image + q /\ d[ProgramPage + q].flags = ReadWrite
        BY <3>5
      <4>3. /\ (ProgramPage * PageSize + k) \div PageSize = ProgramPage + q
            /\ (image + q) * PageSize + ((ProgramPage * PageSize + k) % PageSize) = image * PageSize + k
        BY <3>1, <4>1, BytesMove, Zenon DEF q
      <4> QED
        BY <4>2, <4>3, Zenon DEF paging_get_phys_addr
    <3>7. addr + 0 + k = image * PageSize + k
      BY <2>4, <3>1
    <3> HIDE DEF addr
    <3> QED
      BY <2>5, <3>6, <3>7 DEF ProgramAddr
  <2>7. ASSUME g.kind # "bin", NEW i \in Segments(g), NEW k \in 0 .. (g.phdrs[i].p_memsz - 1)
        PROVE  /\ paging_get_phys_addr(d, g.phdrs[i].p_vaddr + k) = addr + g.phdrs[i].p_offset + k
               /\ "PRESENT" \in d[(g.phdrs[i].p_vaddr + k) \div PageSize].flags
    <3> DEFINE phdr == g.phdrs[i]
               a == phdr.p_vaddr \div PageSize
               b == phdr.p_offset \div PageSize
               j == phdr.p_offset % PageSize
               x == j + k
               q == x \div PageSize
               v == a + q
    <3>1. phdr \in ProgramHeader /\ phdr.p_vaddr % PageSize = j
      BY <2>2, SegmentFits
    <3>2. phdr.p_vaddr \in Nat /\ phdr.p_offset \in Nat /\ phdr.p_memsz \in Nat /\ k \in Nat
      BY <3>1 DEF ProgramHeader
    <3>3. /\ a \in Nat /\ b \in Nat /\ j \in Nat
          /\ phdr.p_vaddr = a * PageSize + j /\ phdr.p_offset = b * PageSize + j
      <4>1. /\ a \in Nat /\ phdr.p_vaddr = a * PageSize + (phdr.p_vaddr % PageSize)
            /\ b \in Nat /\ phdr.p_offset = b * PageSize + j /\ j \in 0 .. (PageSize - 1)
        BY <3>2, Aligned, Zenon
      <4>2. j \in Nat
        BY <2>4, <4>1
      <4> HIDE DEF phdr, a, b, j
      <4> QED
        BY <3>1, <4>1, <4>2
    <3> HIDE DEF phdr, a, b, j
    <3>4. x \in Nat /\ q \in Nat
      BY <3>2, <3>3, Aligned
    <3> HIDE DEF x, q
    <3>5. a * PageSize \in Nat /\ b * PageSize \in Nat
      BY <2>4, <3>3
    <3>6. phdr.p_vaddr + k = a * PageSize + x /\ phdr.p_offset + k = b * PageSize + x
      BY <3>2, <3>3, <3>5 DEF x
    <3>7. v = (phdr.p_vaddr + k) \div PageSize
      <4>1. (a * PageSize + x) \div PageSize = a + (x \div PageSize)
        BY <2>4, <3>3, <3>4, Shifted
      <4> QED
        BY <3>6, <4>1 DEF q
    <3>8. v \in PageRange(phdr)
      <4>1. a =< v /\ v \in Int /\ a \in Int
        BY <3>3, <3>4
      <4>2. PICK y \in Int, z \in Int : y = phdr.p_vaddr + k /\ z = phdr.p_vaddr + phdr.p_memsz - 1
        BY <3>2
      <4>3. y =< z
        BY <2>7, <3>2, <4>2 DEF phdr
      <4>4. y \div PageSize =< z \div PageSize /\ z \div PageSize \in Int
        BY <2>4, <4>3
      <4>5. v =< z \div PageSize
        BY <3>7, <4>2, <4>4
      <4>6. PageRange(phdr) = a .. (z \div PageSize)
        BY <4>2 DEF PageRange, a
      <4> QED
        BY <4>1, <4>4, <4>5, <4>6
    <3>9. v \in FilePages(g)
      BY <2>7, <3>8 DEF FilePages, phdr
    <3>10. d[v] = [frame |-> (image + b) + q, flags |-> HeaderFlags(phdr)]
      <4>1. d[v] = Entry(g, image, i, v)
        BY <2>1, <2>3, <2>7, <3>8, <3>9 DEF IsProcessMap, phdr
      <4>2. Entry(g, image, i, v) = [frame |-> image + b + (v - a), flags |-> HeaderFlags(phdr)]
        BY DEF Entry, phdr, a, b
      <4>3. image + b + (v - a) = (image + b) + q
        BY <2>2, <3>3, <3>4
      <4> QED
        BY <4>1, <4>2, <4>3, Zenon
    <3>11. /\ paging_get_phys_addr(d, a * PageSize + x) = (image + b) * PageSize + x
           /\ d[(a * PageSize + x) \div PageSize].flags = HeaderFlags(phdr)
      <4>1. a \in Int /\ image + b \in Int
        BY <2>2, <3>3
      <4>2. d[a + q].frame = (image + b) + q /\ d[a + q].flags = HeaderFlags(phdr)
        BY <3>10 DEF v
      <4>3. /\ (a * PageSize + x) \div PageSize = a + q
            /\ ((image + b) + q) * PageSize + ((a * PageSize + x) % PageSize) = (image + b) * PageSize + x
        BY <3>4, <4>1, BytesMove, Zenon DEF q
      <4> QED
        BY <4>2, <4>3, Zenon DEF paging_get_phys_addr
    <3>12. (image + b) * PageSize + x = addr + phdr.p_offset + k
      <4>1. (image + b) * PageSize = addr + b * PageSize
        BY <2>2, <2>4, <3>3
      <4> HIDE DEF addr
      <4> QED
        BY <2>4, <3>2, <3>4, <3>5, <3>6, <4>1
    <3>13. "PRESENT" \in HeaderFlags(phdr)
      BY <2>5 DEF HeaderFlags
    <3> HIDE DEF addr
    <3> QED
      BY <3>6, <3>11, <3>12, <3>13 DEF phdr
  <2>8. g.kind = "bin" => Maps(ProgramAddr, 0, g.size)
    BY <2>6
  <2>9. g.kind # "bin" =>
          \A i \in Segments(g) : Maps(g.phdrs[i].p_vaddr, g.phdrs[i].p_offset, g.phdrs[i].p_memsz)
    BY <2>7
  <2> QED
    BY <2>8, <2>9 DEF g, image, d
<1> QED
  BY <1>1, ProcMemInductive, PTL

=============================================================================
