------------------------------ MODULE ProcMem ------------------------------
(***************************************************************************)
(* The memory of processes: process_malloc(), process_free(), argument     *)
(* injection, program images and stacks (kernel/task/process.c), the page  *)
(* directories they are mapped in (kernel/memory/paging.c), and the buffer *)
(* of copy_str_from_task() (kernel/task/task.c), all on one kernel heap,   *)
(* whose search is Heap's.                                                 *)
(*                                                                         *)
(* A frame is a block of the heap; blocks and pages have the same size.    *)
(* Virtual pages below Top are the heap's, which every directory maps to   *)
(* themselves; above them are the pages of the program and of its stack.   *)
(* Programs are mapped by Elf, byte by byte; everything else is in pages.  *)
(* The tables of a directory, its struct and the task are one allocation;  *)
(* so is what a call of fopen() leaves on the heap, and so are the struct  *)
(* of an ELF file and its contents.                                        *)
(***************************************************************************)
EXTENDS Elf, FiniteSetsExt

CONSTANTS
    Process,    \* processes
    Length,     \* blocks of the heap
    MaxAllocs,  \* ENKI_MAX_PGM_ALLOCATIONS
    StackSize,  \* ENKI_USER_PGM_STACK_SIZE, in pages
    ProcSize,   \* sizeof(struct process), in blocks
    Programs,   \* program files: see Elf
    Span,       \* pages of a program's addresses
    Requests,   \* pages user programs ask for
    MaxArgs,    \* bound: arguments of a command
    MaxLeaked   \* bound: no string is copied when so many allocations are lost

ASSUME ProcMemAssumption ==
    /\ Length \in Nat \ {0} /\ MaxAllocs \in Nat \ {0} /\ StackSize \in Nat \ {0}
    /\ ProcSize \in Nat \ {0}
    /\ Requests \subseteq Nat \ {0} /\ IsFiniteSet(Requests)
    /\ MaxArgs \in Nat \ {0} /\ MaxLeaked \in Nat /\ Span \in Nat

VARIABLES
    live,         \* the heap's allocations: first block, and size in blocks
    allocations,  \* proc->allocations
    mem,          \* proc->addr, proc->stack and proc->task->page_dir, or Dead
    dir,          \* the page directory of each process
    leaked        \* history: the allocations that nobody has a pointer to

vars == <<live, allocations, mem, dir, leaked>>

NULL == -1
Dead == [image |-> NULL, program |-> NULL, stack |-> NULL, page_dir |-> NULL]

ImageSizes == {Pages(g.size) : g \in Programs}

Top == Length + Max(ImageSizes \cup Requests \cup {StackSize, ProcSize})
Frame == 0 .. (Top - 1)
ProgramPage == Top                                    \* ENKI_PGM_VIRT_ADDR
StackPage == ProgramPage + Span                       \* ENKI_PGM_VIRT_STACK_ADDR_END
VPage == 0 .. (StackPage + StackSize - 1)
AllocIndex == 1 .. MaxAllocs
NoAlloc == [ptr |-> NULL, size |-> 0]

Running == {p \in Process : mem[p] # Dead}

ProgramAddr == ProgramPage * PageSize

ASSUME ProgramsAssumption ==
    \A g \in Programs : Pages(g.size) <= Span /\ IsProgram(g, ProgramAddr, StackPage * PageSize)

-----------------------------------------------------------------------------
(* The heap *)

H == INSTANCE Heap WITH
        BlockSize <- 1, Base <- 2, WordSize <- 2, Sizes <- {}, entries <- <<>>, ret <- NULL

Table(heap) ==
    [i \in 0 .. (Length - 1) |->
        IF \E a \in heap : i \in Run(a.start, a.size) THEN {"TAKEN"} ELSE H!FREE]

(* Mutant: the error code is returned as a pointer. *)
ErrorIsPointer(heap, n) == H!heap_get_start_block(Table(heap), n)

kzalloc(heap, n) ==
    LET start == H!heap_get_start_block(Table(heap), n)
    IN  IF start < 0 THEN NULL ELSE start

Alloc(ptr, n) == [start |-> ptr, size |-> n]

With(heap, ptr, n) == heap \cup {Alloc(ptr, n)}

kfree(heap, ptr) == {a \in heap : a.start # ptr}

(* One kzalloc() after another: the heap, all they took, the last pointer. *)
Take(s, n) ==
    LET ptr == kzalloc(s.heap, n)
    IN  [heap |-> With(s.heap, ptr, n), taken |-> s.taken \cup {Alloc(ptr, n)}, ptr |-> ptr]

HasRoom(s) == \A a \in s.taken : a.start # NULL

-----------------------------------------------------------------------------
(* Page directories *)

paging_new(flags) == [v \in VPage |-> [frame |-> v, flags |-> flags]]

-----------------------------------------------------------------------------
(* The operations, on what they change of a process: the heap, the table   *)
(* of allocations and the directory.  ptr is what they return.             *)

State(heap, slots, d, ptr) == [heap |-> heap, slots |-> slots, dir |-> d, ptr |-> ptr]

process_malloc(s, n) ==
    LET ptr == kzalloc(s.heap, n)
        idx == {i \in AllocIndex : s.slots[i].ptr = NULL}
    IN  IF ptr = NULL \/ idx = {}
        THEN [s EXCEPT !.ptr = NULL]
        ELSE State(With(s.heap, ptr, n),
                   [s.slots EXCEPT ![Min(idx)] = [ptr |-> ptr, size |-> n]],
                   paging_map_range(s.dir, ptr, ptr, n, ReadWrite),
                   ptr)

(* Mutant: the pointer is freed, whoever it belongs to. *)
FreeAnything(s, ptr) ==
    State(kfree(s.heap, ptr), s.slots,
          IF ptr = NULL THEN s.dir ELSE paging_map_range(s.dir, ptr, ptr, 1, {}), NULL)

(* NULL is found in an empty slot, of size 0; kfree(NULL) is harmless (see *)
(* Heap).                                                                  *)
process_free(s, ptr) ==
    LET own == {i \in AllocIndex : s.slots[i].ptr = ptr}
    IN  IF own = {} THEN s
        ELSE State(kfree(s.heap, ptr),
                   [i \in AllocIndex |-> IF i \in own THEN NoAlloc ELSE s.slots[i]],
                   paging_map_range(s.dir, ptr, ptr, s.slots[Min(own)].size, {}),
                   NULL)

(* argv, then one string after the other; the first failure ends it, and   *)
(* what has been allocated stays.                                          *)
process_inject_args(s, argc) ==
    LET Inject[i \in 0 .. argc] ==
            IF i = 0 THEN process_malloc(s, 1)
            ELSE IF Inject[i - 1].ptr = NULL THEN Inject[i - 1]
            ELSE process_malloc(Inject[i - 1], 1)
    IN  Inject[argc]

process_free_allocations(s) ==
    LET FreeFirst[i \in 0 .. MaxAllocs] ==
            IF i = 0 THEN s ELSE process_free(FreeFirst[i - 1], FreeFirst[i - 1].slots[i].ptr)
    IN  FreeFirst[MaxAllocs]

(* Mutant: the entry of the buffer's page is not restored. *)
CopyKeepsEntry(d, tmp) == paging_map_range(d, tmp, tmp, 1, ReadWrite)

(* The buffer's page is writeable during the copy.                         *)
CopyThrough(d, tmp) ==
    LET old_entry == d[tmp]
    IN  [paging_map_range(d, tmp, tmp, 1, ReadWrite) EXCEPT ![tmp] = old_entry]

-----------------------------------------------------------------------------
Init ==
    /\ live = {}
    /\ allocations = [p \in Process |-> [i \in AllocIndex |-> NoAlloc]]
    /\ mem = [p \in Process |-> Dead]
    /\ dir = [p \in Process |-> paging_new({})]
    /\ leaked = {}

Set(p, s) ==
    /\ live' = s.heap
    /\ allocations' = [allocations EXCEPT ![p] = s.slots]
    /\ dir' = [dir EXCEPT ![p] = s.dir]

Of(p) == State(live, allocations[p], dir[p], NULL)

process_map_memory(program, image, stack) ==
    LET d == paging_new(ReadOnly)
        addr == image * PageSize
    IN  paging_map_range(IF program.kind = "bin"
                         THEN process_map_bin(d, program, addr, ProgramAddr)
                         ELSE process_map_elf(d, program, addr),
                         StackPage, stack, StackSize, ReadWrite)

(* struct process *)
LoadProc == Take([heap |-> live, taken |-> {}, ptr |-> NULL], ProcSize)

(* What elf_load() takes, fopen() and the contents of the file; and what   *)
(* process_load_bin() takes after it, for a file that is none for ELF.     *)
elf_load(s, program) == Take(Take(s, 1), Pages(program.size))
process_load_bin(s, program) == Take(Take(s, 1), Pages(program.size))

process_load_data(s, program) ==
    IF program.kind = "elf" THEN elf_load(s, program)
    ELSE process_load_bin(elf_load(s, program), program)

(* process_load_slot() on a heap that has room for it, then argc arguments *)
(* if there are any.  Whether they fit or not, the process is there.  What *)
(* was taken and is not the program, the stack or the task is never freed. *)
Load(p, program, argc) ==
    LET data == process_load_data(LoadProc, program)
        stack == Take(data, StackSize)
        task == Take(stack, 1)
        s == State(task.heap, [i \in AllocIndex |-> NoAlloc],
                   process_map_memory(program, data.ptr, stack.ptr), NULL)
    IN  /\ p \notin Running
        /\ HasRoom(task)
        /\ mem' = [mem EXCEPT ![p] = [image |-> data.ptr, program |-> program,
                                     stack |-> stack.ptr, page_dir |-> task.ptr]]
        /\ Set(p, IF argc = 0 THEN s ELSE process_inject_args(s, argc))
        /\ leaked' = leaked \cup (data.taken \ {Alloc(data.ptr, Pages(program.size))})

(* process_load_slot() fails: there is no file, it cannot be read, or      *)
(* there is no room for its data, for the stack or for the task.           *)
(* process_terminate() then frees what the process has, program and stack; *)
(* the process itself, and what the loaders took so far, is lost.  That    *)
(* task_free(NULL) lets the kernel live is assumed here: see Processes.    *)
LoadFails(program) ==
    LET opened == Take(LoadProc, 1)
        copied == elf_load(LoadProc, program)
        reopened == Take(copied, 1)
    IN  \E s \in {opened, copied} \cup (IF program.kind = "elf" THEN {} ELSE {reopened}) :
            /\ HasRoom(s)
            /\ live' = s.heap
            /\ leaked' = leaked \cup s.taken
            /\ UNCHANGED <<allocations, mem, dir>>

Malloc(p, n) ==
    /\ p \in Running
    /\ Set(p, process_malloc(Of(p), n))
    /\ UNCHANGED <<mem, leaked>>

(* A program may hand any address to free(). *)
Free(p, ptr) ==
    /\ p \in Running
    /\ Set(p, process_free(Of(p), ptr))
    /\ UNCHANGED <<mem, leaked>>

(* copy_str_from_task(), for print() and the file name of proc_start(): it *)
(* frees its buffer only when it cannot restore the entry.                 *)
copy_str_from_task(p) ==
    LET tmp == kzalloc(live, 1)
    IN  /\ p \in Running
        /\ Cardinality(leaked) < MaxLeaked
        /\ tmp # NULL
        /\ live' = With(live, tmp, 1)
        /\ dir' = [dir EXCEPT ![p] = CopyThrough(@, tmp)]
        /\ leaked' = leaked \cup {Alloc(tmp, 1)}
        /\ UNCHANGED <<allocations, mem>>

(* The file's memory, of a binary or of an ELF file. *)
process_free_pgm_data(heap, p) == kfree(heap, mem[p].image)

(* The tables, the directory and its struct. *)
paging_free(heap, tables) == kfree(heap, tables)

(* Mutant: the stack is forgotten. *)
TerminateKeepsStack(p) ==
    LET s == process_free_allocations(Of(p))
        heap == paging_free(process_free_pgm_data(s.heap, p), mem[p].page_dir)
    IN  /\ p \in Running
        /\ Set(p, State(heap, s.slots, paging_new({}), NULL))
        /\ mem' = [mem EXCEPT ![p] = Dead]
        /\ UNCHANGED leaked

(* The directory goes with its tables. *)
process_terminate(p) ==
    LET s == process_free_allocations(Of(p))
        heap == paging_free(kfree(process_free_pgm_data(s.heap, p), mem[p].stack), mem[p].page_dir)
    IN  /\ p \in Running
        /\ Set(p, State(heap, s.slots, paging_new({}), NULL))
        /\ mem' = [mem EXCEPT ![p] = Dead]
        /\ UNCHANGED leaked

Next ==
    \/ \E program \in Programs : LoadFails(program)
    \/ \E p \in Process :
        \/ \E program \in Programs, argc \in 0 .. MaxArgs : Load(p, program, argc)
        \/ \E n \in Requests : Malloc(p, n)
        \/ \E ptr \in Frame \cup {NULL} : Free(p, ptr)
        \/ copy_str_from_task(p)
        \/ process_terminate(p)

Spec == Init /\ [][Next]_vars

-----------------------------------------------------------------------------
(* Properties *)

Taken(p) == {i \in AllocIndex : allocations[p][i].ptr # NULL}

Allocated(p) ==
    UNION {Run(allocations[p][i].ptr, allocations[p][i].size) : i \in Taken(p)}

Stack(p) == Run(mem[p].stack, StackSize)

Pointers(p) ==
    {mem[p].image, mem[p].stack, mem[p].page_dir} \cup {allocations[p][i].ptr : i \in Taken(p)}

(* The shapes of process.c's and paging.c's state.                         *)
TypeOK ==
    /\ live \subseteq [start : 0 .. (Length - 1),
                       size : ImageSizes \cup Requests \cup {1, StackSize, ProcSize}]
    /\ allocations \in [Process -> [AllocIndex -> [ptr : Frame \cup {NULL}, size : Requests \cup {0, 1}]]]
    /\ \A p \in Process : \A v \in VPage :
          dir[p][v].frame \in VPage /\ dir[p][v].flags \in {{}, ReadOnly, ReadWrite}

(* Every allocation of the heap belongs to one process or to nobody any    *)
(* more, and every pointer a process keeps is that of a live allocation:   *)
(* whatever programs free, twice or without owning it, and however loads   *)
(* and injections fail halfway, nothing is freed under its owner, and a    *)
(* process that ends gives back its program, its stack, its tables and     *)
(* what it allocated.                                                      *)
HeapIsOwned ==
    /\ leaked \subseteq live
    /\ {a.start : a \in live \ leaked} = UNION {Pointers(p) : p \in Running}
    /\ \A p \in Running :
          /\ Pointers(p) \cap {a.start : a \in leaked} = {}
          /\ Cardinality(Pointers(p)) = Cardinality(Taken(p)) + 3
          /\ \A r \in Running \ {p} : Pointers(p) \cap Pointers(r) = {}

Writeable(p) ==
    {dir[p][v].frame : v \in {v \in VPage : dir[p][v].flags = ReadWrite}}

(* The frames of the program file that its headers let it write. *)
Data(p) ==
    LET g == mem[p].program
        Frames(phdr) ==
            (phdr.p_offset \div PageSize) .. ((phdr.p_offset + phdr.p_memsz - 1) \div PageSize)
    IN  IF g.kind = "bin" THEN Run(mem[p].image, Pages(g.size))
        ELSE UNION {{mem[p].image + f : f \in Frames(g.phdrs[i])} :
                    i \in {i \in Segments(g) : g.phdrs[i].p_flags = "W"}}

(* A process can write its stack, what it has allocated and the data of    *)
(* its program, and no other frame: not what it has freed, not its code,   *)
(* not the kernel's copy buffers, no struct process, no page table,        *)
(* nothing of another process.                                             *)
WriteableIsOwned ==
    \A p \in Running : Writeable(p) = Stack(p) \cup Allocated(p) \cup Data(p)

(* As long as a process runs, every address of its program is mapped to    *)
(* the byte of the file that belongs there, wherever segments begin and    *)
(* end in a page, and whatever the process allocates and frees.            *)
ProgramIsMapped ==
    \A p \in Running :
        LET g == mem[p].program
            addr == mem[p].image * PageSize
            Maps(virt, offset, n) ==
                \A k \in 0 .. (n - 1) :
                    /\ paging_get_phys_addr(dir[p], virt + k) = addr + offset + k
                    /\ "PRESENT" \in dir[p][(virt + k) \div PageSize].flags
        IN  IF g.kind = "bin" THEN Maps(ProgramAddr, 0, g.size)
            ELSE \A i \in Segments(g) :
                    Maps(g.phdrs[i].p_vaddr, g.phdrs[i].p_offset, g.phdrs[i].p_memsz)

(* The kernel reads the struct of a directory and the registers of the     *)
(* task after it has loaded that directory (paging_switch(), task_return): *)
(* they are mapped in it, though process_free() takes pages out of it.     *)
SwitchIsMapped ==
    \A p \in Running : "PRESENT" \in dir[p][mem[p].page_dir].flags
=============================================================================
