# enki-os in TLA+

A verification development for enki-os, a small x86 kernel (`kernel/`) with a
partial libc (`libc/`) and a shell (`programs/shell`). The modules model the
kernel's own logic, from the heap, the run queue and the process table to
files, FAT16 and the disk below them, and the shell above it, from a key to a
command and to the screen. TLC checks small instances of all of it. TLAPS
proves, for every instance, all invariants, action properties and refinements
that the passing runs check; liveness is left to TLC: see [Proofs](#proofs).

Paths below are relative to the repository. `tlc -config X.cfg M` runs a
configuration, `tlapm M.tla` checks the proofs of one of the `...Proofs` modules.

## The system

One processor, one heap, one disk. Interrupt gates disable interrupts, so a
system call, a clock tick or a key press runs to its end before anything else
does: **a kernel entry is one atomic step**, and concurrency is the order in
which entries of different tasks follow one another. User code is preempted
anywhere.

| component | state | operations | talks to |
|---|---|---|---|
| heap (`memory/heap.c`, `kheap.c`) | block table of 25600 entries at 0x7E00 | kmalloc, kzalloc, kfree | everybody |
| paging (`memory/paging.c`) | page directories, all on the heap | new, free, map, set, get | tasks, processes |
| tasks (`task/task.c`) | doubly linked list, head, tail, current | new, free, switch, switch_next, copy_str | heap, paging, processes |
| processes (`task/process.c`) | table of 12, `process_current`, allocations per process | load, switch, malloc, free, inject_args, terminate | tasks, files, ELF, heap |
| system calls, interrupts (`kernel/syscall.c`, `idt.c`) | handler tables | 9 calls, clock, key, exceptions | processes, tasks, keyboard, tty |
| keyboard (`drivers/keyboard`) | a ring of 1024 characters per process, capslock | push (interrupt), pop (system call) | processes |
| terminal (`drivers/tty`) | row, column, video memory | writechar, backspace | - |
| files (`fs/file.c`) | 512 descriptors | open, read, seek, stat, close | FAT16 |
| FAT16 (`fs/fat16.c`) | root directory, open items, streams | resolve, open, read, seek, close | disk streams, heap |
| paths (`fs/path.c`) | - | parse, free | heap |
| ELF (`elf/elf_loader.c`) | a loaded image | load, close | files, heap |
| disk (`disk/`) | stream positions | seek, read (recursive, a sector a level) | ATA |
| libc, shell | strtok's static pointer, the input line | readline, parse, system | system calls |

What is hard here:

- **ordering** - the order in which programs exit decides whether the run queue
  survives; the keyboard and the processor are moved independently;
- **freed memory** - kernel code reads `task_current->next` after freeing the
  task, and `kfree(NULL)` walks the table from far below its start;
- **failure halfway** - loading a program has eight steps that can fail, and
  cleans up with `process_terminate()`, which expects a complete process;
- **limits** - the end of the heap, the last descriptor, a full key buffer, the
  last cluster of a file;
- **eventually** - every task must get the processor, every kernel loop must end.

`PROJECT.json` lists these as hazards, each at its line, with the properties
aimed at it.

## Modules

| module | models | proved in |
|---|---|---|
| `Allocator` | abstract: what the heap promises | |
| `Heap` | `heap.c`, `kheap.c`, one step per call | `HeapProofs` |
| `HeapLoops` | the three loops of `heap.c`, one step per iteration | `HeapProofs` |
| `TaskList` | the run queue of `task.c` | `TaskListProofs` |
| `Processes` | `process.c`'s table, loads, exits; uses `TaskList` | `ProcessesProofs` |
| `Elf` | program headers, `process_map_bin/elf()`, the address arithmetic of `paging.c` | `ProcMemProofs` |
| `ProcMem` | allocations, arguments, stacks and page directories of processes; uses `Heap`'s search and `Elf` | `ProcMemProofs` |
| `MCProcMem` | the two program files of the run | |
| `Context` | registers saved, switched and restored: `idt.asm`, `syscall.asm`, `task.asm` | `KeyboardProofs` |
| `Keyboard` | `ps2.c`, `keyboard.c`, on `Context` | `KeyboardProofs` |
| `DiskStream` | `disk_stream.c`, one sector | `Fat16Proofs` |
| `Fat16` | seek and read of an open file, on `DiskStream` | `Fat16Proofs` |
| `Path` | `path_parse()` | `FilesProofs` |
| `Files` | descriptors, directory lookup, the loaders' use of them; on `Path` | `FilesProofs` |
| `MCFiles` | the symmetry of names | |
| `Tty` | `tty.c` | `ShellProofs` |
| `Shell` | `readline`, `strtok`, command parsing, `echo`; on `Tty` | `ShellProofs` |
| `MCShell` | a short `echo`, a short banner | |

`HeapLoops` implements `Heap`, `Heap` implements `Allocator`; `Processes`
instantiates `TaskList` on its own run queue and is checked to use it only in
the ways `TaskList` allows; `ProcMem` allocates with `Heap`'s search. `Elf`,
`DiskStream`, `Path` and `Tty` have no variables: they are what their code
computes, used by the module that keeps the state.

**Heap.** `entries` is the block table as a function from indices to sets of
flags, `live` the allocations handed out (a history variable), `ret` the last
pointer returned. The table lies at 0x7E00, right above the boot sector, and
index -2 is the byte 0x55 of the boot signature, which has no HAS_NEXT bit.
`process_free_allocations()` frees the NULL of every unused slot, and
`heap_address_to_block(NULL)` is -4096, so the walk starts far below the table:
the model keeps those bytes, with arbitrary contents but for the signature.
Bytes above the table are not kept: the only writer is an allocation past the
end of the heap, and no loop reads them. `heap_get_start_block` is given in
closed form (the lowest run that fits, else the free run at the end); that this
is what the loop computes is checked in `HeapLoops` and proved in `HeapProofs`.
`kmalloc()` of no block is in the model; `SizedRequests`, a hypothesis of the
theorems, excludes it.

**TaskList.** `q` holds the three globals and every block's `next` and `prev`;
a freed block keeps them until `Reuse`, when the heap gives the block to
somebody else and they turn into `Wild`. `order`, a history variable, is the
list as it should be. `task_list_remove()` does not set `next->prev`, so the
model has three specifications: `Spec` lets tasks exit in any order,
`CleanSpec` only while the exiting task's `prev` is right, `LifoSpec` only the
newest task. `task_free()`'s page directory is in `ProcMem`.

**Processes.** `processes`, `process_current`, each process's `id` and `task`,
each task's `process`. `Start`, `StartWithoutArgs`, `DataFails`, `TaskFails` and
`MapFails` are the outcomes of syscalls 6 and 7; `Exit`, `ExitToShell` and
`ExitToPanic` those of syscall 9 and of an exception; `Clock` and `Reuse` are
`TaskList`'s. In `ExitToShell` the old task is freed, a shell is loaded, which
may get the old task's block for its task or for something else, and only then
does `task_switch_next()` read the `next` of the task that has ended: `Reused`
has what it can find there (what was there, zeros, anything), and the last of
these is the end of the kernel. `process_terminate()` of a process without a
task runs `task_free(NULL)`, which follows what the interrupt vectors at address
0 hold: either it survives, or the kernel is lost (`halted`). Exits are those of
`CleanSpec`, since after a wrong one there is no run queue to speak of.
`MaxProc` is a bound with a meaning: structures are never freed, so it is the
number of processes the heap has room for. `failed`, a history variable, says
that some load has failed halfway: `RegisteredUntilFailure` is what holds until
then, and what does not hold after it is the run `proc_bad_file`.

**ProcMem.** `live` is the heap as the set of its allocations, `allocations` the
table of each process, `dir` its page directory as a function from pages to
frames and flags, `mem` the pointers to program, stack and directory. A new
directory maps every page to itself, readable; `process_malloc()` and the
loader make pages writeable, `process_free()` makes them absent. `Load` makes
the allocations of a load in their order: `struct process` (`ProcSize` blocks),
what `fopen()` leaves, the file's contents, for a flat binary both once more
since `elf_load()` has been tried first, the stack, the task. The tables,
`struct paging_page_dir` and the task are one allocation, and so is what a call
of `fopen()` leaves. `leaked`, a history variable, is what nobody has a pointer
to any more: all of these but program, stack and task, the buffers of
`copy_str_from_task()`, and what `LoadFails`, a load that fails at any of its
steps, leaves behind. `Free` takes any address. The search for
blocks is the operator of `Heap`, with its run past the end of the table.
Programs are mapped byte by byte: a program is a flat binary or an ELF file
with its headers, and `MapHeader` is one iteration of `process_map_elf()`,
which maps every header, whatever its type. `IsProgram` is what is assumed of a
file: see below.

**Keyboard.** One ring per process; `ps2_handle_interrupt` pushes to
`process_current`, `keyboard_pop` pops for the running task. Characters are a
letter in two cases and a digit; scan codes are classes, among them the first
code past the table, which `sc > set_size` lets through. `TypeAhead` bounds
unread keys. `Context` is what happens to registers on the way: every interrupt
saves them in the task, `task_return()` takes them from there, a system call
that comes back puts its result into `eax`, and a caller of syscalls 6 and 7,
which do not come back, resumes with the number of the call in it. The flags are
saved with the rest and not restored: `task_return()` pushes those the kernel
has at that moment, so `SwitchTo` gives a program any of `Flags`. `mine` is what
each program last had in its registers, and `RegistersAreKept` is about all of
them but the flags, about which nothing can be promised. Which task is next,
and how the last process ends, is left to `TaskList` and `Processes`.

**Fat16.** A byte of the disk is its position; a file is a chain and a size.
`Stops` stands for `fat16_get_cluster_offset()`'s case labels, `EndOfChain` for
0xFFFF, `beyond` for what the FAT reads as past its end. There are two
recursions. A level of `fat16_read_internal_stream()` finds its cluster and
starts a read of the stream; a level of `disk_stream_read()` reads one sector
and, when the read reaches the sector's end, goes on to the next one, also with
nothing left to read. Each level is a step. `Next` takes the reads that a caller
in the kernel could make, which begin at a cluster's start and are of one block
or of whole clusters (`IsAligned`). A sector behind the drive's end never becomes
ready: `Polling` is `disk_read_sector()`'s loop.

**Files.** The raw root directory, the contents of each file as what a loader
makes of it (`"torn"`: its chain is shorter than its size says), the descriptor
table, and the programs that run. A path is what follows `0:/`, a sequence of
names and separators, any of them up to `MaxPath`. `fat16_open()`'s error codes
are `Bad`. A failed lookup is one of them: the loader then follows it as a
pointer, in `fstat()` and `fclose()`, which either find no file there, so that
the load fails and its descriptor is closed, or end in the loss of the kernel
(`stray`, `result = "lost"`). `has` says which of the three `kzalloc()` that are
looked at succeed. `loads` counts the loads that succeeded.

**Shell.** `buf` and `i` are `enki_tty_readline()`'s, `scmd` the copy of the
line `enki_parse_cmd()` cuts into pieces, `last` the global of `strtok()`.
`scmd` is a local array, and its address is the same in every call: so `last`,
when it is left over, points into the next command's copy. `Key`, `Backspace`
and `BackspaceOnEmptyLine` are one iteration of `readline`; `Submit` is the rest
of `main()`'s loop, with `enki_malloc()` failing at any argument. `tty` is the
terminal, with the wrap of its 16 bit columns. `tty_putchar()` writes wherever
the cursor is. `KernelCell` is where the kernel begins, in cells from the start
of the video memory: 0x100000 is cell 147456, in row 1843 of 80 columns. A
character behind the screen and in front of the kernel is not seen; one in the
kernel sets `hit`, and nothing is said of what comes after (`Ruined`). The
terminal begins with `Banner`, what `kernel_main()` prints.

Both `buf` and `scmd` are locals that nobody initialises, and are zeros at the
start nevertheless: the stack is one page-aligned `kzalloc()`
(`process.c:199`), and at the optimisation level of the makefiles (none) `buf`
lies in the frame of `main()`, and `scmd` below it and below every frame that a
call from `main()` has used before. What they hold later is what earlier lines
left. `typed` and `shown` say what the user means by the keys, and `mess` where
the code cannot follow:

| in `mess` | since |
|---|---|
| `"line"` | a backspace on an empty line is stored in it (until the line ends) |
| `"screen"` | it deletes the prompt; a backspace in the first column or over a tab; a bare `echo` prints what an earlier line left behind |
| `"args"` | memory ran out in a command: `strtok()` goes on with its line in the next one |

The properties say that outside these cases the line, the screen and the
arguments are what was typed.

## Runs

Passing runs:

| run | shows |
|---|---|
| `heap` | live allocations never overlap, frees are exact, no block is leaked, `kfree(NULL)` is harmless, the abstract allocator is implemented |
| `heap_loops` | the loops compute what `Heap` says, and end |
| `task_clean` | the queue is the live tasks in order; the running task is live; round robin reaches everyone |
| `processes` | with failures at every step of a load: the keyboard's owner is running and gets the processor; the table names no dead process, and misses no running one until a load fails halfway; the kernel dies only of a full heap or in a failing load; `TaskList` is used as specified |
| `proc_mem` | every heap block has one owner, or is one that the kernel has lost, and a process that ends gives back its program, stack, tables and allocations; every address of a program is mapped to its byte of the file; a process can write its stack, its allocations and its data, and nothing else; the kernel never switches to a directory that does not map it |
| `keyboard` | every process reads its own keys, in order, and goes on with its own registers but for the flags, wherever it is preempted |
| `fat16` | aligned reads return the file's bytes, fail only past its end, and return unless they wait behind the end of the drive, which they do only after the drive's last byte; the recursions stay within the clusters of the file and the sectors of a cluster |
| `files` | the program that runs is the one the path names; a program in front of every deleted entry loads, whatever loads failed before, of missing files, for want of memory or of contents, exactly until the descriptors are used up; failed loads close their files, and nobody else's |
| `shell` | no index leaves its buffer; the line, the screen and the arguments are what the user typed; a command without memory spoils the next one at most; and the kernel is written over exactly when the text runs into it |

Runs that find a disagreement with what a comment or header of the repository
says (`findings` in `PROJECT.json` has the quotations):

| run | shows |
|---|---|
| `heap_full` | a request of several blocks that fits nowhere is given the free run at the end of the table, too short for it, and reaches past the heap |
| `task_any` | tasks exiting in any order leave a stale `prev`, and a freed task gets the processor |
| `proc_bad_file` | a load that fails before the process has a task ends in `task_free(NULL)`, or leaves a running process out of the table |

### What the models exclude

Where a module restricts its inputs, the code misbehaves outside them; each
restriction is one the kernel's own callers keep, or a limit stated here.

- `Heap`: the properties are about requests for at least one block (the cfg's
  sizes, `SizedRequests` in the proofs). `kmalloc(0)` returns a block it does not
  mark, and a size within a block of 2^32 aligns to 0 and does the same
  (somebody else gets it too, and loses it when it is freed). No caller in the kernel passes 0 by itself, but syscall 4 and
  an empty file would.
- `Shell`: the cases of `mess` above, and what happens once the kernel is written
  over. Programs do not print.
- `Processes`: `struct process` is never freed, so the heap has room for
  `MaxProc` processes and not for one more.
- `Keyboard`: at most `Size` characters are unread (`TypeAhead`). One more
  overwrites the oldest, and the ring no longer holds what was typed.
- `Fat16`: `IsAligned`, a guard that `Next` adds to `fat16_read()` and that the
  loaders keep. Without it, a read that starts inside a cluster and crosses its
  end goes on in the next cluster of the disk, not of the chain. Cluster numbers
  0xFF0 to 0xFFF are ordinary on a FAT16 disk and are taken for FAT12 marks, so
  that a file with such a cluster cannot be read to its end, while 0xFFFF is not
  recognised as the end; `Fat16.cfg` has a disk without the former, and reads
  stop at the file's size before they meet the latter. A read that
  ends on the last byte of the drive asks for one sector more, and polls for it
  for ever; this is in the model, and `WaitsOnlyBehindDrive` says that it is the
  only such case.
- `Files`: `fopen()` hands out the last descriptor and every other call
  refuses it, a successful load never closes its file, and paths into
  subdirectories fail: these are in the model, and in the properties. A deleted
  entry hides the last entry of the root directory, and a repeated separator ends
  a path (`0:/a//b` opens `a`): these are in the model, and left out of
  `ListedProgramsLoad` and `RunsWhatIsNamed`. The drive
  is `0:/`, which the system calls write in front of every name; `kzalloc()`
  whose results are not looked at (path parts, the descriptor, the copied
  directory item of `fat16_clone_dir_item()`, `struct elf_file`) succeed. What
  they leave on the heap is in `ProcMem`.
- `ProcMem`: requests are for at least one page (as in `Heap`), programs are
  what the linker scripts of `programs/` make (`IsProgram`): segments inside
  the file, addresses congruent to offsets, from the program's base on
  (`elf_is_executable()`, which would look at the entry, is never called),
  no two segments in one page of addresses, and headers that are no segments
  (`PT_GNU_STACK`) all zeros but for the type and the flags: `process_map_elf()`
  maps those too, and no page is what it maps. A `.bss` is the bytes of the file
  behind the data, or past its end whatever follows in the heap, and nobody
  clears it: `Shell` starts with `strtok()`'s pointer at 0 nevertheless. There
  is room for `struct process`, for what `fopen()` and `elf_load()` allocate and
  for the page tables: nobody looks at what those `kzalloc()` return.
  `LoadFails` is a load whose `task_free(NULL)` does no harm: what it can do is
  in `Processes`.

### Bounds

- Heap: 6 blocks, requests of 1, 2 and 3 blocks, so that runs of every shape,
  exhaustion and reuse of holes occur; `Base = 3` leaves the signature byte and
  one byte on either side of it. `HeapFull` needs 4
  blocks and two sizes.
- Tasks: 4 blocks are enough for a head, a tail, a middle task and a freed one.
- Processes: 3 slots, so the table fills; 4 tasks; 4 structures, so the heap
  runs out.
- ProcMem: a flat binary of one page, and an ELF file whose code and data
  share a page of the file and whose data goes on into the next; pages of two
  bytes, so that segments begin and end inside a page. Two processes,
  interchangeable, and 14 blocks: a flat binary takes 7 of them and keeps 4 for
  ever, an ELF file 6 and 2, so two programs fit and leave two blocks at most,
  programs that have ended take the rest until none can be loaded (then the run
  ends: no deadlock check), and blocks one process has freed become the other's;
  requests of two pages, and arguments of one; two allocations per process, so
  that injecting two arguments fails halfway; strings are copied until 5
  allocations are lost, since more of them only make the heap smaller.
- Keyboard: a ring of 2 that fills, empties and wraps; two processes that start
  and end each other. One value of the flags, since no step looks at them.
- Fat16: 4 clusters of two sectors of two bytes, chains of up to 3 in every
  order, sizes around sector and cluster boundaries; the data area ends with
  the drive, so that the sector behind it is asked for.
- Files: 2 names, interchangeable, 4 descriptors, every directory of up to 3
  entries, every content, every path of up to 3 names and separators: two names,
  or a repeated separator.
- Shell: a screen of 5 rows of 3 columns, and the kernel two rows below it, which
  is reached; a line of 3 characters and arguments of 1, so that both are
  truncated; three lines: a command that runs out of memory, one that is spoilt
  by it, and one that must be whole again.

### Fairness

The clock interrupts user code for ever (`WF(Clock)` in `TaskList` and
`Processes`): the timer is never masked, and kernel code never waits with
interrupts enabled. Loops inside the kernel (`WF(Step)` in `HeapLoops`, the
two recursions of `Fat16`) run with interrupts disabled and so to their end.
Nothing is assumed of user programs: they may never exit, and `EveryTaskRuns`
is stated for programs that at some point stop starting others, since a program
that is started is switched to out of turn.

## Proofs

`HeapProofs`, for every heap length, block size and set of request sizes. The
only hypothesis, `SizedRequests`, is that every request is for at least one
block: it excludes size 0 and sizes within a block of 2^32. The
inductive invariant `IInv` is the type invariant, disjointness, accuracy of the
TAKEN marks, the boot signature, and

> `Chained`: inside the table, every entry of a live allocation is TAKEN, and
> has HAS_NEXT exactly when it is not the allocation's last.

Disjointness alone is not inductive: a free follows HAS_NEXT bits, and only
`Chained` says where they end. An allocation that reaches past the table keeps
HAS_NEXT on its last entry inside, which is why the invariant speaks of the
part inside the table, and why disjointness survives even when the search hands
out a run that is too short: such a run is the last of the table. Theorems:
`TypeCorrect`, `AllocationsDisjoint`, `FreesAreExact`, `TableIsAccurate`,
`NullFreesAreHarmless`, `ImplementsAllocator`.

`LoopsImplementHeap`, in the same module, is about `HeapLoops`, and has no
hypothesis on sizes. `LoopInv` has a part for each loop. While the search is at
block `i` (`SearchInv`), no run that fits ends in front of `i`, and the run being
counted is free and as long as it can be; while an allocation is marked
(`MarkInv`), the table is the old one with the entries behind the mark written;
while a free walks (`WalkInv`), every entry from the start to the place of the
walk had HAS_NEXT, and is cleared. At the last step of each loop, what it leaves
is what `Heap`'s step writes; all other steps stutter.

`TaskListProofs`, for any set of task blocks, under `CleanSpec`: the invariant
is `QueueIsOrder`, that `order` has no repetitions, and that the running task
is live. An exit splits on the position of the exiting task (head, tail,
middle); only when its `prev` is right does the write through it go to the
task in front. Theorems: `TypeCorrect`, `QueueIsIntact`, `CurrentStaysLive`,
and `LifoIsClean`: under `LifoSpec` the exiting task is the newest, whose `prev`
was set when it was appended, and it is still right.

`ProcessesProofs`, for any number of slots, tasks and structures, and every
choice of loads that may fail. `PInv` says that while the kernel is up
(`UpAndRunning`): the run queue satisfies the invariant of `TaskListProofs`,
which is used here through an instance on this module's own queue; every task
points to a process that points back (`OwnedIn`); every process in the table has
a task that runs and stands in the slot of its id (`RowsIn`); the keyboard's
owner runs; and until a load has failed halfway, every task's process is in the
table (`RegisteredIn`). The two directions of task and process are needed
together: an exit finds the process through the task and the next owner of the
keyboard through the table. `ShellForTheLast` is what makes the read after the
free harmless while no load has failed halfway: a shell is started only when the
last process ends, whose task is the only one, and the shell's task is then the
head of the queue, whatever the freed block holds. Theorems: `ProcessesTypeCorrect`,
`FocusStaysRunning`, `TableStaysRunning`, `NoTaskIsForgotten`,
`SchedulerNeverStrands`, and `ImplementsQueue`, the refinement of `TaskList`.

`ProcMemProofs`, for every heap, page size, set of programs and any number of
processes. The heap is the disjoint union of what each process holds (program,
stack and tables, and the pointers in its slots) and what is lost. `Good` says
this from the point of view of one process, together with what its directory
maps: heap pages to themselves, writeable exactly when a slot holds them;
program and stack as `process_map_memory()` left them. Every operation is first
shown to keep `Good` of the process that runs, with the rest of the heap as a
parameter (`malloc`, `free` of any address, arguments injected until one fails,
the loop that frees all slots), and then that the others, which see only
`Others` change, keep theirs. The second half is about `process_map_elf()`:
after the first `i` headers a page is mapped by the last of them that covers it
(`MapsUpTo`), and since segments share no page, each segment keeps its own
mapping. Hypotheses: `ProcMemAssumption` and `ProgramsAssumption`, that programs
are what a linker makes. Theorems: `TypeCorrect`, `HeapStaysOwned`,
`WriteableStaysOwned`, `ProgramStaysMapped`, `SwitchStaysMapped`.

`KeyboardProofs`, for any number of processes. `RegistersStay` needs nothing but
the invariant that saved registers, but for the flags, are those the program had
(`SavedIsMine`). `RingIsRight` and `PopsOldest`, for rings of every size, have the hypothesis
`TypistWaits`, that no more keys are typed ahead than a ring holds; the invariant
adds that `tail` follows `head` by the number of unread keys, modulo the size.

`Fat16Proofs`, for sectors, clusters, files and reads of every size, and every
chain. `IInv` says that a level of the outer recursion begins at the start of a
cluster, no deeper than the clusters before it, with everything up to there
read; and that inside a cluster the inner recursion has read `d` whole sectors
of it (`StreamAt`). That the walk along the FAT arrives at the cluster of an
offset is a lemma by induction over the chain. `ReadsAreExact`, `NoErrorInFile`,
`StackStaysBounded` and `WaitsOnlyAtEnd` have the hypothesis `FewClusters`: no
cluster of the disk has a number that `fat16_get_cluster_offset()` takes for a
mark. It holds of the image that the `Makefile` builds: clusters of 128 sectors
and 16 MB make some 256 clusters, far below 0xFF0. The parameter block in
`boot.asm` declares 0x773594 sectors, some 61,000 clusters, and of a disk of
that size it does not hold. `WaitsOnlyAtEnd` also has `WholeDataArea`, that the
drive holds the clusters its file system counts.

`FilesProofs`, for every directory, table and path, and every choice of what
fails. The invariant of `FilesStayOpen` is that of the run, with the number of
open descriptors: every load that succeeds keeps one more for ever and every one
that fails none but the last (`EachKeepsOne`), which is why a program loads
exactly until `MaxFd - 1` have. The three action properties need what the
operators return: of `path_parse()`, that it takes every other member of the
path and ends at the first that is a separator; of the lookup, which entry it
finds; of the table, which slot is new. Theorems: `FilesStayOpen`,
`FailedLoadsClose`, `FrontProgramsLoad`, `NamedProgramRuns`.

`ShellProofs`, for lines, arguments and screens of every size. `IInv` is
`TypeOK`, that the bytes of the line in front of `i` are the characters typed,
and that `strtok()`'s place is inside its string: the string stays terminated
because `strtok()` overwrites blanks only, and the terminator is none.
`ShellAssumption` says that no key stands for the byte 0, with which `getkey`
says that there is none, and that "echo" can be typed.

`ScreenStaysRight` compares the terminal, which writes one character at a time,
with a text laid out from its beginning. `Laid` relates the two: the cursor is
at the cell behind the text, in a column of the screen, and the video memory is
the text rendered; `Stands` says that, or that the text has run into the kernel.
Characters are at cells that grow, so one more of them goes
to a blank cell and leaves the others alone (`AppendShows`): a glyph and a
newline keep `Stands` (`ShowGlyph`, `ShowNewline`), a tab is four glyphs, and a
backspace outside the first column takes the last glyph back (`DeleteShows`).
Newlines move the cursor into the kernel without writing there, and the next
glyph does (`Far`), before the rows' 16 bits are used up: this is
`RowsAssumption`, which the real sizes satisfy (147456 cells to the kernel and
some 1000 rows of one command behind them, of 80 * 65536). The invariant
`ScreenInv` is `Stands` of what the user means, outside `mess`; there is no bound
on the rows or the lines.

`ArgsStayWords` follows `strtok()` through the loop of `enki_parse_cmd()`.
`ParseInv` says, between two calls: the arguments are the words that begin in
front of the token, in their order and truncated (`Found`); the token is the next
word; and from `last` on the copy is what was copied, and begins with a blank
before it or is at its end (`Unread`), so that what is found next is a whole
word. Without a token, all words have been found and `last` is NULL. Across
commands the invariant is `ArgsInv`: `last` is NULL unless memory ran out.

Theorems: `TypeCorrect`, `LineStaysTyped`, `ScreenStaysRight`, `ArgsStayWords`.

Loops and recursions of the code are recursive functions in the modules. What
they compute is proved without an induction rule: a set of numbers that is not
empty has a least member (`LeastNumber`, from `NatLessThanWellFounded` and
`WFMin` of the library), so there is no first iteration to break a claim. A
recursive definition says little until some function satisfies it, and that the
states of a loop exist is a lemma of its own (`StepsExist`).

Model-checked only: the liveness properties `CallsReturn`, `EveryTaskRuns`,
`FocusRuns` and `ReadsReturn`, which need fairness and ENABLED, out of the
prover's reach.

## Not modelled

- Boot code, GDT, TSS, the interrupt table and port I/O: straight-line hardware
  setup that runs once.
- Dispatch of system calls by number, and segment registers.
- `printf()`, `itoa()`, 8.3 names, `fat16`'s stat flags and colours: formatting
  that no property here is about.
- Code nothing calls: `keyboard_backspace()`, `path_free()`,
  `elf_is_executable()`, `strspn()` and `strcspn()`, the cursor.
- The split of a page directory into tables, and `paging_new()` on a full heap,
  which writes tables through NULL.

## Plan

Every safety property of the runs has its theorem. What could be added: stat and
subdirectories in `Files`, the segment registers in `Context`, and
programs that print while the shell reads.
