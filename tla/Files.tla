------------------------------- MODULE Files -------------------------------
(***************************************************************************)
(* From a path to a loaded program: the root directory and the lookup of   *)
(* kernel/fs/fat16.c, the descriptor table of kernel/fs/file.c, and the    *)
(* calls elf_load() and process_load_bin() make on them.  A load runs with *)
(* interrupts disabled: it is one step.                                    *)
(*                                                                         *)
(* A file is what a loader makes of it: "elf", "bin" (anything that is not *)
(* an ELF file), "empty", "torn" (its chain of clusters ends before it     *)
(* does), or a directory, "dir".  The heap is not modelled: each kzalloc() *)
(* whose result is looked at may fail, the others always succeed.          *)
(***************************************************************************)
EXTENDS Path

CONSTANTS
    NULL, Bad,   \* Bad: an error code fat16_open() returned as a pointer
    MaxFd,       \* ENKI_MAX_FILE_DESCRIPTORS
    MaxEntries   \* bound: entries of the root directory

Kind == {"elf", "bin", "empty", "torn", "dir"}
Deleted == "deleted"     \* an entry whose name starts with 0xE5

ASSUME FilesAssumption ==
    /\ MaxFd \in Nat \ {0} /\ MaxEntries \in Nat
    /\ NULL # Bad /\ NULL \notin Name /\ Bad \notin Name

VARIABLES
    root,              \* the root directory's entries, up to the first empty one
    kind,              \* what each file holds
    file_descriptors,  \* the table: the private data of each descriptor
    running,           \* the programs that run, by the descriptor of their load
    result,            \* of the last load
    loads              \* history: how many loads have succeeded

vars == <<root, kind, file_descriptors, running, result, loads>>

Fd == 1 .. MaxFd

Listed == {root[i] : i \in DOMAIN root} \ {Deleted}

-----------------------------------------------------------------------------
(* The directory *)

(* Mutant: the count stops one short. *)
CountOneShort == Cardinality({i \in DOMAIN root : root[i] # Deleted}) - 1

(* The entries that are not deleted. *)
fat16_get_dir_items == Cardinality({i \in DOMAIN root : root[i] # Deleted})

(* The loop goes over as many entries, deleted or not. *)
fat16_find_item_in_dir(name) == \E i \in 1 .. fat16_get_dir_items : root[i] = name

(* What fopen() takes for the private data of the file, if there is memory *)
(* for it.  fat16_load_fat_dir() never returns a directory, so the lookup  *)
(* in one reads through NULL.                                              *)
fat16_open(parts, memory) ==
    IF memory /\ fat16_find_item_in_dir(parts[1]) /\ Len(parts) = 1 THEN parts[1] ELSE Bad

-----------------------------------------------------------------------------
(* The descriptor table *)

FreeFds(table) == {i \in Fd : table[i] = NULL}

EINVARG == -2

(* `desc_private < 0` compares pointers and never holds; 0 says that the   *)
(* table is full.                                                          *)
fopen(table, path, memory) ==
    LET parts == path_parse(path)
    IN  IF parts = <<>> THEN [fd |-> EINVARG, table |-> table]
        ELSE IF FreeFds(table) = {} THEN [fd |-> 0, table |-> table]
        ELSE [fd |-> Min(FreeFds(table)),
              table |-> [table EXCEPT ![Min(FreeFds(table))] = fat16_open(parts, memory)]]

(* Mutant: the index of the descriptor is taken for zero-indexed. *)
ClosePrevious(table, fd) ==
    IF fd - 1 \in Fd THEN [table EXCEPT ![fd - 1] = NULL] ELSE table

(* file_get_descriptor() *)
Usable(fd) == 0 < fd /\ fd < MaxFd

fclose(table, fd) == IF Usable(fd) THEN [table EXCEPT ![fd] = NULL] ELSE table

-----------------------------------------------------------------------------
(* Loading *)

Outcome(res, table, fd) == [result |-> res, table |-> table, fd |-> fd]

(* fstat() and fclose() of Bad follow an error code as a pointer.  What    *)
(* they find there is either no file, or it is the end of the kernel.      *)
Stray == {"EINVARG", "lost"}

OfBad(table, fd, stray) ==
    Outcome(stray, IF stray = "lost" THEN table ELSE fclose(table, fd), 0)

elf_load(table, path, memory, stray) ==
    LET o == fopen(table, path, memory)
        file == o.table[o.fd]
        Fails(res) == Outcome(res, fclose(o.table, o.fd), 0)
    IN  IF o.fd <= 0 THEN Outcome("EIO", fclose(o.table, 0), 0)
        ELSE IF ~Usable(o.fd) THEN Fails("EIO")
        ELSE IF file = Bad THEN OfBad(o.table, o.fd, stray)
        ELSE IF kind[file] = "torn" THEN Fails("EIO")
        ELSE IF kind[file] \in {"empty", "dir"} THEN Fails("EINVARG")
        ELSE IF kind[file] = "bin" THEN Fails("EINVFMT")
        ELSE Outcome("ok", o.table, o.fd)

(* Mutant: the error paths leave the file open. *)
BinLeavesOpen(table, path, memory, room, stray) ==
    LET o == fopen(table, path, memory)
        file == o.table[o.fd]
    IN  IF ~Usable(o.fd) THEN Outcome("EIO", o.table, 0)
        ELSE IF file = Bad THEN OfBad(o.table, o.fd, stray)
        ELSE IF ~room THEN Outcome("ENOMEM", o.table, 0)
        ELSE IF kind[file] = "torn" THEN Outcome("EIO", o.table, 0)
        ELSE Outcome("ok", o.table, o.fd)

(* memory for the descriptor, room for the contents of the file. *)
process_load_bin(table, path, memory, room, stray) ==
    LET o == fopen(table, path, memory)
        file == o.table[o.fd]
        Fails(res) == Outcome(res, fclose(o.table, o.fd), 0)
    IN  IF ~Usable(o.fd) THEN Fails("EIO")
        ELSE IF file = Bad THEN OfBad(o.table, o.fd, stray)
        ELSE IF ~room THEN Fails("ENOMEM")
        ELSE IF kind[file] = "torn" THEN Fails("EIO")
        ELSE Outcome("ok", o.table, o.fd)

Memory == {"elf", "bin", "data"}

(* has: which of the three kzalloc() that are looked at succeed, those of  *)
(* the descriptors and that of a flat binary's contents.                   *)
process_load_data(table, path, has, stray) ==
    LET o == elf_load(table, path, "elf" \in has, stray)
    IN  IF o.result = "EINVFMT"
        THEN process_load_bin(o.table, path, "bin" \in has, "data" \in has, stray)
        ELSE o

-----------------------------------------------------------------------------
(* Any directory that lists every name at most once, and lists something:  *)
(* the shell was loaded from it.                                           *)
Init ==
    /\ root \in UNION {[1 .. n -> Name \cup {Deleted}] : n \in 1 .. MaxEntries}
    /\ Listed # {}
    /\ \A i, j \in DOMAIN root : root[i] = root[j] /\ i # j => root[i] = Deleted
    /\ kind \in [Name -> Kind]
    /\ file_descriptors = [i \in Fd |-> NULL]
    /\ running = {}
    /\ result = "ok"
    /\ loads = 0

Load(path, has, stray) ==
    LET o == process_load_data(file_descriptors, path, has, stray)
    IN  /\ result # "lost"
        /\ file_descriptors' = o.table
        /\ result' = o.result
        /\ running' = IF o.result = "ok" THEN running \cup {o.fd} ELSE running
        /\ loads' = IF o.result = "ok" THEN loads + 1 ELSE loads
        /\ UNCHANGED <<root, kind>>

(* process_free_pgm_data(): elf_close() frees the memory of the file. *)
Exit(p) ==
    /\ result # "lost"
    /\ running' = running \ {p}
    /\ UNCHANGED <<root, kind, file_descriptors, result, loads>>

(* The kernel is lost. *)
Hang == result = "lost" /\ UNCHANGED vars

Next ==
    \/ \E path \in Paths, has \in SUBSET Memory, stray \in Stray : Load(path, has, stray)
    \/ \E p \in running : Exit(p)
    \/ Hang

Spec == Init /\ [][Next]_vars

-----------------------------------------------------------------------------
(* Properties *)

(* The names in front of the first deleted entry. *)
InFront ==
    {root[i] : i \in {i \in DOMAIN root : \A j \in 1 .. i : root[j] # Deleted}}

(* A program is loaded from the named file, with all the memory it needs.  *)
LoadsProgram(name) ==
    kind[name] \in {"elf", "bin"} /\ \E stray \in Stray : Load(<<name>>, Memory, stray)

(* Whatever loads failed before, of files that are not there or not        *)
(* programs, that cannot be read or have no memory: a program with memory  *)
(* loads, ELF or not, exactly until MaxFd - 1 have been loaded, for each   *)
(* keeps its descriptor for ever and the last is never usable.  But for    *)
(* the programs behind a deleted entry: each hides one from the lookup.    *)
ListedProgramsLoad ==
    [][\A name \in InFront :
         LoadsProgram(name) => (result' = "ok" <=> loads < MaxFd - 1)]_vars

(* A load that reports an error has closed what it opened, whatever it was *)
(* that failed: but for the last descriptor, taken when no other is left,  *)
(* which fclose() refuses.                                                 *)
FailedLoadCloses ==
    [][result' \notin {"ok", "lost"}
         => \A fd \in Fd : \/ file_descriptors'[fd] = file_descriptors[fd]
                           \/ fd = MaxFd /\ FreeFds(file_descriptors) = {MaxFd}]_vars

(* The file of a program that runs stays open: no other load, failed or    *)
(* not, closes it.                                                         *)
RunningStayOpen == \A p \in running : file_descriptors[p] \in Name

RepeatsSep(path) == \E k \in 1 .. (Len(path) - 1) : path[k] = Sep /\ path[k + 1] = Sep

(* file is the last name in the path. *)
EndsWith(path, file) ==
    \E k \in 1 .. Len(path) :
        /\ path[k] # Sep /\ file = path[k]
        /\ \A j \in (k + 1) .. Len(path) : path[j] = Sep

(* The step loads path and runs another program than the path ends with.   *)
RunsOther(path) ==
    /\ \E fd \in running' \ running : ~EndsWith(path, file_descriptors'[fd])
    /\ \E has \in SUBSET Memory, stray \in Stray : Load(path, has, stray)

(* The program that runs is the one its path names, the last name in it,   *)
(* and none that the path only passes through: unless a separator is       *)
(* repeated, where path_parse() takes the path to end.                     *)
RunsWhatIsNamed == [][\A path \in Paths : RunsOther(path) => RepeatsSep(path)]_vars
=============================================================================
