-------------------------------- MODULE Elf --------------------------------
(***************************************************************************)
(* Program files as the loader maps them: kernel/elf/elf_loader.c, the     *)
(* mapping of kernel/task/process.c and the address arithmetic of          *)
(* kernel/memory/paging.c.                                                 *)
(*                                                                         *)
(* A program is "elf" if elf_validate_loaded() takes it, else "bin"; its   *)
(* size in bytes; and its program headers, which a "bin" has none of.      *)
(***************************************************************************)
EXTENDS Integers, Sequences

CONSTANT PageSize   \* PAGING_PAGE_SIZE

ASSUME ElfAssumption == PageSize \in Nat \ {0}

ReadOnly == {"PRESENT", "ALL"}
ReadWrite == {"PRESENT", "ALL", "WRITEABLE"}

Run(start, n) == start .. (start + n - 1)

paging_align_address(addr) ==
    IF addr % PageSize = 0 THEN addr ELSE addr + PageSize - (addr % PageSize)

(* Mutant: an address inside a page is aligned to the next one. *)
AlignUp(addr) == paging_align_address(addr)

paging_align_to_lower(addr) == addr - (addr % PageSize)

(* The pages a file of that size takes. *)
Pages(size) == paging_align_address(size) \div PageSize

-----------------------------------------------------------------------------
(* Directories are functions from pages to frames and flags. *)

paging_map_range(d, virt, phys, n, flags) ==
    [v \in DOMAIN d |->
        IF v \in Run(virt, n) THEN [frame |-> phys + (v - virt), flags |-> flags] ELSE d[v]]

(* Between addresses; all of them are aligned. *)
paging_map_to(d, virt_addr, phys_addr, phys_end, flags) ==
    paging_map_range(d, virt_addr \div PageSize, phys_addr \div PageSize,
                     (phys_end - phys_addr) \div PageSize, flags)

paging_get_phys_addr(d, virt_addr) ==
    d[virt_addr \div PageSize].frame * PageSize + (virt_addr % PageSize)

process_map_bin(d, program, addr, base) ==
    paging_map_to(d, base, addr, paging_align_address(addr + program.size), ReadWrite)

(* One header, whatever its type. *)
MapHeader(d, phdr, elf_memory) ==
    LET phys == elf_memory + phdr.p_offset
    IN  paging_map_to(d, paging_align_to_lower(phdr.p_vaddr), paging_align_to_lower(phys),
                      paging_align_address(phys + phdr.p_memsz),
                      IF phdr.p_flags = "W" THEN ReadWrite ELSE ReadOnly)

process_map_elf(d, program, elf_memory) ==
    LET Map[i \in 0 .. Len(program.phdrs)] ==
            IF i = 0 THEN d ELSE MapHeader(Map[i - 1], program.phdrs[i], elf_memory)
    IN  Map[Len(program.phdrs)]

-----------------------------------------------------------------------------
(* What a linker makes: segments inside the file, at addresses from base   *)
(* on that are congruent to their offsets, and on pages of their own; the  *)
(* other headers, like PT_GNU_STACK, are all zeros but for their flags.    *)

PageRange(phdr) ==
    (phdr.p_vaddr \div PageSize) .. ((phdr.p_vaddr + phdr.p_memsz - 1) \div PageSize)

Segments(program) == {i \in DOMAIN program.phdrs : program.phdrs[i].p_type = "PT_LOAD"}

ProgramHeader ==
    [p_type : STRING, p_offset : Nat, p_vaddr : Nat, p_memsz : Nat, p_flags : STRING]

IsProgram(program, base, top) ==
    /\ program.kind \in {"bin", "elf"}
    /\ program.size \in Nat \ {0}
    /\ program.phdrs \in Seq(ProgramHeader)
    /\ \A i \in DOMAIN program.phdrs \ Segments(program) :
          program.phdrs[i].p_memsz = 0 /\ program.phdrs[i].p_offset = 0
    /\ \A i \in Segments(program) :
          LET phdr == program.phdrs[i]
          IN  /\ phdr.p_offset + phdr.p_memsz <= program.size
              /\ phdr.p_vaddr % PageSize = phdr.p_offset % PageSize
              /\ phdr.p_vaddr >= base /\ phdr.p_vaddr + phdr.p_memsz <= top
              /\ \A j \in Segments(program) \ {i} :
                    PageRange(phdr) \cap PageRange(program.phdrs[j]) = {}
=============================================================================
