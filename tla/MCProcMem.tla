----------------------------- MODULE MCProcMem -----------------------------
(* ProcMem with a flat binary and an ELF file: its code and its data share *)
(* a page of the file, and the data goes on into the next.                 *)
EXTENDS ProcMem, TLC

Phdr(type, offset, vaddr, memsz, flags) ==
    [p_type |-> type, p_offset |-> offset, p_vaddr |-> vaddr, p_memsz |-> memsz,
     p_flags |-> flags]

(* The first address of a program: Top is Length + 2. *)
Base == (Length + 2) * PageSize

TwoPrograms ==
    {[kind |-> "bin", size |-> 1, phdrs |-> <<>>],
     [kind |-> "elf", size |-> 3,
      phdrs |-> <<Phdr("PT_LOAD", 0, Base, 1, "R"),
                  Phdr("PT_LOAD", 1, Base + PageSize + 1, 2, "W"),
                  Phdr("PT_GNU_STACK", 0, 0, 0, "W")>>]}

(* Processes are alike. *)
Alike == Permutations(Process)
=============================================================================
