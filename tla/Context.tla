------------------------------ MODULE Context ------------------------------
(***************************************************************************)
(* The registers of programs on their way through the kernel: saved on     *)
(* every interrupt (kernel/kernel/idt.asm, kernel/kernel/syscall.asm,      *)
(* kernel/task/task.c), restored by iret or by task_return()               *)
(* (kernel/task/task.asm).  Interrupts are disabled in between.            *)
(*                                                                         *)
(* A register file is eax, in which system calls return, the flags, and    *)
(* the rest of what is saved, the instruction and stack pointers included. *)
(***************************************************************************)
CONSTANTS
    Proc,       \* the processes; each has one task
    Flags       \* what the flags can be: no step looks at them

VARIABLES
    alive,      \* the processes that run
    running,    \* task_get_current()->process
    cpu,        \* the registers, in user mode
    registers,  \* task->registers
    mine        \* history: what each program last had in its registers

context == <<alive, running, cpu, registers, mine>>

Zero == "zero"        \* the number 0, and the character 0x00
GetKey == "getkey"    \* the number of syscall 2,
Start == "start"      \*   and of syscall 6 or 7
Error == "error"      \* a negative result
Clear == "clear"      \* the flags that kzalloc() leaves
Rest == {"entry", "busy"}

(* task_init(): ip is the entry of the program. *)
Fresh == [eax |-> Zero, flags |-> Clear, rest |-> "entry"]

(* Mutant: eax is not among the registers that are saved. *)
SaveWithoutEax(frame) ==
    registers' = [registers EXCEPT ![running] = [frame EXCEPT !.eax = registers[running].eax]]

(* The registers that pushad and the processor have put on the stack. *)
task_save_state(frame) == registers' = [registers EXCEPT ![running] = frame]

(* The handler returns: popad, iret. *)
Resume(frame) == cpu' = frame /\ UNCHANGED <<alive, running, mine>>

(* libc puts the number of the call into eax, where it is saved; the call  *)
(* itself is the caller's of these operators.                              *)
syscall_handler(number) == task_save_state([cpu EXCEPT !.eax = number])

(* A call that comes back: its result is in eax. *)
syscall_wrapper(number, result) ==
    /\ syscall_handler(number)
    /\ cpu' = [cpu EXCEPT !.eax = result]
    /\ mine' = [mine EXCEPT ![running].eax = result]
    /\ UNCHANGED running

(* task_switch(), task_return(): what was saved, but for the flags.  Those *)
(* are the ones the kernel happens to have, with interrupts enabled.       *)
SwitchTo(p, saved) ==
    /\ running' = p
    /\ \E f \in Flags : cpu' = [saved[p] EXCEPT !.flags = f]

(* A program works. *)
Compute ==
    /\ \E r \in Rest, f \in Flags : cpu' = [cpu EXCEPT !.rest = r, !.flags = f]
    /\ mine' = [mine EXCEPT ![running] = cpu']
    /\ UNCHANGED <<alive, running, registers>>

(* An interrupt that comes back to the program. *)
interrupt_handler == task_save_state(cpu) /\ Resume(cpu)

idt_clock ==
    /\ task_save_state(cpu)
    /\ \E p \in alive : SwitchTo(p, registers')
    /\ UNCHANGED <<alive, mine>>

(* Syscalls 6 and 7 with success: the caller is left with the number of    *)
(* the call in eax, and the new program runs.                              *)
Launch(p) ==
    LET frame == [cpu EXCEPT !.eax = Start]
    IN  /\ p \notin alive
        /\ alive' = alive \cup {p}
        /\ registers' = [registers EXCEPT ![running] = frame, ![p] = Fresh]
        /\ SwitchTo(p, registers')
        /\ mine' = [mine EXCEPT ![running] = frame, ![p] = cpu']

(* The load fails, and nothing is there; or the arguments do not fit, and  *)
(* the new program is there, without the processor.                        *)
LaunchFails(new) ==
    /\ alive' = alive \cup new
    /\ syscall_wrapper(Start, Error)

(* Syscall 9, or an exception. *)
End ==
    /\ alive' = alive \ {running}
    /\ \E p \in alive' : SwitchTo(p, registers)
    /\ registers' = [registers EXCEPT ![running] = Fresh]
    /\ mine' = [mine EXCEPT ![running] = Fresh]
=============================================================================
