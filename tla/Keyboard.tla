------------------------------ MODULE Keyboard ------------------------------
(***************************************************************************)
(* From a scan code to getkey(): the PS/2 interrupt handler                *)
(* (kernel/drivers/keyboard/ps2.c) pushes characters into the ring buffer  *)
(* of process_current, and syscall 2 pops them from the ring buffer of the *)
(* process that runs (kernel/drivers/keyboard/keyboard.c), into a register *)
(* of the program, which may be preempted before it looks at it (Context). *)
(*                                                                         *)
(* head and tail are C ints taken modulo the buffer size, which divides    *)
(* 2^32: the model keeps them modulo the size.                             *)
(***************************************************************************)
EXTENDS Context, Integers, Sequences

CONSTANTS
    Size,        \* ENKI_KEYBOARD_BUFFER_SIZE
    TypeAhead    \* unread keys a process may have: at most Size, see the README

ASSUME KeyboardAssumption ==
    Size \in Nat \ {0} /\ TypeAhead \in Nat /\ Proc # {} /\ Clear \in Flags

VARIABLES
    buffer, head, tail,   \* struct keyboard_buffer of each process
    capslock,
    process_current,      \* gets the keys
    pending               \* history: the characters pushed and not popped

ring == <<buffer, head, tail, pending>>

vars == <<ring, capslock, process_current, context>>

None == Zero              \* the character 0x00
Char == {"a", "A", "1"}
Index == 0 .. (Size - 1)

(* A letter key, a digit key, capslock, a key without a character, the     *)
(* first code past scan_set_1, and a key going up.                         *)
ScanCode == {"letter", "digit", "capslock", "blank", "past", "released"}

-----------------------------------------------------------------------------
Init ==
    /\ buffer = [p \in Proc |-> [i \in Index |-> None]]
    /\ head = [p \in Proc |-> 0] /\ tail = [p \in Proc |-> 0]
    /\ capslock = FALSE
    /\ process_current \in Proc /\ running = process_current
    /\ pending = [p \in Proc |-> <<>>]
    /\ alive = {running}
    /\ cpu = Fresh
    /\ registers = [p \in Proc |-> Fresh]
    /\ mine = [p \in Proc |-> Fresh]

(* The characters a scan code may give.  `sc > set_size` lets the first    *)
(* code past the table through: it reads whatever byte follows.            *)
ps2_scan_to_char(sc, caps) ==
    CASE sc = "letter" -> {IF caps THEN "A" ELSE "a"}
      [] sc = "digit" -> {"1"}
      [] sc \in {"capslock", "blank"} -> {None}
      [] sc = "past" -> Char \cup {None}

(* Mutant: the tail wraps one position early. *)
PushWrapsEarly(p, c) ==
    IF c = None
    THEN UNCHANGED <<buffer, tail, pending>>
    ELSE /\ buffer' = [buffer EXCEPT ![p][tail[p]] = c]
         /\ tail' = [tail EXCEPT ![p] = IF @ + 1 >= Size - 1 THEN 0 ELSE @ + 1]
         /\ pending' = [pending EXCEPT ![p] = Append(@, c)]

(* The ring is not looked at: a full one is overwritten. *)
keyboard_push(p, c) ==
    IF c = None
    THEN UNCHANGED <<buffer, tail, pending>>
    ELSE /\ buffer' = [buffer EXCEPT ![p][tail[p]] = c]
         /\ tail' = [tail EXCEPT ![p] = (@ + 1) % Size]
         /\ pending' = [pending EXCEPT ![p] = Append(@, c)]

ps2_handle_interrupt(sc) ==
    /\ Len(pending[process_current]) < TypeAhead
    /\ capslock' = IF sc = "capslock" THEN ~capslock ELSE capslock
    /\ \E c \in (IF sc = "released" THEN {None} ELSE ps2_scan_to_char(sc, capslock')) :
          keyboard_push(process_current, c)
    /\ interrupt_handler
    /\ UNCHANGED <<head, process_current>>

(* Mutant: the slot keeps its character. *)
PopKeepsChar ==
    LET p == running
        c == buffer[p][head[p]]
    IN  /\ syscall_wrapper(GetKey, c)
        /\ IF c = None
           THEN UNCHANGED <<buffer, head, pending>>
           ELSE /\ head' = [head EXCEPT ![p] = (@ + 1) % Size]
                /\ pending' = [pending EXCEPT ![p] = IF @ = <<>> THEN @ ELSE Tail(@)]
                /\ UNCHANGED buffer
        /\ UNCHANGED <<tail, capslock, process_current, alive>>

(* syscall 2: an empty slot is the end of the buffer. *)
keyboard_pop ==
    LET p == running
        c == buffer[p][head[p]]
    IN  /\ syscall_wrapper(GetKey, c)
        /\ IF c = None
           THEN UNCHANGED <<buffer, head, pending>>
           ELSE /\ buffer' = [buffer EXCEPT ![p][head[p]] = None]
                /\ head' = [head EXCEPT ![p] = (@ + 1) % Size]
                /\ pending' = [pending EXCEPT ![p] = IF @ = <<>> THEN @ ELSE Tail(@)]
        /\ UNCHANGED <<tail, capslock, process_current, alive>>

(* A new process has an empty ring. *)
process_init(p) ==
    /\ buffer' = [buffer EXCEPT ![p] = [i \in Index |-> None]]
    /\ head' = [head EXCEPT ![p] = 0] /\ tail' = [tail EXCEPT ![p] = 0]
    /\ pending' = [pending EXCEPT ![p] = <<>>]

(* The new process gets the keyboard, also when its caller goes on. *)
ProcStart(p) ==
    /\ p \notin alive
    /\ process_init(p)
    /\ process_current' = p
    /\ Launch(p) \/ LaunchFails({p})
    /\ UNCHANGED capslock

ProcStartFails ==
    /\ LaunchFails({})
    /\ UNCHANGED <<ring, capslock, process_current>>

(* As long as another process runs: see Processes for the last one.        *)
Exit ==
    /\ alive # {running}
    /\ End
    /\ IF process_current = running THEN process_current' \in alive' ELSE UNCHANGED process_current
    /\ UNCHANGED <<ring, capslock>>

Outside == UNCHANGED <<ring, capslock, process_current>>

Next ==
    \/ \E sc \in ScanCode : ps2_handle_interrupt(sc)
    \/ keyboard_pop
    \/ \E p \in Proc : ProcStart(p)
    \/ ProcStartFails
    \/ Exit
    \/ idt_clock /\ Outside
    \/ Compute /\ Outside

Spec == Init /\ [][Next]_vars

-----------------------------------------------------------------------------
(* Properties *)

(* From its head on, the ring of every process holds exactly the keys      *)
(* typed to that process and not yet read, in the order they were typed,   *)
(* wherever the keyboard and the processor were switched in between.       *)
RingHoldsPending ==
    \A p \in Proc : \A i \in Index :
        buffer[p][(head[p] + i) % Size] =
            IF i < Len(pending[p]) THEN pending[p][i + 1] ELSE None

(* getkey() returns the oldest unread key of the process that calls it,    *)
(* and nothing only when there is none.                                    *)
ReadsOldest ==
    [][keyboard_pop =>
         cpu'.eax = IF pending[running] = <<>> THEN None ELSE Head(pending[running])]_vars

(* A program goes on with the general purpose registers, the instruction   *)
(* pointer and the stack pointer it had, the key that getkey() returned    *)
(* among them, whatever interrupts, programs started and programs ended    *)
(* have come in between; and a new program starts at its entry.            *)
RegistersAreKept ==
    /\ cpu.eax = mine[running].eax
    /\ cpu.rest = mine[running].rest
=============================================================================
