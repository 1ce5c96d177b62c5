----------------------------- MODULE Processes -----------------------------
(***************************************************************************)
(* The process table of kernel/task/process.c on top of the run queue of   *)
(* TaskList: loading a program (syscalls 6 and 7), ending one (syscall 9   *)
(* and CPU exceptions), the clock, and process_current, the process the    *)
(* keyboard writes to.  A load may fail at each of its steps.              *)
(*                                                                         *)
(* struct process is never freed, so processes are numbered in the order   *)
(* of their kzalloc(); MaxProc is where the heap has no room for one more. *)
(***************************************************************************)
EXTENDS Integers, Sequences, FiniteSetsExt

CONSTANTS
    Task, NULL, Wild,   \* see TaskList
    Slots,              \* ENKI_MAX_PROCESSES
    MaxProc,            \* process structures the heap has room for
    Failures            \* the steps of a load that may fail

Failure == {"args", "data", "task", "map"}

ASSUME ProcessesAssumption ==
    /\ Slots \in Nat \ {0} /\ MaxProc \in Nat \ {0} /\ Failures \subseteq Failure
    /\ NULL \notin Task \cup (1 .. MaxProc) /\ Wild \notin Task /\ NULL # Wild

VARIABLES
    q, live, order,     \* the run queue, see TaskList
    owner,              \* task->process
    processes,          \* the table
    process_current,    \* the process with the keyboard
    proc,               \* each process's id and task
    used,               \* process structures allocated so far
    halted,             \* panic(), or a kernel that ran into garbage
    failed              \* history: the steps of loads that have failed

vars == <<q, live, order, owner, processes, process_current, proc, used, halted, failed>>

T == INSTANCE TaskList

Slot == 0 .. (Slots - 1)
Proc == 1 .. MaxProc

FreeSlots(table) == {i \in Slot : table[i] = NULL}

Taken(table) == Slot \ FreeSlots(table)

(* What kzalloc() gives process_load_slot(), and whether it can. *)
fresh == used + 1
CanLoad(table) == used < MaxProc /\ FreeSlots(table) # {}

(* Mutant: the number of processes, counted from one, is taken for the slot. *)
SlotByCount(table) == Cardinality(Taken(table)) + 1

process_get_free_slot(table) == Min(FreeSlots(table))

-----------------------------------------------------------------------------
(* Boot: process_new_shell(), task_run_first() *)
Init ==
    /\ T!Init
    /\ owner = [t \in Task |-> IF t = q.current THEN 1 ELSE NULL]
    /\ processes = [i \in Slot |-> IF i = 0 THEN 1 ELSE NULL]
    /\ process_current = 1
    /\ proc = [p \in Proc |-> [id |-> 0, task |-> IF p = 1 THEN q.current ELSE NULL]]
    /\ used = 1
    /\ halted = FALSE
    /\ failed = {}

Fails(step) == step \in Failures /\ failed' = failed \cup {step}

(* process_load_slot() has built process `fresh` with task t, and it goes  *)
(* into the table it finds.                                                *)
Register(table, t) ==
    LET slot == process_get_free_slot(table)
    IN  /\ processes' = [table EXCEPT ![slot] = fresh]
        /\ proc' = [proc EXCEPT ![fresh] = [id |-> slot, task |-> t]]
        /\ owner' = [owner EXCEPT ![t] = fresh]
        /\ used' = fresh

(* process_load_switch() succeeds, and the syscall enters the program. *)
Start(t) ==
    /\ ~halted /\ CanLoad(processes)
    /\ T!Start(t)
    /\ Register(processes, t)
    /\ process_current' = fresh
    /\ UNCHANGED <<halted, failed>>

(* process_load_switch() succeeds, but syscall_7_system() cannot inject    *)
(* the arguments and returns to its caller.                                *)
StartWithoutArgs(t) ==
    /\ Fails("args")
    /\ ~halted /\ CanLoad(processes)
    /\ T!Load(t)
    /\ Register(processes, t)
    /\ process_current' = fresh
    /\ UNCHANGED halted

(* process_load_slot() gives up before it has a task and calls             *)
(* process_terminate() on a process whose id may still be 0 and whose task *)
(* is NULL: it frees what low memory holds at NULL, and unlinks slot id.   *)
TerminateUnborn(id) ==
    /\ ~halted /\ CanLoad(processes)
    /\ used' = fresh
    /\ \/ /\ processes' = [processes EXCEPT ![id] = NULL]
          /\ UNCHANGED halted
       \/ /\ halted' = TRUE
          /\ UNCHANGED processes
    /\ UNCHANGED <<q, live, order, owner, process_current, proc>>

(* No such file, a broken one, or no memory for the stack. *)
DataFails == Fails("data") /\ TerminateUnborn(0)

(* No memory for the task. *)
TaskFails == Fails("task") /\ TerminateUnborn(process_get_free_slot(processes))

(* process_map_memory() fails: the task stays in the run queue.            *)
MapFails(t) ==
    /\ Fails("map")
    /\ ~halted /\ CanLoad(processes)
    /\ T!Load(t)
    /\ proc' = [proc EXCEPT ![fresh] = [id |-> process_get_free_slot(processes), task |-> t]]
    /\ owner' = [owner EXCEPT ![t] = fresh]
    /\ used' = fresh
    /\ UNCHANGED <<processes, process_current, halted>>

-----------------------------------------------------------------------------
(* Ending the current process *)

ending == owner[q.current]

(* Mutant: process_unlink() clears the slot next to the process's own. *)
UnlinkWrongSlot == [processes EXCEPT ![(proc[ending].id + 1) % Slots] = NULL]

unlinked == [processes EXCEPT ![proc[ending].id] = NULL]

(* Mutant: the keyboard stays with the process that ends. *)
FocusStays == process_current

(* process_switch_to_any(): the first process of the table. *)
focus == IF process_current = ending THEN unlinked[Min(Taken(unlinked))] ELSE process_current

NeedsShell == process_current = ending /\ Taken(unlinked) = {}

(* Mutant: task_free() does not take the task out of the list. *)
ExitKeepsTask ==
    /\ ~halted /\ T!Running /\ ~NeedsShell
    /\ halted' = FALSE /\ q' = T!task_switch_next(q)
    /\ live' = live \ {q.current}
    /\ order' = T!Without(T!Position(q.current))
    /\ processes' = unlinked
    /\ process_current' = focus
    /\ UNCHANGED <<owner, proc, used, failed>>

(* process_terminate(), task_switch_next() *)
Exit ==
    /\ ~halted /\ T!Running /\ ~NeedsShell
    /\ LET l == T!task_list_remove(q, q.current)
       IN  IF T!task_get_next(l) = NULL
           THEN halted' = TRUE /\ q' = l
           ELSE halted' = FALSE /\ q' = T!task_switch_next(l)
    /\ live' = live \ {q.current}
    /\ order' = T!Without(T!Position(q.current))
    /\ processes' = unlinked
    /\ process_current' = focus
    /\ UNCHANGED <<owner, proc, used, failed>>

(* task_switch_next() still reads the next of the task that ended, where   *)
(* task_list_remove() leaves it current: when process_new_shell() has got  *)
(* the block for something else than its task t, kzalloc() has cleared it, *)
(* and somebody may have written into it.                                  *)
Reused(l, t) ==
    IF l.current = q.current /\ t # q.current
    THEN {l} \cup {[l EXCEPT !.next[q.current] = u] : u \in {NULL, Wild}}
    ELSE {l}

(* The same, with process_new_shell() in process_switch_to_any().          *)
ExitToShell(t) ==
    /\ ~halted /\ T!Running /\ NeedsShell /\ CanLoad(unlinked)
    /\ t \notin live \ {q.current}
    /\ \E l \in Reused(T!task_new(T!task_list_remove(q, q.current), t), t) :
          q' = T!task_switch_next(l)
    /\ halted' = (q'.current = Wild)
    /\ live' = (live \ {q.current}) \cup {t}
    /\ order' = Append(T!Without(T!Position(q.current)), t)
    /\ Register(unlinked, t)
    /\ process_current' = fresh
    /\ UNCHANGED failed

(* process_new_shell() panics: the shell cannot be loaded. *)
ExitToPanic ==
    /\ ~halted /\ T!Running /\ NeedsShell
    /\ \/ ~CanLoad(unlinked) /\ UNCHANGED failed
       \/ CanLoad(unlinked) /\ \E step \in {"data", "task", "map"} : Fails(step)
    /\ halted' = TRUE
    /\ q' = T!task_list_remove(q, q.current)
    /\ live' = live \ {q.current}
    /\ order' = T!Without(T!Position(q.current))
    /\ processes' = unlinked
    /\ UNCHANGED <<owner, process_current, proc, used>>

-----------------------------------------------------------------------------
Clock ==
    /\ ~halted /\ T!Clock
    /\ UNCHANGED <<owner, processes, process_current, proc, used, halted, failed>>

Reuse(t) ==
    /\ ~halted /\ T!Reuse(t)
    /\ UNCHANGED <<owner, processes, process_current, proc, used, halted, failed>>

(* for (;;); *)
Hang == halted /\ UNCHANGED vars

(* Tasks exit with a right prev: see TaskList. *)
Next ==
    \/ \E t \in Task : Start(t) \/ StartWithoutArgs(t) \/ MapFails(t)
    \/ DataFails \/ TaskFails
    \/ T!PrevIsRight /\ (Exit \/ ExitToPanic \/ \E t \in Task : ExitToShell(t))
    \/ Clock
    \/ \E t \in Task : Reuse(t)
    \/ Hang

(* The clock interrupts user code for ever. *)
Spec == Init /\ [][Next]_vars /\ WF_vars(Clock)

-----------------------------------------------------------------------------
(* Properties *)

(* The shapes of process.c's state. *)
TypeOK ==
    /\ ~halted => T!TypeOK
    /\ owner \in [Task -> Proc \cup {NULL}]
    /\ processes \in [Slot -> Proc \cup {NULL}]
    /\ process_current \in Proc
    /\ proc \in [Proc -> [id : Slot, task : Task \cup {NULL}]]
    /\ used \in Proc
    /\ halted \in BOOLEAN
    /\ failed \subseteq Failures

IsRunning(p) == proc[p].task \in live /\ owner[proc[p].task] = p

(* Keys go to a process that is there to read them: process_current has a  *)
(* live task, through every exit, exception and failed load.               *)
FocusIsRunning == ~halted => IsRunning(process_current)

(* process_switch_to_any() can only find processes that are running.       *)
TableIsRunning == ~halted => \A i \in Taken(processes) : IsRunning(processes[i])

(* The kernel dies of its own only when the heap has no room for another   *)
(* struct process, or in a load that fails before its process is complete: *)
(* never because task_switch_next() finds no task.                         *)
DiesOnlyOutOfMemory ==
    halted => used = MaxProc \/ failed \cap {"data", "task", "map"} # {}

(* Every task of the run queue is in the table, under its id ("fetch       *)
(* process by id", process.h), and nothing else is.                        *)
RunningIsRegistered ==
    ~halted =>
        /\ \A t \in live : processes[proc[owner[t]].id] = owner[t]
        /\ TableIsRunning

(* It stays so until the file of a program cannot be loaded, or its memory *)
(* not be mapped: whatever order programs start and end in, and when there *)
(* is no memory for their arguments or their task.                         *)
RegisteredUntilFailure == failed \subseteq {"args", "task"} => RunningIsRegistered

(* The process with the keyboard gets the processor.                       *)
FocusRuns ==
    \A p \in Proc :
        process_current = p ~> (process_current # p \/ halted \/ owner[q.current] = p)

(* What the process layer does to the run queue is what TaskList allows,   *)
(* up to the step in which the kernel dies, or a load leaves a running     *)
(* task out of the table.                                                  *)
QueueRefined ==
    T!Init /\ [][T!Next \/ halted' \/ ~(failed' \subseteq {"args", "task"})]_<<q, live, order>>
=============================================================================
