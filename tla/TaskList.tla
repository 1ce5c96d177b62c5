------------------------------ MODULE TaskList ------------------------------
(***************************************************************************)
(* The run queue of kernel/task/task.c: a doubly linked list of task       *)
(* structures with task_head, task_tail and task_current, walked round     *)
(* robin by the clock interrupt.  The structures live on the kernel heap:  *)
(* a freed one keeps its pointers until its block is handed out again.     *)
(*                                                                         *)
(* Kernel code runs with interrupts disabled, so an interrupt or a system  *)
(* call is one step.  What is left out of a step here, the process table,  *)
(* is in module Processes.                                                 *)
(***************************************************************************)
EXTENDS Integers, Sequences

CONSTANTS
    Task,   \* the blocks a struct task may occupy
    NULL,
    Wild    \* a pointer read from memory that is no longer a struct task

ASSUME TaskAssumption == NULL \notin Task /\ Wild \notin Task /\ NULL # Wild

VARIABLES
    q,      \* task_head, task_tail, task_current, and each block's next and prev
    live,   \* the blocks that hold a task
    order   \* history: the live tasks, oldest first

vars == <<q, live, order>>

Pointer == Task \cup {NULL, Wild}

-----------------------------------------------------------------------------
(* Mutant: the list does not loop back to its head. *)
NextNoLoop(l) ==
    IF l.next[l.current] = NULL THEN l.current ELSE l.next[l.current]

task_get_next(l) ==
    IF l.next[l.current] = NULL THEN l.head ELSE l.next[l.current]

(* Mutant: the previous task keeps pointing at the removed one. *)
RemoveKeepsNext(l, t) ==
    IF t = l.head THEN [l EXCEPT !.head = l.next[t]]
    ELSE IF t = l.tail THEN [l EXCEPT !.tail = l.prev[t]]
    ELSE IF t = l.current THEN [l EXCEPT !.current = task_get_next(l)]
    ELSE l

(* Mutant: removing the tail leaves task_tail on the freed task. *)
RemoveKeepsTail(l, t) ==
    LET m == IF l.prev[t] = NULL THEN l ELSE [l EXCEPT !.next[l.prev[t]] = l.next[t]]
    IN  IF t = l.head THEN [m EXCEPT !.head = m.next[t]]
        ELSE IF t = l.current THEN [m EXCEPT !.current = task_get_next(m)]
        ELSE m

(* The removal leaves the next task's prev alone, and looks at the head,   *)
(* the tail and the current task as alternatives.                          *)
task_list_remove(l, t) ==
    LET m == IF l.prev[t] = NULL THEN l ELSE [l EXCEPT !.next[l.prev[t]] = l.next[t]]
    IN  IF t = l.head THEN [m EXCEPT !.head = m.next[t]]
        ELSE IF t = l.tail THEN [m EXCEPT !.tail = l.prev[t]]
        ELSE IF t = l.current THEN [m EXCEPT !.current = task_get_next(m)]
        ELSE m

(* Mutant: the first task of a list does not become its tail. *)
NewLosesTail(l, t) ==
    LET m == [l EXCEPT !.next[t] = NULL, !.prev[t] = NULL]
    IN  IF l.head = NULL
        THEN [m EXCEPT !.head = t, !.current = t]
        ELSE [m EXCEPT !.next[l.tail] = t, !.prev[t] = l.tail, !.tail = t]

(* kzalloc() clears the structure before it is linked in. *)
task_new(l, t) ==
    LET m == [l EXCEPT !.next[t] = NULL, !.prev[t] = NULL]
    IN  IF l.head = NULL
        THEN [m EXCEPT !.head = t, !.current = t, !.tail = t]
        ELSE [m EXCEPT !.next[l.tail] = t, !.prev[t] = l.tail, !.tail = t]

task_switch(l, t) == [l EXCEPT !.current = t]

task_switch_next(l) == task_switch(l, task_get_next(l))

-----------------------------------------------------------------------------
(* Boot: process_new_shell() creates the first task, task_run_first() runs *)
(* it.                                                                     *)
Init ==
    \E t \in Task :
        /\ q = task_new([head |-> NULL, tail |-> NULL, current |-> NULL,
                         next |-> [u \in Task |-> NULL],
                         prev |-> [u \in Task |-> NULL]], t)
        /\ live = {t}
        /\ order = <<t>>

(* The kernel can go on only with a task to run. *)
Running == q.current \in live

(* A program is loaded and the caller goes on: its arguments could not be  *)
(* injected.                                                               *)
Load(t) ==
    /\ Running /\ t \notin live
    /\ q' = task_new(q, t)
    /\ live' = live \cup {t}
    /\ order' = Append(order, t)

(* A program is loaded and entered. *)
Start(t) ==
    /\ Running /\ t \notin live
    /\ q' = task_switch(task_new(q, t), t)
    /\ live' = live \cup {t}
    /\ order' = Append(order, t)

(* idt_clock() *)
Clock ==
    /\ Running
    /\ q' = task_switch_next(q)
    /\ UNCHANGED <<live, order>>

Position(t) == CHOOSE k \in 1 .. Len(order) : order[k] = t

Without(k) == [i \in 1 .. (Len(order) - 1) |-> IF i < k THEN order[i] ELSE order[i + 1]]

(* The current task exits, or an exception ends it. *)
Exit ==
    /\ Running /\ live # {q.current}
    /\ q' = task_switch_next(task_list_remove(q, q.current))
    /\ live' = live \ {q.current}
    /\ order' = Without(Position(q.current))

(* The last task exits: process_switch_to_any() spawns a shell, perhaps in *)
(* the block just freed.                                                   *)
LastExit(t) ==
    /\ Running /\ live = {q.current}
    /\ q' = task_switch_next(task_new(task_list_remove(q, q.current), t))
    /\ live' = {t}
    /\ order' = <<t>>

(* The heap hands the block of a freed task to somebody else, who writes   *)
(* what he likes into it.                                                  *)
Reuse(t) ==
    /\ t \notin live
    /\ q' = [q EXCEPT !.next[t] = Wild, !.prev[t] = Wild]
    /\ UNCHANGED <<live, order>>

Others == Clock \/ \E t \in Task : Load(t) \/ Start(t) \/ LastExit(t) \/ Reuse(t)

Next == Others \/ Exit

Spec == Init /\ [][Next]_vars

-----------------------------------------------------------------------------
(* Two restrictions on which programs exit when.                           *)

(* The exiting task's prev still is the task in front of it: no neighbour  *)
(* in front of it has exited before.                                       *)
PrevIsRight ==
    \E k \in 1 .. Len(order) :
        /\ order[k] = q.current
        /\ q.prev[q.current] = IF k = 1 THEN NULL ELSE order[k - 1]

CleanNext == Others \/ (PrevIsRight /\ Exit)

(* The clock interrupts user code for ever. *)
CleanSpec == Init /\ [][CleanNext]_vars /\ WF_vars(Clock)

(* A program that starts another one outlives it. *)
IsNewest == order[Len(order)] = q.current

LifoNext == Others \/ (IsNewest /\ Exit)

LifoSpec == Init /\ [][LifoNext]_vars /\ WF_vars(Clock)

-----------------------------------------------------------------------------
(* Properties *)

(* The shapes of task.c's pointers, and of the history: between two steps  *)
(* of the kernel there is a head, a tail and a current task.               *)
TypeOK ==
    /\ q \in [head : Task, tail : Task, current : Task,
              next : [Task -> Pointer], prev : [Task -> Pointer]]
    /\ live \subseteq Task
    /\ order \in Seq(Task)

(* task_head and the next pointers enumerate exactly the live tasks,       *)
(* oldest first, and task_tail is the youngest: task_list_remove() and     *)
(* task_new() lose no task and keep no freed one.                          *)
QueueIsOrder ==
    /\ order # <<>>
    /\ q.head = order[1] /\ q.tail = order[Len(order)]
    /\ \A k \in 1 .. Len(order) :
          q.next[order[k]] = IF k = Len(order) THEN NULL ELSE order[k + 1]
    /\ live = {order[k] : k \in 1 .. Len(order)}

(* The task that runs is a task that exists ("return current task",        *)
(* task.h): its structure has not been freed.                              *)
CurrentIsLive == q.current \in live

(* Once programs stop starting programs, every task gets the processor.    *)
NobodyStarts == <>[][\A t \in Task : ~Start(t)]_vars

EveryTaskRuns ==
    NobodyStarts => \A t \in Task : t \in live ~> (q.current = t \/ t \notin live)
=============================================================================
