-------------------------- MODULE ProcessesProofs --------------------------
(***************************************************************************)
(* Proofs about Processes, for every number of slots, processes and task   *)
(* blocks, and whichever steps of a load fail.                             *)
(***************************************************************************)
EXTENDS Processes, WellFoundedInduction, TLAPS

TP == INSTANCE TaskListProofs

-----------------------------------------------------------------------------
(* TaskListProofs, instantiated, speaks of the operators of TaskList. *)

(* The operators on lists are the same.                                    *)
LEMMA SameOperators ==
    /\ \A l, t : T!task_new(l, t) = TP!task_new(l, t)
    /\ \A l : T!task_get_next(l) = TP!task_get_next(l)
    /\ \A l, t : T!task_list_remove(l, t) = TP!task_list_remove(l, t)
    /\ \A l : T!task_switch_next(l) = TP!task_switch_next(l)
    /\ \A t : T!Position(t) = TP!Position(t)
    /\ \A k : T!Without(k) = TP!Without(k)
<1>1. \A l, t : T!task_new(l, t) = TP!task_new(l, t)
  BY DEF T!task_new, TP!task_new
<1>2. \A l : T!task_get_next(l) = TP!task_get_next(l)
  BY DEF T!task_get_next, TP!task_get_next
<1>3. \A l, t : T!task_list_remove(l, t) = TP!task_list_remove(l, t)
  BY DEF T!task_list_remove, TP!task_list_remove, T!task_get_next, TP!task_get_next
<1>4. \A l : T!task_switch_next(l) = TP!task_switch_next(l)
  BY DEF T!task_switch_next, TP!task_switch_next, T!task_switch, TP!task_switch,
         T!task_get_next, TP!task_get_next
<1>5. \A t : T!Position(t) = TP!Position(t)
  BY DEF T!Position, TP!Position
<1>6. \A k : T!Without(k) = TP!Without(k)
  BY DEF T!Without, TP!Without
<1> QED
  BY <1>1, <1>2, <1>3, <1>4, <1>5, <1>6

(* And so are the steps and the states of the queue. *)
LEMMA SameSteps ==
    /\ T!Init <=> TP!Init
    /\ \A t \in Task : T!Start(t) \/ T!Load(t) \/ T!Reuse(t) => TP!Others
    /\ T!Clock => TP!Others
    /\ T!PrevIsRight <=> TP!PrevIsRight
    /\ T!Running <=> TP!CurrentIsLive
<1>1. T!Init <=> TP!Init
  BY DEF T!Init, TP!Init, T!task_new, TP!task_new
<1>2. \A t : T!Start(t) <=> TP!Start(t)
  BY DEF T!Start, TP!Start, T!task_new, TP!task_new, T!task_switch, TP!task_switch, T!Running, TP!Running
<1>3. \A t : T!Load(t) <=> TP!Load(t)
  BY DEF T!Load, TP!Load, T!task_new, TP!task_new, T!Running, TP!Running
<1>4. \A t : T!Reuse(t) <=> TP!Reuse(t)
  BY DEF T!Reuse, TP!Reuse
<1>5. T!Clock <=> TP!Clock
  BY SameOperators DEF T!Clock, TP!Clock, T!Running, TP!Running
<1>6. T!PrevIsRight <=> TP!PrevIsRight
  BY DEF T!PrevIsRight, TP!PrevIsRight
<1>7. T!Running <=> TP!CurrentIsLive
  BY DEF T!Running, TP!CurrentIsLive
<1> QED
  BY <1>1, <1>2, <1>3, <1>4, <1>5, <1>6, <1>7 DEF TP!Others

-----------------------------------------------------------------------------
(* The inductive invariant *)

Types ==
    /\ owner \in [Task -> Proc \cup {NULL}]
    /\ processes \in [Slot -> Proc \cup {NULL}]
    /\ process_current \in Proc
    /\ proc \in [Proc -> [id : Slot, task : Task \cup {NULL}]]
    /\ used \in Proc
    /\ halted \in BOOLEAN
    /\ failed \subseteq Failures

(* Every task of L belongs to a process, which points back to it. *)
OwnedIn(L) == \A t \in L : owner[t] \in 1 .. used /\ proc[owner[t]].task = t

(* Every process of the table has its task in L, and stands in the slot of *)
(* its id.                                                                 *)
RowsIn(table, L) ==
    \A i \in Taken(table) :
        /\ proc[table[i]].task \in L
        /\ owner[proc[table[i]].task] = table[i]
        /\ proc[table[i]].id = i

(* Every task of L has its process in the table. *)
RegisteredIn(table, L) == \A t \in L : table[proc[owner[t]].id] = owner[t]

NothingLost == failed \subseteq {"args", "task"}

(* The queue is intact, tasks and processes belong together, the table and *)
(* the keyboard know only processes that run; and unless a load has lost   *)
(* one, the table knows all of them.                                       *)
UpAndRunning ==
    /\ TP!IInv
    /\ OwnedIn(live)
    /\ RowsIn(processes, live)
    /\ IsRunning(process_current)
    /\ NothingLost => RegisteredIn(processes, live)

PInv == Types /\ DiesOnlyOutOfMemory /\ (~halted => UpAndRunning)

-----------------------------------------------------------------------------
(* Slots *)

(* Min, which picks the first slot, is a member of its set. *)
LEMMA FirstIsMember ==
    ASSUME NEW S \in SUBSET Slot, S # {}
    PROVE  Min(S) \in S
<1>0. S \subseteq Nat
  BY ProcessesAssumption DEF Slot
<1>1. PICK x \in S : \A y \in S : ~(<<y, x>> \in OpToRel(<, Nat))
  BY <1>0, NatLessThanWellFounded, WFMin
<1>2. \A y \in S : ~(y < x)
  BY <1>0, <1>1, Zenon DEF OpToRel
<1>3. \A y \in S : x =< y
  BY <1>0, <1>2
<1> QED
  BY <1>3 DEF Min

(* process_get_free_slot() finds a free slot if there is one. *)
LEMMA FreeSlotIsFree ==
    ASSUME NEW table, FreeSlots(table) # {}
    PROVE  process_get_free_slot(table) \in Slot /\ table[process_get_free_slot(table)] = NULL
<1>1. FreeSlots(table) \in SUBSET Slot
  BY DEF FreeSlots
<1>2. process_get_free_slot(table) \in FreeSlots(table)
  BY <1>1, FirstIsMember DEF process_get_free_slot
<1> QED
  BY <1>2 DEF FreeSlots

(* Loading a process onto the tasks L and a table without its task. *)
LEMMA RegisterEffect ==
    ASSUME Types, NEW L \in SUBSET Task, NEW table \in [Slot -> Proc \cup {NULL}],
           OwnedIn(L), RowsIn(table, L), CanLoad(table),
           NEW t \in Task, t \notin L, Register(table, t), live' = L \cup {t}
    PROVE  /\ owner' \in [Task -> Proc \cup {NULL}]
           /\ processes' \in [Slot -> Proc \cup {NULL}]
           /\ proc' \in [Proc -> [id : Slot, task : Task \cup {NULL}]]
           /\ used' \in Proc /\ fresh \in Proc
           /\ OwnedIn(live)'
           /\ RowsIn(processes, live)'
           /\ proc'[fresh].task \in live' /\ owner'[proc'[fresh].task] = fresh
           /\ RegisteredIn(table, L) => RegisteredIn(processes, live)'
<1> DEFINE s == process_get_free_slot(table)
<1>1. /\ processes' = [table EXCEPT ![s] = fresh]
      /\ proc' = [proc EXCEPT ![fresh] = [id |-> s, task |-> t]]
      /\ owner' = [owner EXCEPT ![t] = fresh]
      /\ used' = fresh
  BY DEF Register
<1>2. s \in Slot /\ table[s] = NULL
  BY FreeSlotIsFree DEF CanLoad
<1>3. /\ fresh \in Proc /\ fresh = used + 1 /\ used \in Nat /\ fresh \notin 1 .. used
      /\ 1 .. used \subseteq Proc /\ 1 .. used \subseteq 1 .. fresh /\ fresh \in 1 .. fresh
      /\ fresh # NULL
  BY ProcessesAssumption DEF Types, CanLoad, fresh, Proc
<1> HIDE DEF s
<1>4. /\ owner' \in [Task -> Proc \cup {NULL}]
      /\ processes' \in [Slot -> Proc \cup {NULL}]
      /\ proc' \in [Proc -> [id : Slot, task : Task \cup {NULL}]]
  BY <1>1, <1>2, <1>3 DEF Types
<1>5. owner'[t] = fresh /\ proc'[fresh].task = t /\ proc'[fresh].id = s /\ processes'[s] = fresh
  BY <1>1, <1>2, <1>3 DEF Types
<1>6. ASSUME NEW u \in L
      PROVE  owner'[u] = owner[u] /\ owner[u] \in 1 .. used /\ proc'[owner[u]] = proc[owner[u]]
             /\ proc[owner[u]].task = u
  <2>1. u \in Task /\ u # t /\ owner[u] \in 1 .. used /\ proc[owner[u]].task = u
    BY <1>6 DEF OwnedIn
  <2> QED
    BY <1>1, <1>3, <2>1 DEF Types
<1>7. OwnedIn(live)'
  <2> SUFFICES ASSUME NEW u \in L \cup {t}
               PROVE  owner'[u] \in 1 .. fresh /\ proc'[owner'[u]].task = u
    BY <1>1 DEF OwnedIn
  <2> QED
    BY <1>3, <1>5, <1>6
<1>8. RowsIn(processes, live)'
  <2> SUFFICES ASSUME NEW i \in Slot, processes'[i] # NULL
               PROVE  /\ proc'[processes'[i]].task \in L \cup {t}
                      /\ owner'[proc'[processes'[i]].task] = processes'[i]
                      /\ proc'[processes'[i]].id = i
    BY DEF RowsIn, Taken, FreeSlots
  <2>1. CASE i = s
    BY <1>5, <2>1
  <2>2. CASE i # s
    <3>1. processes'[i] = table[i] /\ i \in Taken(table)
      BY <1>1, <1>2, <2>2 DEF Taken, FreeSlots
    <3>2. proc[table[i]].task \in L /\ owner[proc[table[i]].task] = table[i] /\ proc[table[i]].id = i
      BY <3>1 DEF RowsIn
    <3> QED
      BY <1>6, <3>1, <3>2
  <2> QED
    BY <2>1, <2>2
<1>9. ASSUME RegisteredIn(table, L)
      PROVE  RegisteredIn(processes, live)'
  <2> SUFFICES ASSUME NEW u \in L \cup {t}
               PROVE  processes'[proc'[owner'[u]].id] = owner'[u]
    BY DEF RegisteredIn
  <2>1. CASE u = t
    BY <1>5, <2>1
  <2>2. CASE u \in L
    <3>1. table[proc[owner[u]].id] = owner[u] /\ owner[u] \in Proc
      BY <1>3, <1>6, <1>9, <2>2 DEF RegisteredIn
    <3>2. proc[owner[u]].id \in Slot /\ proc[owner[u]].id # s
      BY <1>2, <3>1, ProcessesAssumption DEF Types, Proc
    <3>3. owner'[u] = owner[u] /\ proc'[owner[u]] = proc[owner[u]]
      BY <1>6, <2>2
    <3> QED
      BY <1>1, <3>1, <3>2, <3>3
  <2> QED
    BY <2>1, <2>2
<1> QED
  BY <1>1, <1>3, <1>4, <1>5, <1>7, <1>8, <1>9

(* The process that ends, and the table without it. *)
LEMMA UnlinkEffect ==
    ASSUME Types, UpAndRunning
    PROVE  /\ q.current \in live /\ live \subseteq Task
           /\ ending \in Proc /\ proc[ending].id \in Slot /\ proc[ending].task = q.current
           /\ unlinked \in [Slot -> Proc \cup {NULL}]
           /\ FreeSlots(unlinked) # {}
           /\ OwnedIn(live \ {q.current})
           /\ RowsIn(unlinked, live \ {q.current})
           /\ NothingLost => RegisteredIn(unlinked, live \ {q.current})
           /\ process_current # ending =>
                 /\ proc[process_current].task \in live \ {q.current}
                 /\ owner[proc[process_current].task] = process_current
<1> DEFINE L == live \ {q.current}
<1>1. q.current \in live /\ live \subseteq Task
  BY DEF UpAndRunning, TP!IInv, TP!CurrentIsLive, TP!Shape
<1>2. ending \in 1 .. used /\ proc[ending].task = q.current
  BY <1>1 DEF UpAndRunning, OwnedIn, ending
<1>3. 1 .. used \subseteq Proc /\ NULL \notin Proc
  BY ProcessesAssumption DEF Types, Proc
<1>4. ending \in Proc /\ proc[ending].id \in Slot
  BY <1>2, <1>3 DEF Types
<1>5. /\ unlinked \in [Slot -> Proc \cup {NULL}] /\ unlinked[proc[ending].id] = NULL
      /\ \A i \in Slot \ {proc[ending].id} : unlinked[i] = processes[i]
  BY <1>4 DEF unlinked, Types
<1>6. FreeSlots(unlinked) # {}
  BY <1>4, <1>5 DEF FreeSlots
<1>7. OwnedIn(L)
  BY DEF UpAndRunning, OwnedIn
<1>8. RowsIn(unlinked, L)
  <2> SUFFICES ASSUME NEW i \in Slot, unlinked[i] # NULL
               PROVE  /\ proc[unlinked[i]].task \in L
                      /\ owner[proc[unlinked[i]].task] = unlinked[i]
                      /\ proc[unlinked[i]].id = i
    BY DEF RowsIn, Taken, FreeSlots
  <2>1. i # proc[ending].id /\ unlinked[i] = processes[i] /\ i \in Taken(processes)
    BY <1>5 DEF Taken, FreeSlots
  <2>2. /\ proc[processes[i]].task \in live
        /\ owner[proc[processes[i]].task] = processes[i]
        /\ proc[processes[i]].id = i
    BY <2>1 DEF UpAndRunning, RowsIn
  <2>3. proc[processes[i]].task # q.current
    BY <2>1, <2>2 DEF ending
  <2> QED
    BY <2>1, <2>2, <2>3
<1>9. ASSUME NothingLost
      PROVE  RegisteredIn(unlinked, L)
  <2> SUFFICES ASSUME NEW u \in L
               PROVE  unlinked[proc[owner[u]].id] = owner[u]
    BY DEF RegisteredIn
  <2>1. /\ processes[proc[owner[u]].id] = owner[u] /\ processes[proc[ending].id] = ending
        /\ owner[u] \in Proc /\ proc[owner[u]].task = u
    BY <1>1, <1>3, <1>9 DEF UpAndRunning, RegisteredIn, OwnedIn, ending
  <2>2. owner[u] # ending
    BY <1>2, <2>1
  <2>3. proc[owner[u]].id # proc[ending].id /\ proc[owner[u]].id \in Slot
    BY <2>1, <2>2 DEF Types
  <2> QED
    BY <1>5, <2>1, <2>3
<1>10. ASSUME process_current # ending
       PROVE  /\ proc[process_current].task \in L
              /\ owner[proc[process_current].task] = process_current
  BY <1>10 DEF UpAndRunning, IsRunning, ending
<1> QED
  BY <1>1, <1>2, <1>4, <1>5, <1>6, <1>7, <1>8, <1>9, <1>10

-----------------------------------------------------------------------------
(* Steps *)

(* Boot leaves the shell, with the keyboard, in slot 0. *)
LEMMA InitPInv == Init => PInv
<1> SUFFICES ASSUME Init
             PROVE  PInv
  OBVIOUS
<1>1. TP!IInv
  BY SameSteps, TP!InitIInv, ProcessesAssumption DEF Init
<1>2. PICK t \in Task : live = {t} /\ q.current = t
  <2>1. PICK t \in Task : live = {t}
    BY DEF Init, T!Init
  <2>2. q.current \in live
    BY <1>1 DEF TP!IInv, TP!CurrentIsLive
  <2> QED
    BY <2>1, <2>2
<1>3. 1 \in Proc /\ 0 \in Slot /\ 1 \in 1 .. 1
  BY ProcessesAssumption DEF Proc, Slot
<1>4. Types
  BY <1>2, <1>3 DEF Init, Types
<1>5. owner[t] = 1 /\ proc[1].task = t /\ proc[1].id = 0 /\ processes[0] = 1 /\ used = 1
  BY <1>2, <1>3 DEF Init
<1>6. OwnedIn(live) /\ RegisteredIn(processes, live) /\ IsRunning(process_current)
  BY <1>2, <1>3, <1>5 DEF Init, OwnedIn, RegisteredIn, IsRunning
<1>7. RowsIn(processes, live)
  BY <1>2, <1>5 DEF Init, RowsIn, Taken, FreeSlots
<1> QED
  BY <1>1, <1>4, <1>6, <1>7 DEF PInv, UpAndRunning, DiesOnlyOutOfMemory, Init

(* A program is loaded, and runs or is left without its arguments. *)
LEMMA LoadPInv ==
    ASSUME PInv, NEW t \in Task, Start(t) \/ StartWithoutArgs(t)
    PROVE  PInv'
<1>1. /\ Types /\ UpAndRunning /\ ~halted /\ halted' = halted
      /\ CanLoad(processes) /\ (T!Start(t) \/ T!Load(t))
      /\ Register(processes, t) /\ process_current' = fresh
  BY DEF PInv, Start, StartWithoutArgs
<1>2. failed' \subseteq Failures /\ (NothingLost' => NothingLost)
  BY <1>1 DEF Start, StartWithoutArgs, Fails, NothingLost, Types
<1>3. TP!IInv'
  BY <1>1, SameSteps, TP!OthersIInv, ProcessesAssumption DEF UpAndRunning
<1>4. t \notin live /\ live' = live \cup {t} /\ live \in SUBSET Task
  BY <1>1 DEF T!Start, T!Load, UpAndRunning, TP!IInv, TP!Shape
<1>5. processes \in [Slot -> Proc \cup {NULL}] /\ OwnedIn(live) /\ RowsIn(processes, live)
  BY <1>1 DEF Types, UpAndRunning
<1>6. /\ owner' \in [Task -> Proc \cup {NULL}]
      /\ processes' \in [Slot -> Proc \cup {NULL}]
      /\ proc' \in [Proc -> [id : Slot, task : Task \cup {NULL}]]
      /\ used' \in Proc /\ fresh \in Proc
      /\ OwnedIn(live)'
      /\ RowsIn(processes, live)'
      /\ proc'[fresh].task \in live' /\ owner'[proc'[fresh].task] = fresh
      /\ RegisteredIn(processes, live) => RegisteredIn(processes, live)'
  BY <1>1, <1>4, <1>5, RegisterEffect
<1>7. Types'
  BY <1>1, <1>2, <1>6 DEF Types
<1>8. IsRunning(process_current)'
  BY <1>1, <1>6 DEF IsRunning
<1>9. UpAndRunning'
  BY <1>1, <1>2, <1>3, <1>6, <1>8 DEF UpAndRunning
<1> QED
  BY <1>1, <1>7, <1>9 DEF PInv, DiesOnlyOutOfMemory

(* A load that fails before it has a task takes a slot's entry away, or    *)
(* the kernel down.                                                        *)
LEMMA UnbornPInv ==
    ASSUME PInv, DataFails \/ TaskFails
    PROVE  PInv'
<1>1. PICK s \in {"data", "task"}, i \in Slot :
        /\ Fails(s) /\ TerminateUnborn(i)
        /\ s = "task" => processes[i] = NULL
  <2>1. CASE DataFails
    BY <2>1, ProcessesAssumption DEF DataFails, Slot
  <2>2. CASE TaskFails
    <3>1. FreeSlots(processes) # {}
      BY <2>2 DEF TaskFails, TerminateUnborn, CanLoad
    <3> QED
      BY <2>2, <3>1, FreeSlotIsFree DEF TaskFails
  <2> QED
    BY <2>1, <2>2
<1>2. /\ Types /\ UpAndRunning /\ ~halted /\ used < MaxProc /\ used' = used + 1
      /\ s \in Failures /\ failed' = failed \cup {s}
      /\ UNCHANGED <<q, live, order, owner, process_current, proc>>
  BY <1>1 DEF PInv, TerminateUnborn, CanLoad, Fails, fresh
<1>3. used' \in Proc /\ 1 .. used \subseteq 1 .. used'
  BY <1>2, ProcessesAssumption DEF Types, Proc
<1>4. DiesOnlyOutOfMemory'
  BY <1>1, <1>2 DEF DiesOnlyOutOfMemory
<1>5. CASE halted' = TRUE /\ processes' = processes
  BY <1>2, <1>3, <1>4, <1>5 DEF PInv, Types
<1>6. CASE processes' = [processes EXCEPT ![i] = NULL] /\ halted' = halted
  <2>1. Types'
    BY <1>2, <1>3, <1>6 DEF Types
  <2>2. TP!IInv' /\ IsRunning(process_current)'
    BY <1>2 DEF UpAndRunning, IsRunning, TP!IInv, TP!Shape, TP!QueueIsOrder, TP!CurrentIsLive, TP!Distinct
  <2>3. OwnedIn(live)'
    BY <1>2, <1>3 DEF UpAndRunning, OwnedIn
  <2>4. \A j \in Slot : processes'[j] # NULL => processes'[j] = processes[j]
    BY <1>2, <1>6 DEF Types
  <2>5. RowsIn(processes, live)'
    BY <1>2, <2>4 DEF UpAndRunning, RowsIn, Taken, FreeSlots
  <2>6. ASSUME NothingLost'
        PROVE  RegisteredIn(processes, live)'
    <3>1. NothingLost /\ s = "task"
      BY <1>1, <1>2, <2>6 DEF NothingLost
    <3>2. processes' = processes
      BY <1>1, <1>2, <1>6, <3>1 DEF Types
    <3> QED
      BY <1>2, <3>1, <3>2 DEF UpAndRunning, RegisteredIn
  <2>7. UpAndRunning'
    BY <2>2, <2>3, <2>5, <2>6 DEF UpAndRunning
  <2> QED
    BY <1>4, <2>1, <2>7 DEF PInv
<1> QED
  BY <1>1, <1>5, <1>6 DEF TerminateUnborn

(* A load that fails to map its memory leaves its task behind. *)
LEMMA MapFailsPInv ==
    ASSUME PInv, NEW t \in Task, MapFails(t)
    PROVE  PInv'
<1> DEFINE s == process_get_free_slot(processes)
<1>1. /\ Types /\ UpAndRunning /\ ~halted /\ halted' = halted
      /\ CanLoad(processes) /\ T!Load(t)
      /\ proc' = [proc EXCEPT ![fresh] = [id |-> s, task |-> t]]
      /\ owner' = [owner EXCEPT ![t] = fresh]
      /\ used' = fresh /\ processes' = processes /\ process_current' = process_current
      /\ "map" \in Failures /\ failed' = failed \cup {"map"}
  BY DEF PInv, MapFails, Fails
<1>2. TP!IInv'
  BY <1>1, SameSteps, TP!OthersIInv, ProcessesAssumption DEF UpAndRunning
<1>3. t \notin live /\ live' = live \cup {t} /\ live \subseteq Task
  BY <1>1 DEF T!Load, UpAndRunning, TP!IInv, TP!Shape
<1>4. s \in Slot
  BY <1>1, FreeSlotIsFree DEF CanLoad
<1>5. /\ fresh \in Proc /\ fresh = used + 1 /\ used \in Nat /\ fresh \notin 1 .. used
      /\ 1 .. used \subseteq Proc /\ 1 .. used \subseteq 1 .. fresh /\ fresh \in 1 .. fresh
  BY <1>1, ProcessesAssumption DEF Types, CanLoad, fresh, Proc
<1> HIDE DEF s
<1>6. Types'
  BY <1>1, <1>4, <1>5 DEF Types
<1>7. owner'[t] = fresh /\ proc'[fresh].task = t
  BY <1>1, <1>4, <1>5 DEF Types
<1>8. ASSUME NEW u \in live
      PROVE  owner'[u] = owner[u] /\ owner[u] \in 1 .. used /\ proc'[owner[u]] = proc[owner[u]]
             /\ proc[owner[u]].task = u
  <2>1. u \in Task /\ u # t /\ owner[u] \in 1 .. used /\ proc[owner[u]].task = u
    BY <1>1, <1>3, <1>8 DEF UpAndRunning, OwnedIn
  <2> QED
    BY <1>1, <1>5, <2>1 DEF Types
<1>9. OwnedIn(live)'
  <2> SUFFICES ASSUME NEW u \in live \cup {t}
               PROVE  owner'[u] \in 1 .. fresh /\ proc'[owner'[u]].task = u
    BY <1>1, <1>3 DEF OwnedIn
  <2> QED
    BY <1>5, <1>7, <1>8
<1>10. RowsIn(processes, live)'
  <2> SUFFICES ASSUME NEW i \in Taken(processes)
               PROVE  /\ proc'[processes[i]].task \in live \cup {t}
                      /\ owner'[proc'[processes[i]].task] = processes[i]
                      /\ proc'[processes[i]].id = i
    BY <1>1, <1>3 DEF RowsIn, Taken, FreeSlots
  <2>1. /\ proc[processes[i]].task \in live
        /\ owner[proc[processes[i]].task] = processes[i]
        /\ proc[processes[i]].id = i
    BY <1>1 DEF UpAndRunning, RowsIn
  <2> QED
    BY <1>8, <2>1
<1>11. IsRunning(process_current)'
  <2>1. proc[process_current].task \in live /\ owner[proc[process_current].task] = process_current
    BY <1>1 DEF UpAndRunning, IsRunning
  <2> QED
    BY <1>1, <1>3, <1>8, <2>1 DEF IsRunning
<1>12. ~NothingLost'
  BY <1>1 DEF NothingLost
<1> QED
  BY <1>1, <1>2, <1>6, <1>9, <1>10, <1>11, <1>12 DEF PInv, UpAndRunning, DiesOnlyOutOfMemory

(* Without a need for a new shell, another task is there. *)
LEMMA AnotherTask ==
    ASSUME Types, UpAndRunning, ~NeedsShell
    PROVE  live # {q.current}
<1>1. CASE process_current # ending
  BY <1>1, UnlinkEffect
<1>2. CASE process_current = ending
  <2>1. PICK i \in Taken(unlinked) : TRUE
    BY <1>2 DEF NeedsShell
  <2>2. proc[unlinked[i]].task \in live \ {q.current}
    BY <2>1, UnlinkEffect DEF RowsIn
  <2> QED
    BY <2>2
<1> QED
  BY <1>1, <1>2

(* The process that gets the keyboard is one that goes on. *)
LEMMA FocusGoesOn ==
    ASSUME Types, UpAndRunning, ~NeedsShell
    PROVE  /\ focus \in Proc
           /\ proc[focus].task \in live \ {q.current}
           /\ owner[proc[focus].task] = focus
<1>1. CASE process_current # ending
  BY <1>1, UnlinkEffect DEF focus, Types
<1>2. CASE process_current = ending
  <2> DEFINE i == Min(Taken(unlinked))
  <2>1. Taken(unlinked) \in SUBSET Slot /\ Taken(unlinked) # {}
    BY <1>2 DEF NeedsShell, Taken
  <2>2. i \in Taken(unlinked)
    BY <2>1, FirstIsMember
  <2>3. focus = unlinked[i]
    BY <1>2 DEF focus
  <2> HIDE DEF i
  <2>4. unlinked[i] \in Proc
    BY <2>2, UnlinkEffect DEF Taken, FreeSlots
  <2>5. /\ proc[unlinked[i]].task \in live \ {q.current}
        /\ owner[proc[unlinked[i]].task] = unlinked[i]
    BY <2>2, UnlinkEffect DEF RowsIn
  <2> QED
    BY <2>3, <2>4, <2>5
<1> QED
  BY <1>1, <1>2

(* A process ends and the kernel goes on: task_switch_next() finds a task. *)
LEMMA ExitPInv ==
    ASSUME PInv, T!PrevIsRight, Exit
    PROVE  PInv' /\ T!Exit
<1> DEFINE l == T!task_list_remove(q, q.current)
           L == live \ {q.current}
<1>1. /\ Types /\ UpAndRunning /\ ~halted /\ T!Running /\ ~NeedsShell
      /\ live' = L /\ order' = T!Without(T!Position(q.current))
      /\ processes' = unlinked /\ process_current' = focus
      /\ UNCHANGED <<owner, proc, used, failed>>
  BY DEF PInv, Exit
<1>2. TP!IInv /\ TP!PrevIsRight /\ live # {q.current} /\ live \subseteq Task
  BY <1>1, SameSteps, AnotherTask, UnlinkEffect DEF UpAndRunning
<1>3. TP!task_get_next(TP!task_list_remove(q, q.current)) \in L
  BY <1>2, TP!NextAfterExit, ProcessesAssumption
<1>4. T!task_get_next(l) # NULL
  BY <1>2, <1>3, SameOperators, ProcessesAssumption
<1>5. halted' = FALSE /\ q' = T!task_switch_next(l)
  BY <1>4 DEF Exit
<1>6. T!Exit
  BY <1>1, <1>2, <1>5 DEF T!Exit
<1>7. TP!Exit
  <2>1. q' = TP!task_switch_next(TP!task_list_remove(q, q.current))
    BY <1>5, SameOperators
  <2>2. order' = TP!Without(TP!Position(q.current))
    BY <1>1, SameOperators
  <2> QED
    BY <1>1, <1>2, <2>1, <2>2 DEF TP!Exit, TP!Running, T!Running
<1>8. TP!IInv'
  BY <1>2, <1>7, TP!CleanNextIInv, ProcessesAssumption DEF TP!CleanNext
<1>9. /\ focus \in Proc /\ proc[focus].task \in L /\ owner[proc[focus].task] = focus
  BY <1>1, FocusGoesOn
<1>10. /\ unlinked \in [Slot -> Proc \cup {NULL}]
       /\ OwnedIn(L) /\ RowsIn(unlinked, L)
       /\ NothingLost => RegisteredIn(unlinked, L)
  BY <1>1, UnlinkEffect
<1>11. Types'
  BY <1>1, <1>5, <1>9, <1>10 DEF Types
<1>12. OwnedIn(live)' /\ RowsIn(processes, live)' /\ IsRunning(process_current)'
  BY <1>1, <1>9, <1>10 DEF OwnedIn, RowsIn, IsRunning, Taken, FreeSlots
<1>13. NothingLost' => RegisteredIn(processes, live)'
  BY <1>1, <1>10 DEF NothingLost, RegisteredIn
<1> QED
  BY <1>5, <1>6, <1>8, <1>11, <1>12, <1>13 DEF PInv, UpAndRunning, DiesOnlyOutOfMemory

(* While the table knows every task, a shell is only needed for the last.  *)
LEMMA OnlyTheLastNeedsShell ==
    ASSUME Types, UpAndRunning, NothingLost, NeedsShell
    PROVE  live = {q.current}
<1>1. RegisteredIn(unlinked, live \ {q.current}) /\ OwnedIn(live \ {q.current}) /\ q.current \in live
  BY UnlinkEffect
<1>2. ASSUME NEW u \in live \ {q.current}
      PROVE  FALSE
  <2>1. unlinked[proc[owner[u]].id] = owner[u] /\ owner[u] \in 1 .. used
    BY <1>1, <1>2 DEF RegisteredIn, OwnedIn
  <2>2. owner[u] \in Proc /\ owner[u] # NULL
    BY <2>1, ProcessesAssumption DEF Types, Proc
  <2>3. proc[owner[u]].id \in Taken(unlinked)
    BY <2>1, <2>2 DEF Types, Taken, FreeSlots
  <2> QED
    BY <2>3 DEF NeedsShell
<1> QED
  BY <1>1, <1>2

(* What task_switch_next() reads when a shell takes over: what task_new()  *)
(* left, or the freed block with something else in it, if tasks remain.    *)
LEMMA ShellReads ==
    ASSUME UpAndRunning, NEW t \in Task,
           NEW l \in Reused(T!task_new(T!task_list_remove(q, q.current), t), t)
    PROVE  LET x == TP!task_new(TP!task_list_remove(q, q.current), t)
           IN  /\ x \in TP!List /\ q.current \in Task
               /\ \/ l = x
                  \/ /\ x.current = q.current /\ t # q.current /\ live # {q.current}
                     /\ \/ l = [x EXCEPT !.next[q.current] = NULL]
                        \/ l = [x EXCEPT !.next[q.current] = Wild]
<1> DEFINE x == TP!task_new(TP!task_list_remove(q, q.current), t)
<1>1. q \in TP!List /\ q.current \in Task /\ TP!IInv
  BY DEF UpAndRunning, TP!IInv, TP!Shape, TP!CurrentIsLive, TP!List
<1>2. TP!task_list_remove(q, q.current) \in TP!List
  BY <1>1, TP!RemoveType, ProcessesAssumption
<1>3. x \in TP!List
  BY <1>2, TP!NewType, ProcessesAssumption
<1>4. live = {q.current} => x.current = t
  BY <1>1, TP!AloneReadsNew, ProcessesAssumption
<1>5. l \in Reused(x, t)
  BY SameOperators
<1> QED
  BY <1>1, <1>3, <1>4, <1>5 DEF Reused

(* The queue is intact after that, or the kernel has run into what was     *)
(* written over the task that ended: only when a load has lost a process.  *)
LEMMA ShellQueue ==
    ASSUME Types, UpAndRunning, T!PrevIsRight, NEW t \in Task, ExitToShell(t)
    PROVE  (TP!IInv' /\ halted' = FALSE) \/ (~NothingLost /\ halted' = TRUE)
<1> DEFINE c == q.current
           x == TP!task_new(TP!task_list_remove(q, c), t)
<1>1. TP!IInv /\ TP!PrevIsRight
  BY SameSteps DEF UpAndRunning
<1>2. PICK l \in Reused(T!task_new(T!task_list_remove(q, c), t), t) : q' = TP!task_switch_next(l)
  BY SameOperators DEF ExitToShell
<1>3. /\ halted' = (q'.current = Wild) /\ NeedsShell
      /\ t \notin live \ {c} /\ live' = (live \ {c}) \cup {t}
      /\ order' = Append(TP!Without(TP!Position(c)), t)
  BY SameOperators DEF ExitToShell
<1>4. /\ x \in TP!List /\ c \in Task
      /\ \/ l = x
         \/ /\ x.current = c /\ t # c /\ live # {c}
            /\ l = [x EXCEPT !.next[c] = NULL] \/ l = [x EXCEPT !.next[c] = Wild]
  BY ShellReads
<1>5. CASE l = x \/ (x.current = c /\ t # c /\ l = [x EXCEPT !.next[c] = NULL])
  <2>1. TP!IInv'
    BY <1>1, <1>2, <1>3, <1>5, TP!ReplaceIInv, ProcessesAssumption
  <2>2. q'.current \in Task
    BY <2>1 DEF TP!IInv, TP!Shape, TP!CurrentIsLive
  <2> QED
    BY <1>3, <2>1, <2>2, ProcessesAssumption
<1>6. CASE x.current = c /\ live # {c} /\ l = [x EXCEPT !.next[c] = Wild]
  <2> HIDE DEF x
  <2>1. l.current = c /\ l.next[c] = Wild /\ l \in TP!List
    BY <1>4, <1>6 DEF TP!List, TP!Pointer
  <2>2. q'.current = Wild
    BY <1>2, <2>1, TP!SwitchNextLinks, ProcessesAssumption
  <2> QED
    BY <1>3, <1>6, <2>2, OnlyTheLastNeedsShell
<1> QED
  BY <1>4, <1>5, <1>6

(* The last process of the table ends, and a shell takes over. *)
LEMMA ExitToShellPInv ==
    ASSUME PInv, T!PrevIsRight, NEW t \in Task, ExitToShell(t)
    PROVE  PInv'
<1> DEFINE L == live \ {q.current}
<1>1. /\ Types /\ UpAndRunning /\ failed' = failed
      /\ CanLoad(unlinked) /\ t \notin L /\ live' = L \cup {t}
      /\ Register(unlinked, t) /\ process_current' = fresh
  BY DEF PInv, ExitToShell
<1>2. (TP!IInv' /\ halted' = FALSE) \/ (~NothingLost /\ halted' = TRUE)
  BY <1>1, ShellQueue
<1>3. /\ L \in SUBSET Task /\ unlinked \in [Slot -> Proc \cup {NULL}]
      /\ OwnedIn(L) /\ RowsIn(unlinked, L)
      /\ NothingLost => RegisteredIn(unlinked, L)
  BY <1>1, UnlinkEffect
<1>4. /\ owner' \in [Task -> Proc \cup {NULL}]
      /\ processes' \in [Slot -> Proc \cup {NULL}]
      /\ proc' \in [Proc -> [id : Slot, task : Task \cup {NULL}]]
      /\ used' \in Proc /\ fresh \in Proc
      /\ OwnedIn(live)'
      /\ RowsIn(processes, live)'
      /\ proc'[fresh].task \in live' /\ owner'[proc'[fresh].task] = fresh
      /\ RegisteredIn(unlinked, L) => RegisteredIn(processes, live)'
  BY <1>1, <1>3, RegisterEffect
<1>5. Types'
  BY <1>1, <1>2, <1>4 DEF Types
<1>6. IsRunning(process_current)'
  BY <1>1, <1>4 DEF IsRunning
<1>7. NothingLost' => RegisteredIn(processes, live)'
  BY <1>1, <1>3, <1>4 DEF NothingLost
<1>8. CASE TP!IInv' /\ halted' = FALSE
  BY <1>4, <1>5, <1>6, <1>7, <1>8 DEF PInv, UpAndRunning, DiesOnlyOutOfMemory
<1>9. CASE ~NothingLost /\ halted' = TRUE
  <2>1. failed' \cap {"data", "task", "map"} # {}
    BY <1>1, <1>9, ProcessesAssumption DEF NothingLost, Types, Failure
  <2> QED
    BY <1>5, <1>9, <2>1 DEF PInv, DiesOnlyOutOfMemory
<1> QED
  BY <1>2, <1>8, <1>9

(* The shell cannot be loaded: not for want of a slot, the one of the      *)
(* process that ends is free.                                              *)
LEMMA ExitToPanicPInv ==
    ASSUME PInv, ExitToPanic
    PROVE  PInv'
<1>1. /\ Types /\ UpAndRunning /\ ~halted /\ halted' = TRUE
      /\ processes' = unlinked /\ UNCHANGED <<owner, process_current, proc, used>>
  BY DEF PInv, ExitToPanic
<1>2. unlinked \in [Slot -> Proc \cup {NULL}] /\ FreeSlots(unlinked) # {}
  BY <1>1, UnlinkEffect
<1>3. CASE ~CanLoad(unlinked) /\ failed' = failed
  <2>1. used = MaxProc
    BY <1>1, <1>2, <1>3, ProcessesAssumption DEF CanLoad, Types, Proc
  <2> QED
    BY <1>1, <1>2, <1>3, <2>1 DEF PInv, Types, DiesOnlyOutOfMemory
<1>4. CASE \E step \in {"data", "task", "map"} : Fails(step)
  <2>1. PICK step \in {"data", "task", "map"} : step \in Failures /\ failed' = failed \cup {step}
    BY <1>4 DEF Fails
  <2>2. DiesOnlyOutOfMemory'
    BY <2>1 DEF DiesOnlyOutOfMemory
  <2> QED
    BY <1>1, <1>2, <2>1, <2>2 DEF PInv, Types
<1> QED
  BY <1>3, <1>4 DEF ExitToPanic

(* The clock, and a block of the heap that changes hands. *)
LEMMA QueueOnlyPInv ==
    ASSUME PInv, Clock \/ \E t \in Task : Reuse(t)
    PROVE  PInv'
<1>1. /\ Types /\ UpAndRunning /\ ~halted
      /\ (T!Clock \/ \E t \in Task : T!Reuse(t))
      /\ live' = live
      /\ UNCHANGED <<owner, processes, process_current, proc, used, halted, failed>>
  BY DEF PInv, Clock, Reuse, T!Clock, T!Reuse
<1>2. TP!IInv'
  BY <1>1, SameSteps, TP!OthersIInv, ProcessesAssumption DEF UpAndRunning
<1> QED
  BY <1>1, <1>2 DEF PInv, Types, UpAndRunning, DiesOnlyOutOfMemory, OwnedIn, RowsIn, IsRunning,
                    NothingLost, RegisteredIn, Taken, FreeSlots

(* Every step. *)
LEMMA NextPInv ==
    ASSUME PInv, [Next]_vars
    PROVE  PInv'
<1>1. CASE UNCHANGED vars
  BY <1>1 DEF vars, PInv, Types, UpAndRunning, DiesOnlyOutOfMemory, OwnedIn, RowsIn, IsRunning,
              NothingLost, RegisteredIn, Taken, FreeSlots,
              TP!IInv, TP!Shape, TP!QueueIsOrder, TP!CurrentIsLive, TP!Distinct
<1> QED
  BY <1>1, LoadPInv, MapFailsPInv, UnbornPInv, ExitPInv, ExitToPanicPInv, ExitToShellPInv,
     QueueOnlyPInv DEF Next, Hang

-----------------------------------------------------------------------------
(* Theorems *)

(* The invariant of the process layer. *)
THEOREM ProcessesInductive == Spec => []PInv
<1>1. PInv /\ [Next]_vars => PInv'
  BY NextPInv
<1> QED
  BY <1>1, InitPInv, PTL DEF Spec

(* The state of process.c and task.c has its types until the kernel dies.  *)
THEOREM ProcessesTypeCorrect == Spec => []TypeOK
<1>1. PInv => TypeOK
  <2> SUFFICES ASSUME PInv
               PROVE  ~halted => T!TypeOK
    BY DEF TypeOK, PInv, Types
  <2> SUFFICES ASSUME TP!IInv
               PROVE  T!TypeOK
    BY DEF PInv, UpAndRunning
  <2>1. PICK n \in Nat : n = Len(order) /\ n >= 1
    BY DEF TP!IInv, TP!Shape, TP!QueueIsOrder
  <2>2. q.head = order[1] /\ q.tail = order[n] /\ q.current \in live
    BY <2>1 DEF TP!IInv, TP!QueueIsOrder, TP!CurrentIsLive
  <2>3. order[1] \in Task /\ order[n] \in Task /\ q.current \in Task
    BY <2>1, <2>2 DEF TP!IInv, TP!Shape
  <2> QED
    BY <2>2, <2>3 DEF TP!IInv, TP!Shape, T!TypeOK, TP!Pointer, T!Pointer
<1> QED
  BY <1>1, ProcessesInductive, PTL

(* Through every exit, exception and failed load, the keyboard belongs to  *)
(* a process with a live task.                                             *)
THEOREM FocusStaysRunning == Spec => []FocusIsRunning
<1>1. PInv => FocusIsRunning
  BY DEF PInv, UpAndRunning, FocusIsRunning
<1> QED
  BY <1>1, ProcessesInductive, PTL

(* The table never names a process that has ended, nor one that was only   *)
(* half built.                                                             *)
THEOREM TableStaysRunning == Spec => []TableIsRunning
<1>1. PInv => TableIsRunning
  BY DEF PInv, UpAndRunning, TableIsRunning, RowsIn, IsRunning
<1> QED
  BY <1>1, ProcessesInductive, PTL

(* Unless a file cannot be loaded or memory not be mapped, every task of   *)
(* the run queue is in the table.                                          *)
THEOREM NoTaskIsForgotten == Spec => []RegisteredUntilFailure
<1>1. PInv => RegisteredUntilFailure
  BY DEF PInv, UpAndRunning, RegisteredUntilFailure, RunningIsRegistered, RegisteredIn, NothingLost,
         TableIsRunning, RowsIn, IsRunning
<1> QED
  BY <1>1, ProcessesInductive, PTL

(* task_switch_next() always finds a task: the kernel stops only when the  *)
(* heap is exhausted, or in a load that fails.                             *)
THEOREM SchedulerNeverStrands == Spec => []DiesOnlyOutOfMemory
<1>1. PInv => DiesOnlyOutOfMemory
  BY DEF PInv
<1> QED
  BY <1>1, ProcessesInductive, PTL

(* Then a shell takes the place of the last task, as in TaskList.          *)
LEMMA ShellForTheLast ==
    ASSUME PInv, NothingLost, T!PrevIsRight, NEW t \in Task, ExitToShell(t)
    PROVE  T!LastExit(t)
<1>1. Types /\ UpAndRunning /\ T!Running /\ NeedsShell
  BY DEF PInv, ExitToShell
<1>2. live = {q.current}
  BY <1>1, OnlyTheLastNeedsShell
<1>3. q' = T!task_switch_next(T!task_new(T!task_list_remove(q, q.current), t))
  <2>1. PICK l \in Reused(T!task_new(T!task_list_remove(q, q.current), t), t) :
          q' = T!task_switch_next(l)
    BY DEF ExitToShell
  <2>2. l = TP!task_new(TP!task_list_remove(q, q.current), t)
    BY <1>1, <1>2, ShellReads
  <2> QED
    BY <2>1, <2>2, SameOperators
<1>4. order' = Append(TP!Without(TP!Position(q.current)), t)
  BY SameOperators DEF ExitToShell
<1>5. order' = <<t>>
  BY <1>1, <1>2, <1>4, TP!OneTaskReplaced, ProcessesAssumption DEF UpAndRunning
<1> QED
  BY <1>1, <1>2, <1>3, <1>5 DEF ExitToShell, T!LastExit

(* The process layer does to the run queue what TaskList allows, until the *)
(* kernel dies or a load leaves a running task out of the table.           *)
THEOREM ImplementsQueue == Spec => QueueRefined
<1>1. Init => T!Init
  BY DEF Init
<1>2. PInv /\ [Next]_vars =>
        [T!Next \/ halted' \/ ~(failed' \subseteq {"args", "task"})]_<<q, live, order>>
  <2> SUFFICES ASSUME PInv, Next, ~halted', failed' \subseteq {"args", "task"}
               PROVE  T!Next \/ UNCHANGED <<q, live, order>>
    BY DEF vars
  <2>1. ASSUME NEW t \in Task, Start(t) \/ StartWithoutArgs(t) \/ MapFails(t)
        PROVE  T!Next
    BY <2>1 DEF Start, StartWithoutArgs, MapFails, T!Next, T!Others
  <2>2. CASE DataFails \/ TaskFails
    BY <2>2 DEF DataFails, TaskFails, TerminateUnborn
  <2>3. CASE T!PrevIsRight /\ Exit
    BY <2>3, ExitPInv DEF T!Next
  <2>4. CASE ExitToPanic
    BY <2>4 DEF ExitToPanic
  <2>5. ASSUME NEW t \in Task, T!PrevIsRight, ExitToShell(t)
        PROVE  T!Next
    <3>1. NothingLost
      BY <2>5 DEF ExitToShell, NothingLost
    <3> QED
      BY <2>5, <3>1, ShellForTheLast DEF T!Next, T!Others
  <2>6. CASE Clock \/ \E t \in Task : Reuse(t)
    BY <2>6 DEF Clock, Reuse, T!Next, T!Others
  <2>7. CASE Hang
    BY <2>7 DEF Hang, vars
  <2> QED
    BY <2>1, <2>2, <2>3, <2>4, <2>5, <2>6, <2>7 DEF Next
<1> QED
  BY <1>1, <1>2, ProcessesInductive, PTL DEF Spec, QueueRefined

=============================================================================
